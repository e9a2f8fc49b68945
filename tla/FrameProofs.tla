------------------------------ MODULE FrameProofs ------------------------------
(***************************************************************************)
(* The way of a frame.                                                     *)
(*                                                                         *)
(* NoiseTransport: the tunnel for any numbers of frames, of any length,    *)
(* and every way of cutting up the byte stream: no frame is rejected but   *)
(* for a node that is sent before the keys, frames are taken whole and in  *)
(* order, and no key is used twice with one IV.                            *)
(*                                                                         *)
(* BinaryCodec, the second half of the module: what is in a frame.  The    *)
(* two share nothing but this module.  A decoder reads what the encoder    *)
(* has written, for any nodes, tokens and strings, and refuses what is     *)
(* left of it when the end is lost.                                        *)
(***************************************************************************)
EXTENDS NoiseTransport, BinaryCodec, SequenceTheorems, WellFoundedInduction, TLAPS


-----------------------------------------------------------------------------
(* The states of the handshake, the same on both sides, and its messages.   *)

S1 == MixDH(MixHash(Greeted, "serverEphemeral"), "ee")
C1 == Cipher(S1, "serverStatic")
S2 == MixDH(After(S1, C1), "es")
C2 == Cipher(S2, "certificate")
S3 == After(S2, C2)
CF == Cipher(S3, "noiseKey")
S4 == MixDH(After(S3, CF), "se")

Hello == [kind |-> "hello", len |-> MaxLen, static |-> C1, payload |-> C2]

\* The nth frame of the client.
ClientFrame(n) ==
    CASE n = 1 -> [intro |-> TRUE, key |-> << >>, iv |-> 0, data |-> "clientEphemeral"]
      [] n = 2 -> [intro |-> FALSE, key |-> << >>, iv |-> 0, data |-> CF]
      [] n > 2 -> [intro |-> FALSE, key |-> SendKey(S4), iv |-> IV(n - 3), data |-> AppNode]

\* How many frames the client has sent and the server has taken.
ClientSent  == IF ~introSent THEN 0 ELSE IF ~transport THEN 1 ELSE 2 + sendCounter
ServerTaken == CASE serverSide.phase = "start"     -> 0
                 [] serverSide.phase = "greeted"   -> 1
                 [] serverSide.phase = "transport" -> 2 + serverSide.recvCounter
                 [] serverSide.phase = "refused"   -> 2

\* The frames of either side; those of the server after the first are under its key.
FromClient == {ClientFrame(n) : n \in Nat \ {0}}
Later      == [kind : {"node", "malformed"}, len : 0..MaxLen, key : {RecvKey(S4)},
               iv : {IV(n) : n \in Nat}]
FromServer == {Hello} \cup Later

\* A node that the application sends before there are keys.
PlainFrame == [intro |-> FALSE, key |-> << >>, iv |-> 0, data |-> AppNode]
Frames     == FromClient \cup {PlainFrame}

Byte == [frame : Nat, byte : Nat]

Typed ==
    /\ transport \in BOOLEAN /\ introSent \in BOOLEAN /\ looping \in BOOLEAN
    /\ sendCounter \in Nat /\ recvCounter \in Nat /\ taken \in Nat /\ early \in Nat
    /\ serverSide \in [phase : {"start", "greeted", "transport", "refused"}, handshake : {Greeted, S3, S4},
                       sendCounter : Nat, recvCounter : Nat]
    /\ sent \in Seq(FromServer)
    /\ toServer \in Seq(Frames)
    /\ inBuffer \in Seq(Byte)
    /\ stream \in Seq(Byte)

\* Both sides are where the handshake and the counters say they are.
HandshakeInv ==
    /\ IF transport THEN handshake = S4 /\ introSent /\ taken = recvCounter + 1
                    ELSE handshake = Greeted /\ sendCounter = 0 /\ recvCounter = 0 /\ taken = 0
    /\ serverSide.handshake = CASE serverSide.phase = "start"     -> Greeted
                                [] serverSide.phase = "greeted"   -> S3
                                [] serverSide.phase = "transport" -> S4
                                [] serverSide.phase = "refused"   -> S3
    /\ serverSide.phase = "start" => sent = << >>
    /\ serverSide.phase # "start" => introSent
    /\ serverSide.phase # "transport" => serverSide.sendCounter = 0 /\ serverSide.recvCounter = 0
    /\ serverSide.phase = "transport" => transport

\* Q is made of the frames s + 1 to c of the client.
Queued(Q, s, c) ==
    /\ s <= c
    /\ Len(Q) = c - s
    /\ \A k \in 1..c - s : Q[k] = ClientFrame(s + k)

\* The plain frame is where the server looks for the client's finish.
InPlaceOfFinish(Q) ==
    /\ introSent /\ serverSide.phase # "transport"
    /\ serverSide.phase = "start" => Len(Q) >= 2 /\ Q[1] = ClientFrame(1) /\ Q[2] = PlainFrame
    /\ serverSide.phase = "greeted" => Len(Q) >= 1 /\ Q[1] = PlainFrame

\* Frames of the client that the server has not taken.
ToServerInv ==
    IF early = 0 THEN serverSide.phase # "refused" /\ Queued(toServer, ServerTaken, ClientSent)
                 ELSE InPlaceOfFinish(toServer)

\* The frames of the server, each under the next counter.
SentInv ==
    /\ serverSide.phase # "start" => Len(sent) = serverSide.sendCounter + 1 /\ sent[1] = Hello
    /\ \A n \in 2..Len(sent) : sent[n] \in Later /\ sent[n].iv = IV(n - 2)

\* Frame f, of size[f] bytes, has the bytes start[f] + 1 to start[f + 1] of all that
\* has been sent, and T is what is left of that after the first t frames of n.
Placed(T, t, n, size, start) ==
    /\ \A f \in 1..n + 1 : start[f] \in Nat
    /\ \A f \in 1..n : size[f] \in Nat \ {0} /\ start[f + 1] = start[f] + size[f]
    /\ \A f, g \in 1..n + 1 : f <= g => start[f] <= start[g]
    /\ Len(T) = start[n + 1] - start[t + 1]
    /\ \A f \in t + 1..n : \A b \in 1..size[f] :
           T[start[f] - start[t + 1] + b] = [frame |-> f, byte |-> b]

\* T is made of the bytes of the frames t + 1 to n, whole and in order.
Whole(T, t, n, size) == t <= n /\ \E start : Placed(T, t, n, size, start)

\* The bytes that have arrived and not been consumed, with those under way, are those
\* of the frames that have not been taken.
Total == inBuffer \o stream
Sizes == [n \in 1..Len(sent) |-> HeaderLen + sent[n].len]
StreamInv == Whole(Total, taken, Len(sent), Sizes)

IInv == Typed /\ HandshakeInv /\ ToServerInv /\ SentInv /\ StreamInv /\ NothingRejected

\* Every key and IV that has been used.
UsedIVs ==
    (IF serverSide.phase = "start" THEN {} ELSE {KeyAndIV(C1), KeyAndIV(C2)})
    \cup (IF transport THEN {KeyAndIV(CF)} ELSE {})
    \cup {<<SendKey(S4), IV(n)>> : n \in 0..sendCounter - 1}
    \cup {<<RecvKey(S4), IV(n)>> : n \in 0..serverSide.sendCounter - 1}

\* No key and IV of them has been used twice, and the counters are within the bounds.
CiphersInv ==
    /\ ciphers \in Seq(UsedIVs) /\ UniqueIVs
    /\ sendCounter <= MaxToServer /\ serverSide.sendCounter <= MaxToClient

LEMMA ThreePieces ==
    ASSUME NEW a \in Seq(Byte), NEW b \in Seq(Byte), NEW c \in Seq(Byte)
    PROVE  (a \o b) \o c = a \o (b \o c)
  BY ConcatAssociative

-----------------------------------------------------------------------------
(* The byte stream.                                                         *)

\* Byte b of a frame of z bytes at x, counted from a, when there are w bytes.
LEMMA Between ==
    ASSUME NEW a \in Nat, NEW x \in Nat, NEW z \in Nat, NEW w \in Nat, NEW b \in 1..z,
           a <= x, x + z <= w
    PROVE  x - a + b \in 1..w - a
  OBVIOUS

\* What is known of one frame.
LEMMA FrameIn ==
    ASSUME NEW n \in Nat, NEW t \in Nat, NEW size, NEW T, NEW start,
           t <= n, Placed(T, t, n, size, start), NEW f \in t + 1..n
    PROVE  /\ start[t + 1] \in Nat /\ start[f] \in Nat /\ size[f] \in Nat \ {0} /\ start[n + 1] \in Nat
           /\ start[f + 1] = start[f] + size[f]
           /\ start[t + 1] <= start[f] /\ start[f + 1] <= start[n + 1]
           /\ Len(T) = start[n + 1] - start[t + 1]
           /\ \A b \in 1..size[f] : T[start[f] - start[t + 1] + b] = [frame |-> f, byte |-> b]
  <1>1. /\ f \in 1..n /\ f \in 1..n + 1 /\ f + 1 \in 1..n + 1
        /\ t + 1 \in 1..n + 1 /\ n + 1 \in 1..n + 1 /\ t + 1 <= f /\ f + 1 <= n + 1
    OBVIOUS
  <1> QED BY <1>1 DEF Placed

\* The first frame that is left, with its bytes, is at the head.
LEMMA FirstFrame ==
    ASSUME NEW n \in Nat, NEW t \in Nat, NEW size, NEW T, Whole(T, t, n, size), Len(T) # 0
    PROVE  /\ t + 1 \in 1..n /\ size[t + 1] \in Nat \ {0} /\ size[t + 1] <= Len(T)
           /\ \A b \in 1..size[t + 1] : T[b] = [frame |-> t + 1, byte |-> b]
  <1>1. PICK start : t <= n /\ Placed(T, t, n, size, start)
    BY DEF Whole
  <1>2. t + 1 \in 1..n + 1 /\ n + 1 \in 1..n + 1
    BY <1>1
  <1>3. Len(T) = start[n + 1] - start[t + 1] /\ start[n + 1] \in Nat /\ start[t + 1] \in Nat
    BY <1>1, <1>2 DEF Placed
  <1>4. t # n
    <2> SUFFICES ASSUME t = n PROVE FALSE
      OBVIOUS
    <2>1. start[n + 1] = start[t + 1]
      OBVIOUS
    <2> QED BY <1>3, <2>1
  <1>5. t + 1 \in t + 1..n /\ t + 1 \in 1..n
    BY <1>1, <1>4
  <1>6. /\ size[t + 1] \in Nat \ {0}
        /\ start[t + 1 + 1] = start[t + 1] + size[t + 1] /\ start[t + 1 + 1] <= start[n + 1]
        /\ \A b \in 1..size[t + 1] :
              T[start[t + 1] - start[t + 1] + b] = [frame |-> t + 1, byte |-> b]
    BY <1>1, <1>5, FrameIn
  <1>7. size[t + 1] <= Len(T)
    BY <1>3, <1>6
  <1>8. ASSUME NEW b \in 1..size[t + 1]
        PROVE  T[b] = [frame |-> t + 1, byte |-> b]
    <2>1. start[t + 1] - start[t + 1] + b = b
      BY <1>3, <1>6
    <2> QED BY <1>6, <2>1
  <1> QED BY <1>5, <1>6, <1>7, <1>8

\* U is T without its first h members.
Shifted(U, T, h) == Len(U) = Len(T) - h /\ \A i \in 1..Len(T) - h : U[i] = T[h + i]

\* Without the first frame.
LEMMA WholeTake ==
    ASSUME NEW n \in Nat, NEW t \in Nat, NEW size, NEW T, NEW U,
           Whole(T, t, n, size), Len(T) # 0, Shifted(U, T, size[t + 1])
    PROVE  Whole(U, t + 1, n, size)
  <1>1. PICK start : t <= n /\ Placed(T, t, n, size, start)
    BY DEF Whole
  <1>2. t + 1 \in 1..n
    BY FirstFrame, Zenon
  <1>3. t + 1 \in t + 1..n /\ t + 1 + 1 \in 1..n + 1
    BY <1>2
  <1>4. /\ size[t + 1] \in Nat \ {0} /\ start[t + 1] \in Nat /\ start[n + 1] \in Nat
        /\ start[t + 1 + 1] = start[t + 1] + size[t + 1] /\ start[t + 1 + 1] <= start[n + 1]
        /\ Len(T) = start[n + 1] - start[t + 1]
    BY <1>1, <1>3, FrameIn
  <1>5. ASSUME NEW f \in t + 1 + 1..n, NEW b \in 1..size[f]
        PROVE  U[start[f] - start[t + 1 + 1] + b] = [frame |-> f, byte |-> b]
    <2>1. f \in t + 1..n /\ f \in 1..n + 1 /\ t + 1 + 1 <= f
      BY <1>2
    <2>2. /\ start[f] \in Nat /\ size[f] \in Nat \ {0}
          /\ start[f + 1] = start[f] + size[f] /\ start[f + 1] <= start[n + 1]
          /\ T[start[f] - start[t + 1] + b] = [frame |-> f, byte |-> b]
      BY <1>1, <2>1, FrameIn
    <2>3. start[t + 1 + 1] <= start[f]
      BY Zenon, <1>1, <1>3, <2>1 DEF Placed
    <2>4. start[f] + size[f] <= start[n + 1] /\ size[f] \in Nat
      BY <2>2
    <2>5. b \in Int
      BY <2>4
    <2>6. size[t + 1] \in Nat /\ start[t + 1 + 1] \in Nat
      <3>1. size[t + 1] \in Nat
        BY Zenon, <1>4
      <3> QED BY SMTT(30), <1>4, <3>1
    <2>7. start[t + 1] \in Nat /\ start[t + 1 + 1] = start[t + 1] + size[t + 1] /\ start[f] \in Nat
      BY <1>4, <2>2
    <2> DEFINE i == start[f] - start[t + 1 + 1] + b
    <2>8. size[t + 1] + i = start[f] - start[t + 1] + b
      BY <2>5, <2>6, <2>7, SMTT(20)
    <2> HIDE DEF i
    <2>9. i \in 1..start[n + 1] - start[t + 1 + 1]
      BY <1>4, <2>2, <2>3, <2>4, <2>6, Between, Zenon DEF i
    <2>10. Len(T) - size[t + 1] = start[n + 1] - start[t + 1 + 1]
      BY <1>4
    <2>11. U[i] = T[size[t + 1] + i]
      BY <2>9, <2>10 DEF Shifted
    <2> QED BY <2>2, <2>8, <2>11 DEF i
  <1>6. Len(U) = start[n + 1] - start[t + 1 + 1]
    BY SMTT(30), <1>4 DEF Shifted
  <1>7. Placed(U, t + 1, n, size, start)
    BY Zenon, <1>1, <1>5, <1>6 DEF Placed
  <1> QED BY <1>2, <1>7 DEF Whole

\* U is T with frame number n and of s bytes after it.
Longer(U, T, n, s) ==
    /\ Len(U) = Len(T) + s
    /\ \A i \in 1..Len(T) : U[i] = T[i]
    /\ \A b \in 1..s : U[Len(T) + b] = [frame |-> n, byte |-> b]

\* With one more frame at the end.
LEMMA WholePut ==
    ASSUME NEW n \in Nat, NEW t \in Nat, NEW size, NEW more, NEW T, NEW U, NEW s \in Nat \ {0},
           Whole(T, t, n, size), Longer(U, T, n + 1, s),
           \A f \in 1..n : more[f] = size[f], more[n + 1] = s
    PROVE  Whole(U, t, n + 1, more)
  <1>1. PICK start : t <= n /\ Placed(T, t, n, size, start)
    BY DEF Whole
  <1> DEFINE next == [f \in 1..n + 2 |-> IF f = n + 2 THEN start[n + 1] + s ELSE start[f]]
  <1>2. t + 1 \in 1..n + 1 /\ n + 1 \in 1..n + 1
    BY <1>1
  <1>3. start[n + 1] \in Nat /\ start[t + 1] \in Nat /\ Len(T) = start[n + 1] - start[t + 1]
    BY <1>1, <1>2 DEF Placed
  <1>4. (\A f \in 1..n + 1 : next[f] = start[f]) /\ next[n + 2] = start[n + 1] + s
    OBVIOUS
  <1> HIDE DEF next
  <1>5. \A f \in 1..n + 1 + 1 : next[f] \in Nat
    <2>1. \A f \in 1..n + 1 : start[f] \in Nat
      BY <1>1 DEF Placed
    <2> QED BY SMTT(30), <1>3, <1>4, <2>1
  <1>6. ASSUME NEW f \in 1..n + 1
        PROVE  more[f] \in Nat \ {0} /\ next[f + 1] = next[f] + more[f]
    <2>1. CASE f = n + 1
      BY SMTT(30), <1>3, <1>4, <2>1
    <2>2. CASE f # n + 1
      <3>1. f \in 1..n /\ f + 1 \in 1..n + 1
        BY <2>2
      <3>2. size[f] \in Nat \ {0} /\ start[f + 1] = start[f] + size[f]
        BY <1>1, <3>1 DEF Placed
      <3> QED BY <1>4, <3>1, <3>2
    <2> QED BY <2>1, <2>2
  <1>7. ASSUME NEW f \in 1..n + 1 + 1, NEW g \in 1..n + 1 + 1, f <= g
        PROVE  next[f] <= next[g]
    <2>1. CASE f \in 1..n + 1 /\ g \in 1..n + 1
      <3>1. start[f] <= start[g]
        BY <1>1, <1>7, <2>1 DEF Placed
      <3> QED BY <1>4, <2>1, <3>1
    <2>2. CASE f \in 1..n + 1 /\ g = n + 2
      <3>1. start[f] <= start[n + 1] /\ start[f] \in Nat
        BY <1>1, <1>2, <2>2 DEF Placed
      <3>2. next[f] = start[f] /\ next[g] = start[n + 1] + s
        BY <1>4, <2>2
      <3> QED BY <1>3, <3>1, <3>2
    <2>3. CASE f = n + 2 /\ g = n + 2
      BY <1>5, <2>3
    <2> QED BY <1>7, <2>1, <2>2, <2>3
  <1>8. Len(U) = next[n + 1 + 1] - next[t + 1]
    <2>1. Len(U) = Len(T) + s /\ next[n + 2] = start[n + 1] + s /\ next[t + 1] = start[t + 1]
      BY <1>2, <1>4 DEF Longer
    <2> QED BY <1>3, <2>1
  <1>9. ASSUME NEW f \in t + 1..n + 1, NEW b \in 1..more[f]
        PROVE  U[next[f] - next[t + 1] + b] = [frame |-> f, byte |-> b]
    <2>1. CASE f = n + 1
      <3>1. next[f] - next[t + 1] + b = Len(T) + b /\ b \in 1..s
        BY Zenon, <1>2, <1>3, <1>4, <2>1
      <3> QED BY <2>1, <3>1 DEF Longer
    <2>2. CASE f # n + 1
      <3>1. f \in t + 1..n /\ f \in 1..n /\ f \in 1..n + 1 /\ b \in 1..size[f]
        BY <1>1, <2>2
      <3>2. /\ T[start[f] - start[t + 1] + b] = [frame |-> f, byte |-> b]
            /\ start[f + 1] = start[f] + size[f] /\ start[f + 1] <= start[n + 1]
            /\ start[t + 1] <= start[f] /\ start[f] \in Nat /\ size[f] \in Nat
        BY <1>1, <3>1, FrameIn
      <3>3. start[f] - start[t + 1] + b \in 1..start[n + 1] - start[t + 1]
        <4>1. start[f] + size[f] <= start[n + 1]
          BY <3>2
        <4> QED BY <1>3, <3>1, <3>2, <4>1, Between, Zenon
      <3>4. next[f] = start[f] /\ next[t + 1] = start[t + 1]
        BY <1>2, <1>4, <3>1
      <3> QED BY <1>3, <3>2, <3>3, <3>4 DEF Longer
    <2> QED BY <2>1, <2>2
  <1>10. Placed(U, t, n + 1, more, next)
    BY Zenon, <1>5, <1>6, <1>7, <1>8, <1>9 DEF Placed
  <1>11. t <= n + 1
    BY <1>1
  <1> QED BY <1>10, <1>11 DEF Whole

-----------------------------------------------------------------------------
(* The two queues.                                                          *)

\* A frame more at the end of the client's, and one less at their head.
LEMMA QueuedAppend ==
    ASSUME NEW Q \in Seq(Frames), NEW s \in Nat, NEW c \in Nat, Queued(Q, s, c)
    PROVE  LET R == Append(Q, ClientFrame(c + 1))
           IN  R \in Seq(Frames) /\ Queued(R, s, c + 1)
  <1> DEFINE x == ClientFrame(c + 1)
             R == Append(Q, x)
  <1>1. x \in Frames
    BY DEF FromClient, Frames
  <1> HIDE DEF x
  <1>2. /\ R \in Seq(Frames) /\ Len(R) = Len(Q) + 1 /\ R[Len(Q) + 1] = x
        /\ \A k \in 1..Len(Q) : R[k] = Q[k]
    BY <1>1
  <1> HIDE DEF R
  <1>3. s <= c /\ Len(Q) = c - s /\ \A k \in 1..c - s : Q[k] = ClientFrame(s + k)
    BY DEF Queued
  <1>4. ASSUME NEW k \in 1..c + 1 - s
        PROVE  R[k] = ClientFrame(s + k)
    <2>1. CASE k = c - s + 1
      <3>1. s + k = c + 1 /\ k = Len(Q) + 1
        BY <1>3, <2>1
      <3> QED BY <1>2, <3>1 DEF x
    <2>2. CASE k # c - s + 1
      <3>1. k \in 1..c - s /\ k \in 1..Len(Q)
        BY <1>3, <2>2
      <3> QED BY Zenon, <1>2, <1>3, <3>1
    <2> QED BY <2>1, <2>2
  <1>5. Len(R) = c + 1 - s /\ s <= c + 1
    BY <1>2, <1>3
  <1>6. Queued(R, s, c + 1)
    BY <1>4, <1>5 DEF Queued
  <1> QED BY <1>2, <1>6 DEF R, x

LEMMA QueuedTail ==
    ASSUME NEW Q \in Seq(Frames), NEW s \in Nat, NEW c \in Nat, Queued(Q, s, c), Q # << >>
    PROVE  /\ s + 1 <= c /\ Head(Q) = ClientFrame(s + 1)
           /\ Tail(Q) \in Seq(Frames) /\ Queued(Tail(Q), s + 1, c)
  <1>1. s <= c /\ Len(Q) = c - s /\ \A k \in 1..c - s : Q[k] = ClientFrame(s + k)
    BY DEF Queued
  <1>2. /\ Len(Q) # 0 /\ Head(Q) = Q[1] /\ Tail(Q) \in Seq(Frames)
        /\ Len(Tail(Q)) = Len(Q) - 1 /\ \A k \in 1..Len(Q) - 1 : Tail(Q)[k] = Q[k + 1]
    BY HeadTailProperties, EmptySeq
  <1>3. s + 1 <= c /\ 1 \in 1..c - s
    BY <1>1, <1>2
  <1>4. ASSUME NEW k \in 1..c - (s + 1)
        PROVE  Tail(Q)[k] = ClientFrame(s + 1 + k)
    <2>1. k \in 1..Len(Q) - 1 /\ k + 1 \in 1..c - s /\ s + (k + 1) = s + 1 + k
      BY <1>1
    <2> QED BY <1>1, <1>2, <2>1
  <1>5. Len(Tail(Q)) = c - (s + 1)
    BY <1>1, <1>2
  <1>6. Queued(Tail(Q), s + 1, c)
    BY <1>3, <1>4, <1>5 DEF Queued
  <1> QED BY <1>1, <1>2, <1>3, <1>6

\* With a plain frame in the place of the finish, what comes after it is no matter.
LEMMA InPlaceAppend ==
    ASSUME NEW Q \in Seq(Frames), InPlaceOfFinish(Q), NEW x \in Frames
    PROVE  Append(Q, x) \in Seq(Frames) /\ InPlaceOfFinish(Append(Q, x))
  <1>1. /\ Append(Q, x) \in Seq(Frames) /\ Len(Append(Q, x)) = Len(Q) + 1 /\ Len(Q) \in Nat
        /\ \A k \in 1..Len(Q) : Append(Q, x)[k] = Q[k]
    BY AppendProperties
  <1>2. (Len(Q) >= 2 => 1 \in 1..Len(Q) /\ 2 \in 1..Len(Q)) /\ (Len(Q) >= 1 => 1 \in 1..Len(Q))
    BY <1>1
  <1> QED BY <1>1, <1>2 DEF InPlaceOfFinish

-----------------------------------------------------------------------------
(* The byte stream.                                                         *)

\* Total, byte by byte.
LEMMA TotalIs ==
    ASSUME Typed
    PROVE  /\ Total \in Seq(Byte) /\ Len(Total) = Len(inBuffer) + Len(stream)
           /\ Len(inBuffer) \in Nat /\ Len(stream) \in Nat /\ Len(sent) \in Nat
           /\ \A i \in 1..Len(inBuffer) : Total[i] = inBuffer[i]
           /\ \A i \in 1..Len(stream) : Total[Len(inBuffer) + i] = stream[i]
  <1>1. inBuffer \in Seq(Byte) /\ stream \in Seq(Byte) /\ sent \in Seq(FromServer)
    BY DEF Typed
  <1> QED BY <1>1 DEF Total

\* The length of a frame.
LEMMA LenTyped ==
    ASSUME Typed, NEW n \in 1..Len(sent)
    PROVE  /\ sent[n].len \in Nat /\ Sizes[n] = sent[n].len + HeaderLen /\ sent[n] \in FromServer
           /\ Sizes[n] \in Nat \ {0}
  <1>1. sent[n] \in FromServer
    BY ElementOfSeq DEF Typed
  <1>2. MaxLen \in Nat
    BY BoundsAssumption
  <1>3. sent[n].len \in Nat
    <2>1. CASE sent[n] = Hello
      BY <1>2, <2>1 DEF Hello
    <2>2. CASE sent[n] \in Later
      BY <1>2, <2>2 DEF Later
    <2> QED BY <1>1, <2>1, <2>2 DEF FromServer
  <1>4. Sizes[n] = HeaderLen + sent[n].len
    BY DEF Sizes
  <1> QED BY <1>1, <1>3, <1>4 DEF HeaderLen

\* What the loop finds at the head of the buffer is the next frame, and all of it.
LEMMA HeadIsNext ==
    ASSUME Typed, StreamInv, HasFrame
    PROVE  /\ taken + 1 \in 1..Len(sent) /\ inBuffer[1].frame = taken + 1
           /\ HeadLen = Sizes[taken + 1] /\ HeadLen \in Nat \ {0} /\ HeadLen <= Len(inBuffer)
           /\ Intact
  <1> DEFINE f == taken + 1
  <1>1. /\ Len(Total) = Len(inBuffer) + Len(stream)
        /\ Len(inBuffer) \in Nat /\ Len(stream) \in Nat /\ Len(sent) \in Nat /\ taken \in Nat
        /\ \A i \in 1..Len(inBuffer) : Total[i] = inBuffer[i]
    BY Zenon, TotalIs DEF Typed
  <1>2. Len(inBuffer) >= 3 /\ Len(inBuffer) >= HeadLen
    BY DEF HasFrame, HeaderLen, HeadLen
  <1>3. /\ f \in 1..Len(sent) /\ Sizes[f] \in Nat \ {0}
        /\ \A b \in 1..Sizes[f] : Total[b] = [frame |-> f, byte |-> b]
    <2>1. Len(Total) # 0
      BY <1>1, <1>2
    <2> QED BY <1>1, <2>1, FirstFrame DEF StreamInv
  <1> HIDE DEF f
  <1>4. inBuffer[1].frame = f
    <2>1. Total[1] = [frame |-> f, byte |-> 1] /\ Total[1] = inBuffer[1]
      BY <1>1, <1>2, <1>3
    <2> QED BY <2>1
  <1>5. HeadLen = Sizes[f]
    BY <1>3, <1>4, LenTyped DEF HeadLen
  <1>6. ASSUME NEW b \in 1..HeadLen
        PROVE  inBuffer[b] = [frame |-> f, byte |-> b]
    <2>1. b \in 1..Len(inBuffer) /\ b \in 1..Sizes[f]
      BY <1>1, <1>2, <1>3, <1>5
    <2> QED BY <1>1, <1>3, <2>1
  <1>7. Intact
    <2> DEFINE A == SubSeq(inBuffer, 1, HeadLen)
    <2>1. Bytes(f) = [b \in 1..HeadLen |-> [frame |-> f, byte |-> b]]
      <3>1. HeaderLen + sent[f].len = HeadLen
        BY <1>3, <1>4, LenTyped DEF HeadLen, HeaderLen
      <3> QED BY <3>1 DEF Bytes
    <2>2. A = [b \in 1..HeadLen |-> inBuffer[b]]
      <3>1. inBuffer \in Seq(Byte) /\ HeadLen \in Nat /\ HeadLen <= Len(inBuffer)
        BY <1>2, <1>3, <1>5 DEF Typed
      <3> HIDE DEF A
      <3>2. A = [b \in 1..1 + HeadLen - 1 |-> inBuffer[1 + b - 1]]
        BY <3>1 DEF A
      <3> QED BY <3>1, <3>2
    <2> QED BY <1>4, <1>6, <2>1, <2>2 DEF Intact
  <1> QED BY <1>2, <1>3, <1>4, <1>5, <1>7 DEF f

\* A sequence without its first h members.
LEMMA Drop ==
    ASSUME NEW S, NEW q \in Seq(S), NEW h \in Nat, h <= Len(q)
    PROVE  /\ SubSeq(q, h + 1, Len(q)) \in Seq(S)
           /\ Len(SubSeq(q, h + 1, Len(q))) = Len(q) - h
           /\ \A i \in 1..Len(q) - h : SubSeq(q, h + 1, Len(q))[i] = q[h + i]
  <1> DEFINE r == SubSeq(q, h + 1, Len(q))
  <1>1. Len(q) \in Nat
    OBVIOUS
  <1>2. \A k \in h + 1..Len(q) : q[k] \in S
    BY <1>1, ElementOfSeq
  <1>3. /\ r \in Seq(S) /\ Len(r) = IF h + 1 <= Len(q) THEN Len(q) - (h + 1) + 1 ELSE 0
        /\ \A i \in 1..Len(q) - (h + 1) + 1 : r[i] = q[h + 1 + i - 1]
    BY <1>1, <1>2, SubSeqProperties
  <1> HIDE DEF r
  <1> QED BY <1>1, <1>3 DEF r

\* The frame at the head of the buffer is taken out of it.
LEMMA StreamTake ==
    ASSUME Typed, StreamInv, HasFrame,
           inBuffer' = SubSeq(inBuffer, HeadLen + 1, Len(inBuffer)), taken' = taken + 1,
           UNCHANGED <<stream, sent>>
    PROVE  inBuffer' \in Seq(Byte) /\ StreamInv'
  <1> DEFINE h == HeadLen
  <1>1. /\ taken + 1 \in 1..Len(sent) /\ h = Sizes[taken + 1]
        /\ h \in Nat \ {0} /\ h <= Len(inBuffer)
    BY HeadIsNext
  <1>2. /\ Total \in Seq(Byte) /\ Len(Total) = Len(inBuffer) + Len(stream)
        /\ Len(inBuffer) \in Nat /\ Len(stream) \in Nat /\ Len(sent) \in Nat /\ taken \in Nat
        /\ \A i \in 1..Len(inBuffer) : Total[i] = inBuffer[i]
        /\ \A i \in 1..Len(stream) : Total[Len(inBuffer) + i] = stream[i]
    BY TotalIs DEF Typed
  <1>3. inBuffer \in Seq(Byte) /\ stream \in Seq(Byte)
    BY DEF Typed
  <1> HIDE DEF h
  <1>4. /\ inBuffer' \in Seq(Byte) /\ Len(inBuffer') = Len(inBuffer) - h
        /\ \A i \in 1..Len(inBuffer) - h : inBuffer'[i] = inBuffer[h + i]
    <2>1. inBuffer' = SubSeq(inBuffer, h + 1, Len(inBuffer))
      BY DEF h
    <2>2. h \in Nat
      BY <1>1
    <2> DEFINE r == SubSeq(inBuffer, h + 1, Len(inBuffer))
    <2>3. /\ r \in Seq(Byte) /\ Len(r) = Len(inBuffer) - h
          /\ \A i \in 1..Len(inBuffer) - h : r[i] = inBuffer[h + i]
      BY <1>1, <1>3, <2>2, Drop, ZenonT(40)
    <2>4. inBuffer' = r
      BY Zenon, <2>1
    <2> HIDE DEF r
    <2> QED BY <2>3, <2>4, Zenon
  <1>5. /\ Total' \in Seq(Byte) /\ Len(Total') = Len(inBuffer') + Len(stream)
        /\ \A i \in 1..Len(inBuffer') : Total'[i] = inBuffer'[i]
        /\ \A i \in 1..Len(stream) : Total'[Len(inBuffer') + i] = stream[i]
    BY <1>3, <1>4, SMTT(20) DEF Total
  <1>6. Shifted(Total', Total, h)
    <2>1. Len(Total') = Len(Total) - h
      BY SMTT(30), <1>1, <1>2, <1>4, <1>5
    <2>2. ASSUME NEW i \in 1..Len(Total) - h
          PROVE  Total'[i] = Total[h + i]
      <3> DEFINE j == i - (Len(inBuffer) - h)
      <3>1. /\ h \in Nat /\ i \in 1..Len(inBuffer) + Len(stream) - h
            /\ Len(inBuffer) \in Nat /\ Len(stream) \in Nat /\ h <= Len(inBuffer)
        BY <1>1, <1>2
      <3>2. \/ i \in 1..Len(inBuffer) - h /\ h + i \in 1..Len(inBuffer)
            \/ j \in 1..Len(stream) /\ Len(inBuffer) - h + j = i /\ Len(inBuffer) + j = h + i
        BY <3>1
      <3> HIDE DEF j
      <3>3. CASE i \in 1..Len(inBuffer) - h /\ h + i \in 1..Len(inBuffer)
        BY Zenon, <1>2, <1>4, <1>5, <3>3
      <3>4. CASE j \in 1..Len(stream) /\ Len(inBuffer) - h + j = i /\ Len(inBuffer) + j = h + i
        BY <1>2, <1>4, <1>5, <3>4, SMTT(20)
      <3> QED BY <3>2, <3>3, <3>4
    <2> QED BY <2>1, <2>2 DEF Shifted
  <1>7. Len(Total) # 0
    BY <1>1, <1>2
  <1>8. Whole(Total, taken, Len(sent), Sizes)
    BY DEF StreamInv
  <1>9. Whole(Total', taken + 1, Len(sent), Sizes)
    BY <1>1, <1>2, <1>6, <1>7, <1>8, WholeTake, Zenon
  <1>10. Sizes' = Sizes
    BY DEF Sizes
  <1> QED BY <1>4, <1>9, <1>10 DEF StreamInv

\* Bytes move from the stream to the buffer.
LEMMA StreamMove ==
    ASSUME Typed, NEW n \in 1..Len(stream), Arrive(n)
    PROVE  inBuffer' \in Seq(Byte) /\ stream' \in Seq(Byte) /\ Total' = Total
  <1> DEFINE A == SubSeq(stream, 1, n)
             B == SubSeq(stream, n + 1, Len(stream))
  <1>1. stream \in Seq(Byte) /\ inBuffer \in Seq(Byte) /\ Len(stream) \in Nat /\ n \in Nat /\ n <= Len(stream)
    BY DEF Typed
  <1>2. inBuffer' = inBuffer \o A /\ stream' = B
    BY DEF Arrive
  <1>3. \A i \in 1..Len(stream) : stream[i] \in Byte
    BY <1>1, ElementOfSeq
  <1>4. A \in Seq(Byte)
    <2>1. \A i \in 1..n : stream[i] \in Byte
      BY <1>1, <1>3
    <2> QED BY <1>1, <2>1, SubSeqProperties
  <1>5. B \in Seq(Byte)
    <2>1. n + 1 \in 1..Len(stream) + 1 /\ \A i \in n + 1..Len(stream) : stream[i] \in Byte
      BY <1>1, <1>3
    <2> QED BY <1>1, <2>1, SubSeqProperties
  <1>6. A \o B = stream
    BY <1>1, ConcatAdjacentSubSeq
  <1> HIDE DEF A, B
  <1>7. (inBuffer \o A) \o B = inBuffer \o (A \o B)
    <2>1. inBuffer \in Seq(Byte)
      BY <1>1
    <2> QED BY Zenon, <1>4, <1>5, <2>1, ThreePieces
  <1>8. inBuffer \o A \in Seq(Byte)
    BY <1>1, <1>4
  <1> QED BY <1>2, <1>5, <1>6, <1>7, <1>8 DEF Total

\* A frame more is put on the stream.
LEMMA StreamPut ==
    ASSUME Typed, StreamInv, NEW frame \in FromServer, Put(frame), UNCHANGED <<inBuffer, taken>>
    PROVE  /\ sent' \in Seq(FromServer) /\ Len(sent') = Len(sent) + 1 /\ sent'[Len(sent) + 1] = frame
           /\ \A n \in 1..Len(sent) : sent'[n] = sent[n]
           /\ stream' \in Seq(Byte) /\ StreamInv'
  <1> DEFINE n == Len(sent)
             s == HeaderLen + frame.len
             new == [i \in 1..s |-> [frame |-> n + 1, byte |-> i]]
  <1>1. sent \in Seq(FromServer) /\ stream \in Seq(Byte) /\ inBuffer \in Seq(Byte) /\ n \in Nat /\ taken \in Nat
    BY DEF Typed
  <1>2. sent' = Append(sent, frame) /\ stream' = stream \o new
    BY DEF Put
  <1>3. /\ sent' \in Seq(FromServer) /\ Len(sent') = n + 1 /\ sent'[n + 1] = frame
        /\ \A f \in 1..n : sent'[f] = sent[f]
    BY <1>1, <1>2
  <1>4. s \in Nat \ {0}
    <2>1. MaxLen \in Nat
      BY BoundsAssumption
    <2>2. frame.len \in Nat
      <3>1. CASE frame = Hello
        BY <2>1, <3>1 DEF Hello
      <3>2. CASE frame \in Later
        BY <2>1, <3>2 DEF Later
      <3> QED BY <3>1, <3>2 DEF FromServer
    <2> QED BY <2>2 DEF HeaderLen
  <1> HIDE DEF s
  <1>5. new \in Seq(Byte) /\ Len(new) = s /\ \A i \in 1..s : new[i] = [frame |-> n + 1, byte |-> i]
    <2>1. \A i \in 1..s : [frame |-> n + 1, byte |-> i] \in Byte
      BY <1>1, <1>4 DEF Byte
    <2>2. new \in [1..s -> Byte]
      BY <2>1
    <2> QED BY <1>4, <2>2, SeqDef
  <1> HIDE DEF new
  <1>6. stream' \in Seq(Byte) /\ Len(stream') = Len(stream) + s
    BY <1>1, <1>2, <1>5, ConcatProperties, Zenon
  <1>7. Total' = Total \o new
    <2>1. inBuffer \in Seq(Byte) /\ stream \in Seq(Byte) /\ new \in Seq(Byte)
      BY <1>1, <1>5
    <2>2. (inBuffer \o stream) \o new = inBuffer \o (stream \o new)
      BY Zenon, <2>1, ThreePieces
    <2> QED BY <1>2, <2>2 DEF Total
  <1>8. Total \in Seq(Byte) /\ Len(Total) \in Nat
    BY TotalIs
  <1>9. Longer(Total', Total, n + 1, s)
    <2>1. /\ Len(Total \o new) = Len(Total) + Len(new)
          /\ \A i \in 1..Len(Total) + Len(new) :
                (Total \o new)[i] = IF i <= Len(Total) THEN Total[i] ELSE new[i - Len(Total)]
      BY <1>5, <1>8, ConcatProperties
    <2>2. Len(Total') = Len(Total) + s
      BY <1>5, <1>7, <2>1
    <2>3. \A i \in 1..Len(Total) : Total'[i] = Total[i]
      BY <1>4, <1>5, <1>7, <1>8, <2>1
    <2>4. ASSUME NEW b \in 1..s
          PROVE  Total'[Len(Total) + b] = [frame |-> n + 1, byte |-> b]
      <3>1. Len(Total) + b \in 1..Len(Total) + Len(new) /\ ~(Len(Total) + b <= Len(Total))
            /\ Len(Total) + b - Len(Total) = b
        BY <1>4, <1>5, <1>8
      <3> QED BY <1>5, <1>7, <2>1, <3>1
    <2> QED BY <2>2, <2>3, <2>4 DEF Longer
  <1>10. \A f \in 1..n : Sizes'[f] = Sizes[f]
    BY <1>1, <1>3 DEF Sizes
  <1>11. Sizes'[n + 1] = s
    BY <1>1, <1>3 DEF Sizes, s
  <1>12. Whole(Total, taken, n, Sizes)
    BY DEF StreamInv
  <1>13. Whole(Total', taken, n + 1, Sizes')
    BY <1>1, <1>4, <1>9, <1>10, <1>11, <1>12, WholePut, Zenon
  <1>14. StreamInv'
    BY <1>3, <1>13 DEF StreamInv
  <1> QED BY <1>3, <1>6, <1>14

-----------------------------------------------------------------------------
(* The handshake.                                                           *)

\* The server's hello opens at the client, and both end up in the same state.
LEMMA HelloOpens ==
    LET r == ProcessServerHello(Greeted, Hello)
    IN  r.ok /\ r.finish = CF /\ r.handshake = S4
  <1>1. Hello.static = C1 /\ Hello.payload = C2
    BY DEF Hello
  <1>2. Opens(S1, C1) /\ Opens(S2, C2)
    BY DEF Opens, C1, C2, Cipher
  <1>3. ProcessServerHello(Greeted, Hello)
            = [ok |-> Opens(S1, C1) /\ Opens(S2, C2), finish |-> CF, handshake |-> S4]
    BY <1>1, Zenon DEF ProcessServerHello, S1, S2, S3, S4, CF
  <1> DEFINE r == ProcessServerHello(Greeted, Hello)
  <1> HIDE DEF r
  <1>4. r = [ok |-> Opens(S1, C1) /\ Opens(S2, C2), finish |-> CF, handshake |-> S4]
    BY <1>3 DEF r
  <1>5. r.ok = (Opens(S1, C1) /\ Opens(S2, C2)) /\ r.finish = CF /\ r.handshake = S4
    BY <1>4
  <1> QED BY <1>2, <1>5, Zenon DEF r

\* A handshake state with key material salt and its counter.
At(s, salt, counter) == \E h : s = [hash |-> h, salt |-> salt, counter |-> counter]

LEMMA AtMoves ==
    ASSUME NEW s, NEW salt, NEW counter, At(s, salt, counter)
    PROVE  /\ s.salt = salt /\ s.counter = counter
           /\ \A data : At(MixHash(s, data), salt, counter)
           /\ \A secret : At(MixDH(s, secret), Append(salt, secret), 0)
           /\ \A c : At(After(s, c), salt, counter + 1)
  <1>1. PICK h : s = [hash |-> h, salt |-> salt, counter |-> counter]
    BY DEF At
  <1>2. ASSUME NEW data
        PROVE  At(MixHash(s, data), salt, counter)
    <2>1. MixHash(s, data) = [hash |-> Append(h, data), salt |-> salt, counter |-> counter]
      BY <1>1 DEF MixHash
    <2> QED BY Zenon, <2>1 DEF At
  <1>3. ASSUME NEW secret
        PROVE  At(MixDH(s, secret), Append(salt, secret), 0)
    <2> DEFINE x == Append(s.salt, secret)
    <2>1. MixDH(s, secret) = [s EXCEPT !.salt = x, !.counter = 0]
      BY Zenon DEF MixDH
    <2>2. x = Append(salt, secret)
      BY <1>1
    <2> HIDE DEF x
    <2>3. MixDH(s, secret) = [hash |-> h, salt |-> x, counter |-> 0]
      BY Zenon, <1>1, <2>1
    <2> QED BY Zenon, <2>2, <2>3 DEF At
  <1>4. ASSUME NEW c
        PROVE  At(After(s, c), salt, counter + 1)
    <2> DEFINE t == [s EXCEPT !.counter = @ + 1]
    <2>1. t = [hash |-> h, salt |-> salt, counter |-> counter + 1]
      BY <1>1
    <2> HIDE DEF t
    <2>2. MixHash(t, c) = [hash |-> Append(h, c), salt |-> salt, counter |-> counter + 1]
      BY <2>1 DEF MixHash
    <2> QED BY Zenon, <2>2 DEF At, After, t
  <1> QED BY <1>1, <1>2, <1>3, <1>4

\* A node of the application does not open as the client's finish.
LEMMA NodeIsNoFinish == ~Opens(S3, AppNode)
  <1>1. At(Greeted, << >>, 0)
    <2>1. At(Fresh, << >>, 0)
      BY Zenon DEF At, Fresh
    <2> QED BY <2>1, AtMoves DEF Greeted
  <1>2. \E salt : At(S2, salt, 0)
    <2>1. At(S1, Append(<< >>, "ee"), 0)
      BY Zenon, <1>1, AtMoves DEF S1
    <2> QED BY <2>1, AtMoves DEF S2
  <1>3. \E salt : At(S3, salt, 0 + 1)
    BY Zenon, <1>2, AtMoves DEF S3
  <1>4. S3.counter = 1
    BY <1>3, AtMoves
  <1>5. AppNode.iv = 0
    BY DEF AppNode
  <1> QED BY <1>4, <1>5 DEF Opens

\* How far the two sides are.
LEMMA Progress ==
    ASSUME Typed, HandshakeInv
    PROVE  /\ ClientSent \in Nat /\ ServerTaken \in Nat
           /\ ~introSent => ClientSent = 0 /\ ~transport /\ serverSide.phase = "start"
           /\ introSent /\ ~transport => ClientSent = 1
           /\ transport => ClientSent = 2 + sendCounter /\ handshake = S4 /\ introSent
           /\ serverSide.phase = "start" => ServerTaken = 0 /\ serverSide.handshake = Greeted
           /\ serverSide.phase = "greeted" => ServerTaken = 1 /\ serverSide.handshake = S3
           /\ serverSide.phase = "transport" =>
                  ServerTaken = 2 + serverSide.recvCounter /\ serverSide.handshake = S4 /\ transport
           /\ serverSide.phase \in {"start", "greeted", "transport", "refused"}
           /\ serverSide.phase = "refused" => ServerTaken = 2 /\ serverSide.handshake = S3
           /\ serverSide.sendCounter \in Nat /\ serverSide.recvCounter \in Nat
  <1>1. /\ serverSide.phase \in {"start", "greeted", "transport", "refused"}
        /\ serverSide.sendCounter \in Nat /\ serverSide.recvCounter \in Nat
    BY DEF Typed
  <1>2. serverSide.phase = "start" => ServerTaken = 0 /\ serverSide.handshake = Greeted
    BY DEF HandshakeInv, ServerTaken
  <1>3. serverSide.phase = "greeted" => ServerTaken = 1 /\ serverSide.handshake = S3
    BY DEF HandshakeInv, ServerTaken
  <1>4. serverSide.phase = "transport" =>
            ServerTaken = 2 + serverSide.recvCounter /\ serverSide.handshake = S4 /\ transport
    BY DEF HandshakeInv, ServerTaken
  <1>5. /\ ~introSent => ClientSent = 0 /\ ~transport /\ serverSide.phase = "start"
        /\ introSent /\ ~transport => ClientSent = 1
        /\ transport => ClientSent = 2 + sendCounter /\ handshake = S4 /\ introSent
    BY DEF HandshakeInv, ClientSent
  <1>6. transport \in BOOLEAN /\ introSent \in BOOLEAN /\ sendCounter \in Nat
    BY DEF Typed
  <1>9. serverSide.phase = "refused" => ServerTaken = 2 /\ serverSide.handshake = S3
    BY DEF HandshakeInv, ServerTaken
  <1>7. ServerTaken \in Nat
    BY <1>1, <1>2, <1>3, <1>4, <1>9
  <1>8. ClientSent \in Nat
    BY <1>5, <1>6
  <1> QED BY <1>1, <1>2, <1>3, <1>4, <1>5, <1>7, <1>8, <1>9

\* The frame that encodeFrame() makes is the next one of the client.
LEMMA NextOfClient ==
    ASSUME Typed, HandshakeInv, NEW data, EncodeFrame(data),
           IF transport THEN data = AppNode
           ELSE IF introSent THEN data = CF ELSE data = "clientEphemeral"
    PROVE  toServer' = Append(toServer, ClientFrame(ClientSent + 1))
  <1> DEFINE x == [intro |-> ~introSent, key |-> IF transport THEN SendKey(handshake) ELSE << >>,
                   iv |-> IF transport THEN IV(sendCounter) ELSE 0, data |-> data]
  <1>1. /\ ClientSent \in Nat /\ ServerTaken \in Nat
        /\ ~introSent => ClientSent = 0 /\ ~transport
        /\ introSent /\ ~transport => ClientSent = 1
        /\ transport => ClientSent = 2 + sendCounter /\ handshake = S4 /\ introSent
    BY Progress
  <1>2. transport \in BOOLEAN /\ introSent \in BOOLEAN /\ sendCounter \in Nat
    BY DEF Typed
  <1>3. x = ClientFrame(ClientSent + 1)
    <2>1. CASE ~introSent
      <3>1. ClientFrame(1) = [intro |-> TRUE, key |-> << >>, iv |-> 0, data |-> "clientEphemeral"]
        BY DEF ClientFrame
      <3>2. ClientSent + 1 = 1
        BY <1>1, <2>1
      <3>3. data = "clientEphemeral" /\ ~transport
        BY <1>1, <2>1
      <3>4. x = [intro |-> TRUE, key |-> << >>, iv |-> 0, data |-> data]
        BY Zenon, <2>1, <3>3
      <3> QED BY Zenon, <3>1, <3>2, <3>3, <3>4
    <2>2. CASE introSent /\ ~transport
      <3>1. ClientFrame(2) = [intro |-> FALSE, key |-> << >>, iv |-> 0, data |-> CF]
        BY DEF ClientFrame
      <3>2. ClientSent + 1 = 2
        BY <1>1, <2>2
      <3>3. data = CF
        BY <2>2
      <3>4. x = [intro |-> FALSE, key |-> << >>, iv |-> 0, data |-> data]
        BY Zenon, <2>2
      <3> QED BY Zenon, <3>1, <3>2, <3>3, <3>4
    <2>3. CASE transport
      <3> DEFINE n == ClientSent + 1
      <3>1. n \in Nat /\ n > 2 /\ n # 1 /\ n # 2 /\ n - 3 = sendCounter
        BY <1>1, <1>2, <2>3
      <3> HIDE DEF n
      <3>2. ClientFrame(n) = [intro |-> FALSE, key |-> SendKey(S4), iv |-> IV(n - 3), data |-> AppNode]
        BY <3>1 DEF ClientFrame
      <3>3. data = AppNode /\ introSent /\ handshake = S4
        BY <1>1, <2>3
      <3>4. x = [intro |-> FALSE, key |-> SendKey(S4), iv |-> IV(sendCounter), data |-> data]
        BY Zenon, <2>3, <3>3
      <3> QED BY Zenon, <3>1, <3>2, <3>3, <3>4 DEF n
    <2> QED BY <1>2, <2>1, <2>2, <2>3
  <1> QED BY <1>3 DEF EncodeFrame

\* It keeps the queue, when the client counts it and goes no further with the server.
LEMMA NextIsQueued ==
    ASSUME Typed, HandshakeInv, ToServerInv, toServer' = Append(toServer, ClientFrame(ClientSent + 1)),
           ClientSent' = ClientSent + 1, introSent', UNCHANGED <<serverSide, early>>
    PROVE  toServer' \in Seq(Frames) /\ ToServerInv'
  <1> DEFINE n == ClientSent + 1
  <1>1. ClientSent \in Nat /\ ServerTaken \in Nat /\ toServer \in Seq(Frames) /\ ServerTaken' = ServerTaken
    BY Progress DEF Typed, ServerTaken
  <1>2. ClientFrame(n) \in Frames
    BY <1>1 DEF FromClient, Frames
  <1>3. toServer' \in Seq(Frames)
    BY <1>1, <1>2
  <1>4. CASE early = 0
    <2>1. serverSide.phase # "refused" /\ Queued(toServer, ServerTaken, ClientSent)
      BY <1>4 DEF ToServerInv
    <2>2. Queued(toServer', ServerTaken, ClientSent + 1)
      BY <1>1, <2>1, QueuedAppend
    <2> QED BY <1>1, <1>3, <1>4, <2>1, <2>2 DEF ToServerInv
  <1>5. CASE early # 0
    <2>1. InPlaceOfFinish(toServer)
      BY <1>5 DEF ToServerInv
    <2> HIDE DEF n
    <2>2. InPlaceOfFinish(Append(toServer, ClientFrame(n)))
      BY <1>1, <1>2, <2>1, InPlaceAppend
    <2>3. InPlaceOfFinish(toServer)'
      BY <2>2 DEF InPlaceOfFinish, n
    <2> QED BY <1>3, <1>5, <2>3 DEF ToServerInv
  <1> QED BY <1>4, <1>5

\* A node in the clear.
LEMMA PlainIsQueued ==
    ASSUME Typed, HandshakeInv, ToServerInv, introSent, ~transport, EncodeFrame(AppNode),
           early' = early + 1, UNCHANGED serverSide
    PROVE  toServer' \in Seq(Frames) /\ ToServerInv'
  <1>1. toServer \in Seq(Frames) /\ early \in Nat /\ Len(toServer) \in Nat
    BY DEF Typed
  <1>2. toServer' = Append(toServer, PlainFrame) /\ introSent'
    BY DEF EncodeFrame, PlainFrame
  <1>3. PlainFrame \in Frames
    BY DEF Frames
  <1>4. /\ toServer' \in Seq(Frames) /\ Len(toServer') = Len(toServer) + 1
        /\ toServer'[Len(toServer) + 1] = PlainFrame
        /\ \A k \in 1..Len(toServer) : toServer'[k] = toServer[k]
    BY <1>1, <1>2, <1>3, AppendProperties
  <1>5. CASE early = 0
    <2>1. Queued(toServer, ServerTaken, 1) /\ serverSide.phase \in {"start", "greeted"}
      BY <1>5, Progress DEF ToServerInv
    <2>2. CASE serverSide.phase = "start"
      <3>1. Queued(toServer, 0, 1)
        BY <2>1, <2>2, Progress
      <3>2. Len(toServer) = 1 - 0 /\ \A k \in 1..1 - 0 : toServer[k] = ClientFrame(0 + k)
        BY <3>1 DEF Queued
      <3>3. Len(toServer) = 1 /\ 1 \in 1..1 - 0 /\ 0 + 1 = 1
        BY <3>2
      <3>4. toServer[1] = ClientFrame(1)
        BY <3>2, <3>3
      <3> QED BY <1>1, <1>2, <1>4, <2>2, <3>3, <3>4 DEF ToServerInv, InPlaceOfFinish
    <2>3. CASE serverSide.phase = "greeted"
      <3>1. Queued(toServer, 1, 1)
        BY <2>1, <2>3, Progress
      <3>2. Len(toServer) = 0
        BY <3>1 DEF Queued
      <3> QED BY <1>1, <1>2, <1>4, <2>3, <3>2 DEF ToServerInv, InPlaceOfFinish
    <2> QED BY <1>4, <2>1, <2>2, <2>3
  <1>6. CASE early # 0
    <2>1. InPlaceOfFinish(Append(toServer, PlainFrame))
      BY <1>1, <1>3, <1>6, InPlaceAppend DEF ToServerInv
    <2>2. InPlaceOfFinish(toServer)'
      BY <1>2, <2>1 DEF InPlaceOfFinish
    <2> QED BY <1>1, <1>4, <2>2 DEF ToServerInv
  <1> QED BY <1>5, <1>6

\* A queue that nothing touches.
LEMMA SameQueue ==
    ASSUME ToServerInv, UNCHANGED <<toServer, early, introSent, transport, sendCounter>>,
           serverSide'.phase = serverSide.phase, serverSide'.recvCounter = serverSide.recvCounter
    PROVE  ToServerInv'
  <1>1. ServerTaken' = ServerTaken /\ ClientSent' = ClientSent
    BY DEF ServerTaken, ClientSent
  <1> QED BY <1>1 DEF ToServerInv, InPlaceOfFinish

\* What the server finds at the head of the queue.
LEMMA HeadOfQueue ==
    ASSUME Typed, HandshakeInv, ToServerInv, toServer # << >>, toServer' = Tail(toServer),
           UNCHANGED <<client, early>>
    PROVE  /\ toServer' \in Seq(Frames)
           /\ early = 0 =>
                 /\ serverSide.phase # "refused" /\ Head(toServer) = ClientFrame(ServerTaken + 1)
                 /\ ServerTaken + 1 <= ClientSent /\ ClientSent' = ClientSent
                 /\ Queued(toServer', ServerTaken + 1, ClientSent)
           /\ early # 0 =>
                 /\ introSent /\ serverSide.phase # "transport"
                 /\ serverSide.phase = "start" =>
                        /\ Head(toServer) = ClientFrame(1)
                        /\ Len(toServer') >= 1 /\ toServer'[1] = PlainFrame
                 /\ serverSide.phase = "greeted" => Head(toServer) = PlainFrame
  <1>1. /\ toServer \in Seq(Frames) /\ ClientSent \in Nat /\ ServerTaken \in Nat
        /\ ClientSent' = ClientSent
    BY Progress DEF Typed, ClientSent, client
  <1>2. /\ Len(toServer) # 0 /\ Len(toServer) \in Nat /\ Head(toServer) = toServer[1]
        /\ toServer' \in Seq(Frames) /\ Len(toServer') = Len(toServer) - 1
        /\ \A k \in 1..Len(toServer) - 1 : toServer'[k] = toServer[k + 1]
    BY <1>1, HeadTailProperties, EmptySeq
  <1>3. CASE early = 0
    <2>1. serverSide.phase # "refused" /\ Queued(toServer, ServerTaken, ClientSent)
      BY <1>3 DEF ToServerInv
    <2>2. /\ ServerTaken + 1 <= ClientSent /\ Head(toServer) = ClientFrame(ServerTaken + 1)
          /\ Queued(Tail(toServer), ServerTaken + 1, ClientSent)
      BY <1>1, <2>1, QueuedTail
    <2> QED BY <1>1, <1>2, <1>3, <2>1, <2>2
  <1>4. CASE early # 0
    <2>1. InPlaceOfFinish(toServer)
      BY <1>4 DEF ToServerInv
    <2>2. ASSUME serverSide.phase = "start"
          PROVE  /\ Head(toServer) = ClientFrame(1) /\ Len(toServer') >= 1 /\ toServer'[1] = PlainFrame
      <3>1. Len(toServer) >= 2 /\ toServer[1] = ClientFrame(1) /\ toServer[2] = PlainFrame
        BY <2>1, <2>2 DEF InPlaceOfFinish
      <3>2. 1 \in 1..Len(toServer) - 1 /\ 1 + 1 = 2
        BY <1>2, <3>1
      <3> QED BY <1>2, <3>1, <3>2
    <2> QED BY <1>2, <1>4, <2>1, <2>2 DEF InPlaceOfFinish
  <1> QED BY <1>3, <1>4

-----------------------------------------------------------------------------
(* The steps.                                                               *)

LEMMA InitStep == ASSUME Init PROVE IInv
  <1>1. /\ inBuffer = << >> /\ stream = << >> /\ sent = << >> /\ toServer = << >>
        /\ taken = 0 /\ ~transport /\ ~introSent /\ serverSide.phase = "start"
    BY DEF Init
  <1>2. Typed
    <2>1. serverSide \in [phase : {"start", "greeted", "transport", "refused"}, handshake : {Greeted, S3, S4},
                          sendCounter : Nat, recvCounter : Nat]
      BY DEF Init
    <2>2. /\ transport \in BOOLEAN /\ introSent \in BOOLEAN /\ looping \in BOOLEAN
          /\ sendCounter \in Nat /\ recvCounter \in Nat /\ taken \in Nat /\ early \in Nat
      BY Zenon DEF Init
    <2>3. << >> \in Seq(FromServer) /\ << >> \in Seq(Frames) /\ << >> \in Seq(Byte)
      OBVIOUS
    <2> QED BY <1>1, <2>1, <2>2, <2>3 DEF Typed
  <1>3. HandshakeInv /\ NothingRejected
    BY DEF Init, HandshakeInv, NothingRejected
  <1>4. ToServerInv
    BY <1>1 DEF Init, ToServerInv, Queued, ServerTaken, ClientSent
  <1>5. SentInv
    BY <1>1 DEF SentInv
  <1>6. StreamInv
    <2>1. Len(Total) = 0 /\ Len(sent) = 0
      BY <1>1 DEF Total
    <2> DEFINE start == [f \in 1..1 |-> 0]
    <2>2. Placed(Total, 0, 0, Sizes, start)
      BY <2>1 DEF Placed
    <2> QED BY <1>1, <2>1, <2>2 DEF StreamInv, Whole
  <1> QED BY <1>2, <1>3, <1>4, <1>5, <1>6 DEF IInv

LEMMA ClientHelloStep ==
    ASSUME IInv, ClientHello
    PROVE  IInv'
  <1>1. /\ Typed /\ HandshakeInv /\ ToServerInv /\ SentInv /\ StreamInv /\ NothingRejected
    BY DEF IInv
  <1>2. ~introSent /\ EncodeFrame("clientEphemeral")
        /\ UNCHANGED <<handshake, transport, recvCounter, inBuffer, looping,
                       stream, sent, taken, serverSide, rejected, early>>
    BY DEF ClientHello, history
  <1>3. ~transport /\ ClientSent = 0 /\ serverSide.phase = "start" /\ introSent' /\ sendCounter' = sendCounter
    BY <1>1, <1>2, Progress DEF EncodeFrame
  <1>4. toServer' = Append(toServer, ClientFrame(ClientSent + 1))
    BY <1>1, <1>2, <1>3, NextOfClient
  <1>5. ClientSent' = ClientSent + 1
    BY <1>2, <1>3 DEF ClientSent
  <1>8. toServer' \in Seq(Frames) /\ ToServerInv'
    BY Zenon, <1>1, <1>2, <1>3, <1>4, <1>5, NextIsQueued
  <1>6. Typed'
    BY <1>1, <1>2, <1>3, <1>8 DEF Typed, EncodeFrame
  <1>7. HandshakeInv'
    BY <1>1, <1>2, <1>3 DEF HandshakeInv
  <1>9. SentInv' /\ StreamInv' /\ NothingRejected'
    BY <1>1, <1>2 DEF SentInv, StreamInv, Total, Sizes, NothingRejected
  <1> QED BY <1>6, <1>7, <1>8, <1>9 DEF IInv

LEMMA ClientSendsStep ==
    ASSUME IInv, ClientSends
    PROVE  IInv'
  <1>1. /\ Typed /\ HandshakeInv /\ ToServerInv /\ SentInv /\ StreamInv /\ NothingRejected
    BY DEF IInv
  <1>2. introSent /\ EncodeFrame(AppNode)
        /\ UNCHANGED <<handshake, transport, recvCounter, inBuffer, looping,
                       stream, sent, taken, serverSide, rejected>>
    BY DEF ClientSends, history
  <1>3. introSent' = TRUE /\ sendCounter \in Nat /\ early \in Nat
    BY <1>1, <1>2 DEF EncodeFrame, Typed
  <1>4. sendCounter' \in Nat /\ early' \in Nat /\ early <= early' /\ toServer' \in Seq(Frames) /\ ToServerInv'
        /\ (~transport => sendCounter' = 0)
    <2>1. CASE transport
      <3>1. early' = early
        BY <2>1 DEF ClientSends
      <3>2. sendCounter' = sendCounter + 1 /\ ClientSent = 2 + sendCounter
        BY <1>1, <1>2, <2>1, Progress DEF EncodeFrame
      <3>3. ClientSent' = ClientSent + 1
        BY <1>2, <1>3, <2>1, <3>2 DEF ClientSent
      <3>4. toServer' = Append(toServer, ClientFrame(ClientSent + 1))
        BY <1>1, <1>2, <2>1, NextOfClient
      <3>5. toServer' \in Seq(Frames) /\ ToServerInv'
        BY Zenon, <1>1, <1>2, <1>3, <3>1, <3>3, <3>4, NextIsQueued
      <3> QED BY <1>3, <2>1, <3>1, <3>2, <3>5
    <2>2. CASE ~transport
      <3>1. early' = early + 1
        BY <2>2 DEF ClientSends
      <3>2. sendCounter' = sendCounter /\ sendCounter = 0
        BY <1>1, <1>2, <2>2 DEF EncodeFrame, HandshakeInv
      <3>3. toServer' \in Seq(Frames) /\ ToServerInv'
        BY <1>1, <1>2, <2>2, <3>1, PlainIsQueued
      <3> QED BY <1>3, <3>1, <3>2, <3>3
    <2> QED BY <2>1, <2>2
  <1>6. Typed'
    BY <1>1, <1>2, <1>3, <1>4 DEF Typed
  <1>7. HandshakeInv'
    BY Zenon, <1>1, <1>2, <1>3, <1>4 DEF HandshakeInv
  <1>8. NothingRejected'
    <2>1. early > 0 => early' > 0
      BY <1>3, <1>4
    <2> QED BY <1>1, <1>2, <2>1 DEF NothingRejected
  <1>9. SentInv' /\ StreamInv'
    BY <1>1, <1>2 DEF SentInv, StreamInv, Total, Sizes
  <1> QED BY <1>4, <1>6, <1>7, <1>8, <1>9 DEF IInv

LEMMA ArriveStep ==
    ASSUME IInv, NEW n \in 1..Len(stream), Arrive(n)
    PROVE  IInv'
  <1>1. /\ Typed /\ HandshakeInv /\ ToServerInv /\ SentInv /\ StreamInv /\ NothingRejected
    BY DEF IInv
  <1>2. inBuffer' \in Seq(Byte) /\ stream' \in Seq(Byte) /\ Total' = Total
    BY <1>1, StreamMove
  <1>3. looping' = TRUE
        /\ UNCHANGED <<handshake, transport, sendCounter, recvCounter, introSent,
                       toServer, sent, taken, serverSide, rejected, early>>
    BY DEF Arrive, history
  <1>4. Typed'
    BY <1>1, <1>2, <1>3 DEF Typed
  <1>5. HandshakeInv' /\ SentInv' /\ NothingRejected'
    BY Zenon, <1>1, <1>3 DEF HandshakeInv, SentInv, NothingRejected
  <1>6. ToServerInv'
    BY Zenon, <1>1, <1>3, SameQueue
  <1>7. StreamInv'
    BY <1>1, <1>2, <1>3 DEF StreamInv, Sizes
  <1> QED BY <1>4, <1>5, <1>6, <1>7 DEF IInv

LEMMA HandshakeFrameStep ==
    ASSUME IInv, HandshakeFrame
    PROVE  /\ IInv' /\ ciphers' = Append(ciphers, KeyAndIV(CF)) /\ ~transport /\ transport'
           /\ UNCHANGED <<serverSide, sendCounter>>
  <1>1. /\ Typed /\ HandshakeInv /\ ToServerInv /\ SentInv /\ StreamInv /\ NothingRejected
    BY DEF IInv
  <1>2. HasFrame /\ ~transport
        /\ UNCHANGED <<recvCounter, looping, stream, sent, serverSide, early>>
        /\ inBuffer' = SubSeq(inBuffer, HeadLen + 1, Len(inBuffer)) /\ taken' = taken + 1
    BY DEF HandshakeFrame
  <1>3. handshake = Greeted /\ sendCounter = 0 /\ recvCounter = 0 /\ taken = 0
    BY <1>1, <1>2 DEF HandshakeInv
  <1>4. 1 \in 1..Len(sent) /\ inBuffer[1].frame = 1 /\ Intact
    <2>1. taken + 1 = 1
      BY <1>3
    <2> QED BY Zenon, <1>1, <1>2, <2>1, HeadIsNext
  <1>5. introSent /\ sent[1] = Hello
    <2>1. serverSide.phase # "start"
      BY <1>1, <1>4 DEF HandshakeInv
    <2> QED BY <1>1, <1>2, <2>1, Progress DEF SentInv, HandshakeInv
  <1>6. HeadFrame = Hello /\ HeadFrame.kind = "hello"
    BY <1>4, <1>5 DEF HeadFrame, Hello
  <1> DEFINE r == ProcessServerHello(handshake, HeadFrame)
  <1>7. r.ok /\ r.finish = CF /\ r.handshake = S4
    BY <1>3, <1>6, HelloOpens
  <1>8. /\ handshake' = S4 /\ transport' = TRUE /\ EncodeFrame(CF)
        /\ ciphers' = Append(ciphers, KeyAndIV(CF)) /\ rejected' = rejected
    <2>1. handshake' = r.handshake /\ transport' = TRUE /\ EncodeFrame(r.finish)
          /\ ciphers' = Append(ciphers, KeyAndIV(r.finish)) /\ rejected' = rejected
      <3> HIDE DEF r
      <3> QED BY <1>4, <1>6, <1>7, Zenon DEF HandshakeFrame, r
    <2> HIDE DEF r
    <2> QED BY <1>7, <2>1
  <1>9. toServer' = Append(toServer, ClientFrame(ClientSent + 1))
    BY <1>1, <1>2, <1>5, <1>8, NextOfClient
  <1>10. introSent' = TRUE /\ sendCounter' = 0
    BY <1>2, <1>3, <1>8 DEF EncodeFrame
  <1>11. ClientSent' = ClientSent + 1
    <2>1. ClientSent = 1 /\ ClientSent' = 2
      BY <1>1, <1>2, <1>5, <1>8, <1>10, Progress DEF ClientSent
    <2> QED BY <2>1
  <1>15. toServer' \in Seq(Frames) /\ ToServerInv'
    BY Zenon, <1>1, <1>2, <1>9, <1>10, <1>11, NextIsQueued
  <1>12. inBuffer' \in Seq(Byte) /\ StreamInv'
    BY <1>1, <1>2, StreamTake
  <1>13. Typed'
    BY <1>1, <1>2, <1>3, <1>8, <1>10, <1>12, <1>15 DEF Typed
  <1>14. HandshakeInv'
    BY <1>1, <1>2, <1>3, <1>5, <1>8, <1>10 DEF HandshakeInv
  <1>16. SentInv' /\ NothingRejected'
    BY <1>1, <1>2, <1>8 DEF SentInv, NothingRejected
  <1> QED BY <1>2, <1>3, <1>8, <1>10, <1>12, <1>13, <1>14, <1>15, <1>16 DEF IInv

LEMMA TransportFrameStep ==
    ASSUME IInv, TransportFrame
    PROVE  IInv'
  <1>1. /\ Typed /\ HandshakeInv /\ ToServerInv /\ SentInv /\ StreamInv /\ NothingRejected
    BY DEF IInv
  <1>2. HasFrame /\ transport /\ recvCounter' = recvCounter + 1
        /\ UNCHANGED <<handshake, transport, sendCounter, introSent,
                       stream, toServer, sent, serverSide, early>>
        /\ inBuffer' = SubSeq(inBuffer, HeadLen + 1, Len(inBuffer)) /\ taken' = taken + 1
    BY DEF TransportFrame
  <1>3. handshake = S4 /\ taken = recvCounter + 1 /\ recvCounter \in Nat /\ introSent /\ Len(sent) \in Nat
    BY <1>1, <1>2 DEF HandshakeInv, Typed
  <1> DEFINE n == taken + 1
  <1>4. n \in 2..Len(sent) /\ inBuffer[1].frame = n /\ Intact /\ n - 2 = recvCounter
    <2>1. taken + 1 \in 1..Len(sent) /\ inBuffer[1].frame = taken + 1 /\ Intact
      BY <1>1, <1>2, HeadIsNext
    <2> QED BY <1>3, <2>1
  <1> HIDE DEF n
  <1>5. HeadFrame = sent[n] /\ sent[n] \in Later /\ sent[n].iv = IV(recvCounter)
    BY <1>1, <1>4 DEF SentInv, HeadFrame
  <1>6. HeadFrame.key = RecvKey(handshake) /\ HeadFrame.iv = IV(recvCounter)
    BY <1>3, <1>5 DEF Later
  <1>7. UNCHANGED <<looping, rejected>>
    BY <1>4, <1>6, Zenon DEF TransportFrame
  <1>8. inBuffer' \in Seq(Byte) /\ StreamInv'
    BY <1>1, <1>2, StreamTake
  <1>9. Typed'
    BY <1>1, <1>2, <1>3, <1>7, <1>8 DEF Typed
  <1>10. HandshakeInv'
    BY Zenon, <1>1, <1>2, <1>3 DEF HandshakeInv
  <1>11. ToServerInv'
    BY Zenon, <1>1, <1>2, SameQueue
  <1>12. SentInv' /\ NothingRejected'
    BY <1>1, <1>2, <1>7 DEF SentInv, NothingRejected
  <1> QED BY <1>8, <1>9, <1>10, <1>11, <1>12 DEF IInv

LEMMA LoopEndsStep ==
    ASSUME IInv, LoopEnds \/ UNCHANGED vars
    PROVE  IInv'
  <1>1. /\ Typed /\ HandshakeInv /\ ToServerInv /\ SentInv /\ StreamInv /\ NothingRejected
    BY DEF IInv
  <1>2. looping' \in BOOLEAN
        /\ UNCHANGED <<handshake, transport, sendCounter, recvCounter, introSent, inBuffer,
                       stream, toServer, sent, taken, serverSide, rejected, early>>
    BY Zenon, <1>1 DEF LoopEnds, history, vars, client, Typed
  <1>3. Typed' /\ HandshakeInv' /\ SentInv' /\ NothingRejected'
    BY <1>1, <1>2 DEF Typed, HandshakeInv, SentInv, NothingRejected
  <1>4. ToServerInv'
    BY Zenon, <1>1, <1>2, SameQueue
  <1>5. StreamInv'
    BY <1>1, <1>2 DEF StreamInv, Total, Sizes
  <1> QED BY <1>3, <1>4, <1>5 DEF IInv

LEMMA ServerHelloStep ==
    ASSUME IInv, ServerHello
    PROVE  /\ IInv' /\ serverSide'.phase = "greeted" /\ serverSide'.sendCounter = 0
           /\ ciphers' = ciphers \o <<KeyAndIV(C1), KeyAndIV(C2)>>
           /\ serverSide.sendCounter = 0 /\ serverSide.phase = "start"
  <1>1. /\ Typed /\ HandshakeInv /\ ToServerInv /\ SentInv /\ StreamInv /\ NothingRejected
    BY DEF IInv
  <1>2. serverSide.phase = "start" /\ toServer # << >> /\ toServer' = Tail(toServer)
        /\ UNCHANGED <<client, taken, early, rejected>>
    BY DEF ServerHello, history
  <1>3. ServerTaken = 0 /\ serverSide.handshake = Greeted /\ sent = << >>
        /\ serverSide.sendCounter = 0 /\ serverSide.recvCounter = 0
        /\ ClientSent \in Nat
    BY <1>1, <1>2, Progress DEF HandshakeInv
  <1>4. /\ toServer' \in Seq(Frames) /\ Head(toServer) = ClientFrame(1)
        /\ early = 0 => 1 <= ClientSent /\ ClientSent' = ClientSent /\ Queued(toServer', 1, ClientSent)
        /\ early # 0 => introSent /\ Len(toServer') >= 1 /\ toServer'[1] = PlainFrame
    <2>1. ServerTaken + 1 = 1
      BY <1>3
    <2> QED BY <1>1, <1>2, <2>1, HeadOfQueue
  <1>5. introSent
    <2>1. ~introSent => ClientSent = 0
      BY <1>1, Progress
    <2> QED BY <1>4, <2>1
  <1>6. Head(toServer).intro /\ Head(toServer).key = << >> /\ Head(toServer).data = "clientEphemeral"
    <2>1. ClientFrame(1) = [intro |-> TRUE, key |-> << >>, iv |-> 0, data |-> "clientEphemeral"]
      BY DEF ClientFrame
    <2> QED BY <1>4, <2>1
  <1>7. /\ Put(Hello) /\ ciphers' = ciphers \o <<KeyAndIV(C1), KeyAndIV(C2)>>
        /\ serverSide' = [serverSide EXCEPT !.phase = "greeted", !.handshake = S3]
    BY <1>2, <1>3, <1>6, Zenon DEF ServerHello, Hello, C1, C2, S1, S2, S3
  <1>8. /\ serverSide'.phase = "greeted" /\ serverSide'.handshake = S3
        /\ serverSide'.sendCounter = 0 /\ serverSide'.recvCounter = 0
        /\ serverSide' \in [phase : {"start", "greeted", "transport", "refused"}, handshake : {Greeted, S3, S4},
                             sendCounter : Nat, recvCounter : Nat]
    BY Zenon, <1>1, <1>3, <1>7 DEF Typed
  <1>9. Hello \in FromServer
    BY DEF FromServer
  <1>10. /\ sent' \in Seq(FromServer) /\ Len(sent') = 1 /\ sent'[1] = Hello
         /\ stream' \in Seq(Byte) /\ StreamInv'
    <2>1. UNCHANGED <<inBuffer, taken>>
      BY <1>2 DEF client
    <2>2. Len(sent) = 0
      BY <1>3
    <2> QED BY <1>1, <1>7, <1>9, <2>1, <2>2, StreamPut
  <1>11. ServerTaken' = 1 /\ introSent'
    BY <1>2, <1>5, <1>8 DEF ServerTaken, client
  <1>12. Typed'
    BY <1>1, <1>2, <1>4, <1>8, <1>10 DEF Typed, client
  <1>13. HandshakeInv'
    BY <1>1, <1>2, <1>5, <1>8 DEF HandshakeInv, client
  <1>14. ToServerInv'
    BY <1>2, <1>4, <1>8, <1>11 DEF ToServerInv, InPlaceOfFinish
  <1>15. SentInv'
    BY <1>8, <1>10 DEF SentInv
  <1>16. NothingRejected'
    BY <1>1, <1>2, <1>8 DEF NothingRejected
  <1> QED BY <1>2, <1>3, <1>7, <1>8, <1>10, <1>12, <1>13, <1>14, <1>15, <1>16 DEF IInv

LEMMA ServerFinishStep ==
    ASSUME IInv, ServerFinish
    PROVE  IInv' /\ serverSide'.phase # "start" /\ UNCHANGED <<ciphers, transport, sendCounter>>
           /\ serverSide'.sendCounter = serverSide.sendCounter /\ serverSide.phase = "greeted"
  <1>1. /\ Typed /\ HandshakeInv /\ ToServerInv /\ SentInv /\ StreamInv /\ NothingRejected
    BY DEF IInv
  <1>2. serverSide.phase = "greeted" /\ toServer # << >> /\ toServer' = Tail(toServer)
        /\ UNCHANGED <<client, stream, sent, taken, ciphers, early, rejected>>
    BY DEF ServerFinish, history
  <1>3. ServerTaken = 1 /\ serverSide.handshake = S3
        /\ serverSide.sendCounter = 0 /\ serverSide.recvCounter = 0 /\ introSent
        /\ ClientSent \in Nat /\ early \in Nat
    BY <1>1, <1>2, Progress DEF HandshakeInv, Typed
  <1>4. /\ toServer' \in Seq(Frames)
        /\ early = 0 => /\ 2 <= ClientSent /\ ClientSent' = ClientSent
                        /\ Head(toServer) = ClientFrame(2) /\ Queued(toServer', 2, ClientSent)
        /\ early # 0 => introSent /\ Head(toServer) = PlainFrame
    <2>1. ServerTaken + 1 = 2
      BY <1>3
    <2> QED BY <1>1, <1>2, <2>1, HeadOfQueue
  <1>5. /\ serverSide'.sendCounter = 0 /\ serverSide'.recvCounter = 0
        /\ serverSide' \in [phase : {"start", "greeted", "transport", "refused"},
                             handshake : {Greeted, S3, S4}, sendCounter : Nat, recvCounter : Nat]
        /\ serverSide'.phase = "transport" => transport
        /\ serverSide'.phase \in {"transport", "refused"} /\ ToServerInv'
        /\ serverSide'.handshake = IF serverSide'.phase = "transport" THEN S4 ELSE S3
        /\ serverSide'.phase = "refused" => early > 0
    <2>1. CASE early = 0
      <3>1. transport
        <4>1. ~transport => ClientSent \in {0, 1}
          BY <1>1, Progress DEF Typed
        <4> QED BY <1>4, <2>1, <4>1
      <3>2. ~Head(toServer).intro /\ Head(toServer).key = << >> /\ Head(toServer).data = CF
        <4>1. ClientFrame(2) = [intro |-> FALSE, key |-> << >>, iv |-> 0, data |-> CF]
          BY DEF ClientFrame
        <4> QED BY <1>4, <2>1, <4>1
      <3>3. Opens(S3, CF)
        BY DEF Opens, CF, Cipher
      <3>4. serverSide' = [serverSide EXCEPT !.phase = "transport", !.handshake = S4]
        BY <1>2, <1>3, <3>2, <3>3, Zenon DEF ServerFinish, S4
      <3>5. /\ serverSide'.phase = "transport" /\ serverSide'.handshake = S4
            /\ serverSide'.sendCounter = 0 /\ serverSide'.recvCounter = 0
            /\ serverSide' \in [phase : {"start", "greeted", "transport", "refused"},
                                 handshake : {Greeted, S3, S4}, sendCounter : Nat, recvCounter : Nat]
        BY Zenon, <1>1, <1>3, <3>4 DEF Typed
      <3>6. ServerTaken' = 2
        BY <3>5 DEF ServerTaken
      <3>7. ToServerInv'
        BY <1>2, <1>4, <2>1, <3>5, <3>6 DEF ToServerInv
      <3> QED BY <3>1, <3>5, <3>7
    <2>2. CASE early # 0
      <3>1. Head(toServer).data = AppNode
        BY <1>4, <2>2 DEF PlainFrame
      <3>2. serverSide' = [serverSide EXCEPT !.phase = "refused"]
        BY <1>3, <3>1, NodeIsNoFinish, Zenon DEF ServerFinish
      <3>3. /\ serverSide'.phase = "refused" /\ serverSide'.handshake = S3
            /\ serverSide'.sendCounter = 0 /\ serverSide'.recvCounter = 0
            /\ serverSide' \in [phase : {"start", "greeted", "transport", "refused"},
                                 handshake : {Greeted, S3, S4}, sendCounter : Nat, recvCounter : Nat]
        BY Zenon, <1>1, <1>3, <3>2 DEF Typed
      <3>4. introSent'
        BY <1>2, <1>3 DEF client
      <3>5. ToServerInv'
        BY <1>2, <2>2, <3>3, <3>4 DEF ToServerInv, InPlaceOfFinish
      <3> QED BY <1>3, <2>2, <3>3, <3>5
    <2> QED BY <2>1, <2>2
  <1>6. Typed'
    BY <1>1, <1>2, <1>4, <1>5 DEF Typed, client
  <1>7. HandshakeInv'
    <2>1. serverSide'.handshake = CASE serverSide'.phase = "start"     -> Greeted
                                    [] serverSide'.phase = "greeted"   -> S3
                                    [] serverSide'.phase = "transport" -> S4
                                    [] serverSide'.phase = "refused"   -> S3
      BY <1>5
    <2> QED BY <1>1, <1>2, <1>3, <1>5, <2>1 DEF HandshakeInv, client
  <1>8. SentInv'
    BY <1>1, <1>2, <1>3, <1>5 DEF SentInv
  <1>9. NothingRejected'
    BY <1>1, <1>2, <1>5 DEF NothingRejected
  <1>10. StreamInv'
    BY <1>1, <1>2 DEF StreamInv, Total, Sizes, client
  <1> QED BY <1>2, <1>3, <1>5, <1>6, <1>7, <1>8, <1>9, <1>10 DEF IInv, client

LEMMA ServerReceivesStep ==
    ASSUME IInv, ServerReceives
    PROVE  IInv' /\ UNCHANGED <<ciphers, transport, sendCounter>>
           /\ serverSide'.phase = serverSide.phase /\ serverSide'.sendCounter = serverSide.sendCounter
  <1>1. /\ Typed /\ HandshakeInv /\ ToServerInv /\ SentInv /\ StreamInv /\ NothingRejected
    BY DEF IInv
  <1>2. serverSide.phase = "transport" /\ toServer # << >> /\ toServer' = Tail(toServer)
        /\ UNCHANGED <<client, stream, sent, taken, ciphers, early, rejected>>
    BY DEF ServerReceives, history
  <1> DEFINE k == serverSide.recvCounter
  <1>3. ServerTaken = 2 + k /\ serverSide.handshake = S4 /\ k \in Nat
        /\ ClientSent \in Nat /\ ServerTaken \in Nat /\ transport
    BY <1>1, <1>2, Progress
  <1>4. /\ Head(toServer) = ClientFrame(2 + k + 1)
        /\ toServer' \in Seq(Frames) /\ Queued(toServer', ServerTaken + 1, ClientSent)
        /\ ClientSent' = ClientSent /\ early = 0
    <2>1. early = 0
      BY <1>1, <1>2 DEF ToServerInv, InPlaceOfFinish
    <2> QED BY <1>1, <1>2, <1>3, <2>1, HeadOfQueue
  <1>5. Head(toServer) = [intro |-> FALSE, key |-> SendKey(serverSide.handshake), iv |-> IV(k), data |-> AppNode]
    <2> DEFINE n == 2 + k + 1
    <2>1. n \in Nat /\ n > 2 /\ n # 1 /\ n # 2 /\ n - 3 = k
      BY <1>3
    <2> HIDE DEF n
    <2>2. ClientFrame(n) = [intro |-> FALSE, key |-> SendKey(S4), iv |-> IV(n - 3), data |-> AppNode]
      BY <2>1 DEF ClientFrame
    <2> QED BY Zenon, <1>3, <1>4, <2>1, <2>2 DEF n
  <1>6. serverSide' = [serverSide EXCEPT !.recvCounter = @ + 1]
    BY Zenon, <1>5 DEF ServerReceives
  <1>7. /\ serverSide'.phase = "transport" /\ serverSide'.handshake = S4
        /\ serverSide'.sendCounter = serverSide.sendCounter /\ serverSide'.recvCounter = k + 1
        /\ serverSide' \in [phase : {"start", "greeted", "transport", "refused"}, handshake : {Greeted, S3, S4},
                             sendCounter : Nat, recvCounter : Nat]
    <2> DEFINE m == k + 1
    <2>1. serverSide' = [serverSide EXCEPT !.recvCounter = m]
      BY <1>1, <1>2, <1>3, <1>6 DEF Typed
    <2>2. m \in Nat
      BY <1>2, <1>3
    <2> HIDE DEF m
    <2>3. /\ serverSide'.phase = "transport" /\ serverSide'.handshake = S4
          /\ serverSide'.recvCounter = m /\ serverSide'.sendCounter = serverSide.sendCounter
          /\ serverSide' \in [phase : {"start", "greeted", "transport", "refused"}, handshake : {Greeted, S3, S4},
                               sendCounter : Nat, recvCounter : Nat]
      BY Zenon, <1>1, <1>2, <1>3, <2>1, <2>2 DEF Typed
    <2> QED BY <2>3 DEF m
  <1>8. ServerTaken' = ServerTaken + 1
    <2>1. ServerTaken' = 2 + serverSide'.recvCounter
      BY <1>7 DEF ServerTaken
    <2>2. ServerTaken' = ServerTaken + 1
      BY <1>3, <1>7, <2>1
    <2> QED BY <2>2
  <1>9. Typed'
    BY <1>1, <1>2, <1>4, <1>7 DEF Typed, client
  <1>10. HandshakeInv'
    BY <1>1, <1>2, <1>3, <1>7 DEF HandshakeInv, client
  <1>11. ToServerInv'
    BY <1>2, <1>4, <1>7, <1>8 DEF ToServerInv
  <1>12. SentInv' /\ NothingRejected'
    BY <1>1, <1>2, <1>7 DEF SentInv, NothingRejected
  <1>13. StreamInv'
    BY <1>1, <1>2 DEF StreamInv, Total, Sizes, client
  <1> QED BY <1>2, <1>7, <1>9, <1>10, <1>11, <1>12, <1>13 DEF IInv, client

LEMMA ServerSendsStep ==
    ASSUME IInv, NEW kind \in {"node", "malformed"}, NEW len \in 0..MaxLen, ServerSends(kind, len)
    PROVE  /\ IInv' /\ UNCHANGED <<transport, sendCounter>> /\ serverSide'.phase = serverSide.phase
           /\ serverSide.phase = "transport"
           /\ serverSide'.sendCounter = serverSide.sendCounter + 1
           /\ ciphers' = Append(ciphers, <<RecvKey(S4), IV(serverSide.sendCounter)>>)
  <1>1. /\ Typed /\ HandshakeInv /\ ToServerInv /\ SentInv /\ StreamInv /\ NothingRejected
    BY DEF IInv
  <1> DEFINE k == serverSide.sendCounter
             x == [kind |-> kind, len |-> len, key |-> RecvKey(S4), iv |-> IV(k)]
  <1>2. serverSide.phase = "transport" /\ serverSide.handshake = S4 /\ k \in Nat
    BY <1>1, Progress DEF ServerSends
  <1>3. /\ serverSide' = [serverSide EXCEPT !.sendCounter = @ + 1]
        /\ Put(x) /\ ciphers' = Append(ciphers, <<RecvKey(S4), IV(k)>>)
        /\ UNCHANGED <<client, toServer, taken, rejected, early>>
    BY <1>2, Zenon DEF ServerSends, history
  <1>4. x \in Later /\ x \in FromServer /\ x.iv = IV(k)
    BY <1>2 DEF Later, FromServer
  <1> HIDE DEF x
  <1>5. /\ sent' \in Seq(FromServer) /\ Len(sent') = Len(sent) + 1 /\ sent'[Len(sent) + 1] = x
        /\ \A n \in 1..Len(sent) : sent'[n] = sent[n]
        /\ stream' \in Seq(Byte) /\ StreamInv'
    <2>1. UNCHANGED <<inBuffer, taken>>
      BY <1>3 DEF client
    <2> QED BY <1>1, <1>3, <1>4, <2>1, StreamPut
  <1>6. /\ serverSide'.phase = "transport" /\ serverSide'.handshake = S4
        /\ serverSide'.sendCounter = k + 1 /\ serverSide'.recvCounter = serverSide.recvCounter
        /\ serverSide' \in [phase : {"start", "greeted", "transport", "refused"}, handshake : {Greeted, S3, S4},
                             sendCounter : Nat, recvCounter : Nat]
    <2> DEFINE m == k + 1
    <2>1. serverSide' = [serverSide EXCEPT !.sendCounter = m]
      BY <1>1, <1>2, <1>3 DEF Typed
    <2>2. m \in Nat
      BY <1>2, <1>3
    <2> HIDE DEF m
    <2>3. /\ serverSide'.phase = "transport" /\ serverSide'.handshake = S4
          /\ serverSide'.sendCounter = m /\ serverSide'.recvCounter = serverSide.recvCounter
          /\ serverSide' \in [phase : {"start", "greeted", "transport", "refused"}, handshake : {Greeted, S3, S4},
                               sendCounter : Nat, recvCounter : Nat]
      BY Zenon, <1>1, <1>2, <1>3, <2>1, <2>2 DEF Typed
    <2> QED BY <2>3 DEF m
  <1>7. Typed'
    BY <1>1, <1>3, <1>5, <1>6 DEF Typed, client
  <1>8. HandshakeInv'
    BY <1>1, <1>2, <1>3, <1>6 DEF HandshakeInv, client
  <1>9. ToServerInv'
    BY <1>1, <1>2, <1>3, <1>6, SameQueue DEF client
  <1>10. SentInv'
    <2>1. Len(sent) = k + 1 /\ sent[1] = Hello
      BY <1>1, <1>2 DEF SentInv
    <2>2. Len(sent') = k + 1 + 1 /\ sent'[1] = Hello
      <3> HIDE DEF k
      <3>1. 1 \in 1..Len(sent) /\ k + 1 + 1 = Len(sent) + 1
        BY <1>2, <2>1
      <3> QED BY <1>5, <2>1, <3>1
    <2>3. ASSUME NEW n \in 2..Len(sent')
          PROVE  sent'[n] \in Later /\ sent'[n].iv = IV(n - 2)
      <3>1. CASE n = k + 2
        <4>1. sent'[n] = x /\ n - 2 = k
          BY <1>2, <1>5, <2>1, <3>1, SMTT(20)
        <4> QED BY <1>4, <4>1
      <3>2. CASE n # k + 2
        <4>1. n \in 2..Len(sent) /\ n \in 1..Len(sent)
          BY <1>2, <2>1, <2>2, <3>2
        <4> QED BY Zenon, <1>1, <1>5, <4>1 DEF SentInv
      <3> QED BY <3>1, <3>2
    <2> QED BY <1>6, <2>2, <2>3 DEF SentInv
  <1>11. NothingRejected'
    BY <1>1, <1>2, <1>3, <1>6 DEF NothingRejected
  <1> QED BY <1>2, <1>3, <1>5, <1>6, <1>7, <1>8, <1>9, <1>10, <1>11 DEF IInv, client

\* Every step keeps the invariant.
LEMMA StepKeepsInvariant == ASSUME IInv, [Next]_vars PROVE IInv'
  <1>1. CASE Receive
    BY <1>1, ArriveStep, HandshakeFrameStep, TransportFrameStep, LoopEndsStep DEF Receive
  <1>2. CASE \E kind \in {"node", "malformed"}, len \in 0 .. MaxLen : ServerSends(kind, len)
    BY <1>2, ServerSendsStep
  <1> QED BY <1>1, <1>2, ClientHelloStep, ClientSendsStep, ServerHelloStep, ServerFinishStep,
             ServerReceivesStep, LoopEndsStep DEF Next

LEMMA Invariant == Spec => []IInv
  <1> QED BY InitStep, StepKeepsInvariant, PTL DEF Spec

\* noise-handler.ts, for any numbers of frames of any lengths: however the stream is cut
\* up and the two directions interleave, the client rejects no frame, and what it takes
\* for a frame is one; and the server rejects none unless the application has sent a
\* node before the keys were there, which the engine lets it do.
THEOREM NeitherSideRejects == Spec => []NothingRejected
  <1>1. IInv => NothingRejected
    BY DEF IInv
  <1> QED BY <1>1, Invariant, PTL

-----------------------------------------------------------------------------
(* The channel that the framing implements.                                 *)

LEMMA ChannelStep ==
    ASSUME IInv, [Next]_vars
    PROVE  [Channel!Next]_<<Len(sent), taken>>
  <1>1. Typed /\ HandshakeInv /\ StreamInv
    BY DEF IInv
  <1>2. ASSUME HasFrame, taken' = taken + 1, sent' = sent
        PROVE  Channel!Take
    <2>1. taken + 1 \in 1..Len(sent) /\ Len(sent) \in Nat /\ taken \in Nat
      BY <1>1, <1>2, HeadIsNext DEF Typed
    <2> QED BY <1>2, <2>1 DEF Channel!Take
  <1>3. ASSUME NEW frame, Put(frame), taken' = taken
        PROVE  Channel!Send
    <2>1. sent \in Seq(FromServer) /\ sent' = Append(sent, frame)
      BY <1>1, <1>3 DEF Typed, Put
    <2>2. Len(sent') = Len(sent) + 1
      BY <2>1, AppendProperties, SeqMonotonic
    <2> QED BY <1>3, <2>2 DEF Channel!Send
  <1>4. CASE HandshakeFrame
    BY <1>2, <1>4 DEF HandshakeFrame, Channel!Next
  <1>5. CASE TransportFrame
    BY <1>2, <1>5 DEF TransportFrame, Channel!Next
  <1>6. CASE ServerHello
    <2>1. CASE sent' = sent
      BY <1>6, <2>1 DEF ServerHello, history
    <2>2. CASE \E frame : Put(frame)
      BY <1>3, <1>6, <2>2 DEF ServerHello, history, Channel!Next
    <2> QED BY <1>6, <2>1, <2>2, Zenon DEF ServerHello
  <1>7. CASE \E kind \in {"node", "malformed"}, len \in 0 .. MaxLen : ServerSends(kind, len)
    <2>1. \E frame : Put(frame)
      BY <1>7, Zenon DEF ServerSends
    <2>2. taken' = taken
      BY <1>7 DEF ServerSends, history
    <2> QED BY <1>3, <2>1, <2>2 DEF Channel!Next
  <1>8. CASE ClientHello \/ ClientSends \/ (\E n \in 1..Len(stream) : Arrive(n)) \/ LoopEnds
             \/ ServerFinish \/ ServerReceives \/ UNCHANGED vars
    <2>1. UNCHANGED <<sent, taken>>
      BY <1>8 DEF ClientHello, ClientSends, Arrive, LoopEnds, ServerFinish, ServerReceives,
                  vars, history
    <2> QED BY <2>1
  <1> QED BY <1>4, <1>5, <1>6, <1>7, <1>8 DEF Next, Receive

\* The framing of noise-handler.ts implements the safety of FrameChannel: a step that
\* takes a frame takes the next one that was sent, once, and no other step does.
THEOREM FramingIsChannel ==
    Spec => Channel!Init /\ [][Channel!Next]_<<Len(sent), taken>>
  <1>1. Init => Channel!Init
    BY DEF Init, Channel!Init
  <1> QED BY <1>1, Invariant, ChannelStep, PTL DEF Spec

-----------------------------------------------------------------------------
(* Keys and IVs.                                                            *)

Secrets == {"ee", "es", "se", "send", "recv"}

\* One secret more.
LEMMA OneMore ==
    \A k \in Seq(Secrets), x \in Secrets :
        /\ Append(k, x) \in Seq(Secrets) /\ Len(Append(k, x)) = Len(k) + 1
        /\ Append(k, x)[Len(k) + 1] = x
  BY AppendProperties

\* The keys of the handshake and of the transport are different, or the IV is.
LEMMA Keys ==
    /\ KeyAndIV(C1) # KeyAndIV(C2) /\ KeyAndIV(C1) # KeyAndIV(CF) /\ KeyAndIV(C2) # KeyAndIV(CF)
    /\ \A c \in {C1, C2, CF} : \A iv : KeyAndIV(c) # <<SendKey(S4), iv>> /\ KeyAndIV(c) # <<RecvKey(S4), iv>>
    /\ SendKey(S4) # RecvKey(S4)
  <1> DEFINE k1 == Append(<< >>, "ee")
             k2 == Append(k1, "es")
             k3 == Append(k2, "se")
             snd == Append(k3, "send")
             rcv == Append(k3, "recv")
  <1> HIDE DEF k1, k2, k3, snd, rcv
  <1>0. {"ee", "es", "se", "send", "recv"} \subseteq Secrets
    BY DEF Secrets
  <1>1. k1 \in Seq(Secrets) /\ Len(k1) = 1
    <2>1. << >> \in Seq(Secrets) /\ Len(<< >>) = 0
      OBVIOUS
    <2>2. k1 \in Seq(Secrets) /\ Len(k1) = Len(<< >>) + 1
      BY <1>0, <2>1, OneMore, Zenon DEF k1
    <2> QED BY <2>1, <2>2
  <1>2. k2 \in Seq(Secrets) /\ Len(k2) = 2
    <2>1. k2 \in Seq(Secrets) /\ Len(k2) = Len(k1) + 1
      BY <1>0, <1>1, OneMore, Zenon DEF k2
    <2> QED BY <1>1, <2>1
  <1>3. k3 \in Seq(Secrets) /\ Len(k3) = 3
    <2>1. k3 \in Seq(Secrets) /\ Len(k3) = Len(k2) + 1
      BY <1>0, <1>2, OneMore, Zenon DEF k3
    <2> QED BY <1>2, <2>1
  <1>4. Len(snd) = 4 /\ Len(rcv) = 4 /\ snd[4] = "send" /\ rcv[4] = "recv"
    <2>1. /\ Len(snd) = Len(k3) + 1 /\ snd[Len(k3) + 1] = "send"
          /\ Len(rcv) = Len(k3) + 1 /\ rcv[Len(k3) + 1] = "recv"
      BY <1>0, <1>3, OneMore, Zenon DEF snd, rcv
    <2> QED BY <1>3, <2>1
  <1>5. At(Greeted, << >>, 0)
    <2>1. At(Fresh, << >>, 0)
      BY Zenon DEF At, Fresh
    <2> QED BY <2>1, AtMoves DEF Greeted
  <1>6. At(S1, k1, 0)
    BY Zenon, <1>5, AtMoves DEF S1, k1
  <1>7. At(S2, k2, 0)
    BY <1>6, AtMoves DEF S2, k2
  <1>8. At(S3, k2, 1)
    <2>1. At(S3, k2, 0 + 1)
      BY <1>7, AtMoves DEF S3
    <2> QED BY <2>1
  <1>9. At(S4, k3, 0)
    BY <1>8, AtMoves DEF S4, k3
  <1>10. /\ S1.salt = k1 /\ S1.counter = 0 /\ S2.salt = k2 /\ S2.counter = 0
         /\ S3.salt = k2 /\ S3.counter = 1 /\ S4.salt = k3
    BY <1>6, <1>7, <1>8, <1>9, AtMoves
  <1>11. /\ KeyAndIV(C1) = <<S1.salt, S1.counter>> /\ KeyAndIV(C2) = <<S2.salt, S2.counter>>
         /\ KeyAndIV(CF) = <<S3.salt, S3.counter>>
    BY DEF KeyAndIV, C1, C2, CF, Cipher
  <1>12. SendKey(S4) = snd /\ RecvKey(S4) = rcv
    BY <1>10 DEF SendKey, RecvKey, snd, rcv
  <1>13. k1 # k2 /\ snd # rcv /\ k1 # snd /\ k1 # rcv /\ k2 # snd /\ k2 # rcv
    <2>1. Len(k1) # Len(k2) /\ Len(k1) # Len(snd) /\ Len(k1) # Len(rcv)
          /\ Len(k2) # Len(snd) /\ Len(k2) # Len(rcv) /\ snd[4] # rcv[4]
      BY <1>1, <1>2, <1>4
    <2> QED BY <2>1, Zenon
  <1>14. KeyAndIV(C1) # KeyAndIV(C2) /\ KeyAndIV(C1) # KeyAndIV(CF) /\ KeyAndIV(C2) # KeyAndIV(CF)
    BY <1>10, <1>11, <1>13
  <1>15. ASSUME NEW c \in {C1, C2, CF}, NEW iv
         PROVE  KeyAndIV(c) # <<SendKey(S4), iv>> /\ KeyAndIV(c) # <<RecvKey(S4), iv>>
    <2>1. CASE c = C1
      BY <1>10, <1>11, <1>12, <1>13, <2>1
    <2>2. CASE c = C2
      BY <1>10, <1>11, <1>12, <1>13, <2>2
    <2>3. CASE c = CF
      BY <1>10, <1>11, <1>12, <1>13, <2>3
    <2> QED BY <2>1, <2>2, <2>3
  <1> QED BY <1>12, <1>13, <1>14, <1>15

\* The counter fits into the bits of the IV.
LEMMA LowBits ==
    ASSUME NEW N \in Nat \ {0}, N = 2 ^ CounterBits, NEW i \in 0..N - 1, NEW j \in 0..N - 1, IV(i) = IV(j)
    PROVE  i = j
  <1>1. \A k \in 0..N - 1 : k % N = k
    OBVIOUS
  <1>2. IV(i) = i % N /\ IV(j) = j % N
    BY DEF IV
  <1> QED BY Zenon, <1>1, <1>2

\* One more member that was not there.
LEMMA AppendUnused ==
    ASSUME NEW A, NEW B, A \subseteq B, NEW q \in Seq(A), IsInjective(q), NEW e \in B, e \notin A
    PROVE  Append(q, e) \in Seq(B) /\ IsInjective(Append(q, e))
  <1>1. q \in Seq(B) /\ Len(q) \in Nat /\ DOMAIN q = 1..Len(q)
    BY SeqMonotonic
  <1>2. /\ Append(q, e) \in Seq(B) /\ DOMAIN Append(q, e) = 1..Len(q) + 1
        /\ Append(q, e)[Len(q) + 1] = e /\ \A i \in 1..Len(q) : Append(q, e)[i] = q[i]
    BY <1>1, AppendProperties
  <1>3. \A i \in 1..Len(q) : q[i] # e
    BY ElementOfSeq
  <1>4. \A i, j \in 1..Len(q) : q[i] = q[j] => i = j
    BY <1>1 DEF IsInjective
  <1>5. ASSUME NEW i \in 1..Len(q) + 1, NEW j \in 1..Len(q) + 1, Append(q, e)[i] = Append(q, e)[j]
        PROVE  i = j
    <2>1. CASE i \in 1..Len(q) /\ j \in 1..Len(q)
      BY <1>2, <1>4, <1>5, <2>1
    <2>2. CASE i = Len(q) + 1 \/ j = Len(q) + 1
      BY <1>1, <1>2, <1>3, <1>5, <2>2
    <2> QED BY <1>1, <2>1, <2>2
  <1> QED BY <1>2, <1>5 DEF IsInjective

\* What each side has used, told apart.
LEMMA UsedIs ==
    \A x : x \in UsedIVs <=>
        \/ serverSide.phase # "start" /\ x \in {KeyAndIV(C1), KeyAndIV(C2)}
        \/ transport /\ x = KeyAndIV(CF)
        \/ \E n \in 0..sendCounter - 1 : x = <<SendKey(S4), IV(n)>>
        \/ \E n \in 0..serverSide.sendCounter - 1 : x = <<RecvKey(S4), IV(n)>>
  BY DEF UsedIVs

\* A ciphertext under a key and an IV that have not been used.
LEMMA NewCipher ==
    ASSUME Typed, CiphersInv, NEW e, e \notin UsedIVs, e \in UsedIVs',
           ciphers' = Append(ciphers, e), UsedIVs \subseteq UsedIVs'
    PROVE  ciphers' \in Seq(UsedIVs') /\ UniqueIVs'
  BY Zenon, AppendUnused DEF CiphersInv, UniqueIVs

LEMMA CiphersStep ==
    ASSUME NEW N \in Nat \ {0}, N = 2 ^ CounterBits, MaxToServer \in 0..N, MaxToClient \in 0..N,
           IInv, CiphersInv, [Next]_vars
    PROVE  CiphersInv'
  <1>1. Typed /\ HandshakeInv /\ SentInv /\ StreamInv
    BY DEF IInv
  <1>2. /\ sendCounter \in Nat /\ serverSide.sendCounter \in Nat
        /\ serverSide.phase \in {"start", "greeted", "transport", "refused"} /\ transport \in BOOLEAN
        /\ sendCounter <= MaxToServer /\ serverSide.sendCounter <= MaxToClient
        /\ MaxToServer \in Nat /\ MaxToClient \in Nat
        /\ ciphers \in Seq(UsedIVs) /\ UniqueIVs
    BY <1>1 DEF Typed, CiphersInv
  <1>8. CASE ClientSends /\ ~transport
    <2>1. ciphers' = ciphers /\ UNCHANGED <<serverSide, transport, sendCounter>>
      BY <1>8 DEF ClientSends, EncodeFrame
    <2>2. UsedIVs' = UsedIVs
      BY <2>1 DEF UsedIVs
    <2> QED BY <1>2, <2>1, <2>2 DEF CiphersInv, UniqueIVs
  <1>3. CASE ClientSends /\ transport
    <2> DEFINE e == <<SendKey(S4), IV(sendCounter)>>
    <2>1. /\ ciphers' = Append(ciphers, e) /\ sendCounter' = sendCounter + 1 /\ sendCounter < MaxToServer
          /\ UNCHANGED <<serverSide, transport>>
      BY Zenon, <1>1, <1>3, Progress DEF ClientSends, EncodeFrame
    <2>2. e \notin UsedIVs
      <3>1. \A n \in 0..sendCounter - 1 : e # <<SendKey(S4), IV(n)>>
        <4> SUFFICES ASSUME NEW n \in 0..sendCounter - 1, IV(n) = IV(sendCounter)
                     PROVE  FALSE
          OBVIOUS
        <4>1. n \in 0..N - 1 /\ sendCounter \in 0..N - 1 /\ n # sendCounter
          BY <1>2, <2>1
        <4> QED BY <4>1, LowBits
      <3>2. /\ e # KeyAndIV(C1) /\ e # KeyAndIV(C2) /\ e # KeyAndIV(CF)
            /\ \A n : e # <<RecvKey(S4), IV(n)>>
        BY Keys
      <3> QED BY <3>1, <3>2, UsedIs, Zenon
    <2>3. UsedIVs \subseteq UsedIVs' /\ e \in UsedIVs'
      <3>1. 0..sendCounter - 1 \subseteq 0..sendCounter' - 1 /\ sendCounter \in 0..sendCounter' - 1
        BY <1>2, <2>1
      <3> QED BY Zenon, <2>1, <3>1 DEF UsedIVs
    <2>4. sendCounter' <= MaxToServer
      BY <1>2, <2>1
    <2> HIDE DEF e
    <2>5. ciphers' \in Seq(UsedIVs') /\ UniqueIVs'
      BY <1>1, <2>1, <2>2, <2>3, NewCipher
    <2> QED BY <1>2, <2>1, <2>4, <2>5 DEF CiphersInv
  <1>4. CASE HandshakeFrame
    <2> DEFINE e == KeyAndIV(CF)
    <2>1. /\ ciphers' = Append(ciphers, e) /\ ~transport /\ transport'
          /\ UNCHANGED <<serverSide, sendCounter>>
      BY <1>4, HandshakeFrameStep
    <2>2. e \notin UsedIVs
      <3>1. /\ e # KeyAndIV(C1) /\ e # KeyAndIV(C2)
            /\ \A iv : e # <<SendKey(S4), iv>> /\ e # <<RecvKey(S4), iv>>
        BY Keys
      <3> QED BY <2>1, <3>1, UsedIs, Zenon
    <2>3. UsedIVs \subseteq UsedIVs' /\ e \in UsedIVs'
      BY <2>1 DEF UsedIVs
    <2> HIDE DEF e
    <2>4. ciphers' \in Seq(UsedIVs') /\ UniqueIVs'
      BY <1>1, <2>1, <2>2, <2>3, NewCipher
    <2> QED BY <1>2, <2>1, <2>4 DEF CiphersInv
  <1>5. CASE ServerHello
    <2> DEFINE x == KeyAndIV(C1)
               y == KeyAndIV(C2)
               B == UsedIVs \cup {x}
    <2>1. /\ ciphers' = ciphers \o <<x, y>> /\ serverSide.phase = "start" /\ serverSide'.phase = "greeted"
          /\ serverSide'.sendCounter = serverSide.sendCounter
          /\ UNCHANGED <<transport, sendCounter>>
      <3>1. UNCHANGED <<transport, sendCounter>>
        BY <1>5 DEF ServerHello, client
      <3> QED BY Zenon, <1>5, <3>1, ServerHelloStep
    <2>2. x \notin UsedIVs /\ y \notin UsedIVs /\ x # y
      <3>1. /\ x # y /\ x # KeyAndIV(CF) /\ y # KeyAndIV(CF)
            /\ \A iv : x # <<SendKey(S4), iv>> /\ x # <<RecvKey(S4), iv>>
            /\ \A iv : y # <<SendKey(S4), iv>> /\ y # <<RecvKey(S4), iv>>
        BY Keys
      <3> QED BY <2>1, <3>1, UsedIs, Zenon
    <2>3. UsedIVs \subseteq UsedIVs' /\ x \in UsedIVs' /\ y \in UsedIVs'
      BY <2>1 DEF UsedIVs
    <2>4. ciphers \o <<x, y>> = Append(Append(ciphers, x), y)
      <3> HIDE DEF x, y
      <3> QED BY <1>2
    <2> HIDE DEF x, y
    <2>5. Append(ciphers, x) \in Seq(B) /\ IsInjective(Append(ciphers, x))
      <3>1. UsedIVs \subseteq B /\ x \in B /\ IsInjective(ciphers)
        BY <1>2 DEF UniqueIVs
      <3> HIDE DEF B
      <3> QED BY Zenon, <1>2, <2>2, <3>1, AppendUnused
    <2>6. ciphers' \in Seq(UsedIVs') /\ IsInjective(ciphers')
      <3>1. B \subseteq UsedIVs' /\ y \notin B
        BY <2>2, <2>3
      <3> HIDE DEF B
      <3> QED BY Zenon, <2>1, <2>3, <2>4, <2>5, <3>1, AppendUnused
    <2> QED BY <1>2, <2>1, <2>6 DEF CiphersInv, UniqueIVs
  <1>6. CASE \E kind \in {"node", "malformed"}, len \in 0 .. MaxLen : ServerSends(kind, len)
    <2> DEFINE k == serverSide.sendCounter
               e == <<RecvKey(S4), IV(k)>>
    <2>1. PICK kind \in {"node", "malformed"}, len \in 0 .. MaxLen : ServerSends(kind, len)
      BY <1>6
    <2>2. /\ ciphers' = Append(ciphers, e) /\ serverSide.phase = "transport" /\ serverSide'.phase = "transport"
          /\ serverSide'.sendCounter = k + 1 /\ UNCHANGED <<transport, sendCounter>>
      BY <2>1, ServerSendsStep
    <2>3. k + 1 < MaxToClient
      <3>1. Len(sent) = k + 1
        BY <1>1, <2>2 DEF SentInv
      <3>2. Len(sent) < MaxToClient
        BY <2>1 DEF ServerSends
      <3> QED BY <3>1, <3>2
    <2>4. e \notin UsedIVs
      <3>1. \A n \in 0..k - 1 : e # <<RecvKey(S4), IV(n)>>
        <4> SUFFICES ASSUME NEW n \in 0..k - 1, IV(n) = IV(k)
                     PROVE  FALSE
          OBVIOUS
        <4>1. n \in 0..N - 1 /\ k \in 0..N - 1 /\ n # k
          BY <1>2, <2>3
        <4> QED BY <4>1, LowBits
      <3>2. /\ e # KeyAndIV(C1) /\ e # KeyAndIV(C2) /\ e # KeyAndIV(CF)
            /\ \A n : e # <<SendKey(S4), IV(n)>>
        BY Keys
      <3> QED BY <3>1, <3>2, UsedIs, Zenon
    <2>5. UsedIVs \subseteq UsedIVs' /\ e \in UsedIVs'
      <3>1. 0..k - 1 \subseteq 0..serverSide'.sendCounter - 1 /\ k \in 0..serverSide'.sendCounter - 1
        BY <1>2, <2>2
      <3> QED BY Zenon, <2>2, <3>1 DEF UsedIVs
    <2>6. serverSide'.sendCounter <= MaxToClient
      BY <1>2, <2>2, <2>3
    <2> HIDE DEF e
    <2>7. ciphers' \in Seq(UsedIVs') /\ UniqueIVs'
      BY <1>1, <2>2, <2>4, <2>5, NewCipher
    <2> QED BY <1>2, <2>2, <2>6, <2>7 DEF CiphersInv
  <1>7. CASE ClientHello \/ (\E n \in 1..Len(stream) : Arrive(n)) \/ TransportFrame \/ LoopEnds
             \/ ServerFinish \/ ServerReceives \/ UNCHANGED vars
    <2>1. ciphers' = ciphers /\ transport' = transport /\ sendCounter' = sendCounter
          /\ (serverSide'.phase = "start" <=> serverSide.phase = "start")
          /\ serverSide'.sendCounter = serverSide.sendCounter
      <3>1. CASE ServerFinish
        BY <3>1, ServerFinishStep
      <3>2. CASE ServerReceives
        BY <3>2, ServerReceivesStep
      <3>3. CASE ClientHello
        BY <1>1, <3>3, Progress DEF ClientHello, EncodeFrame
      <3>4. CASE (\E n \in 1..Len(stream) : Arrive(n)) \/ TransportFrame \/ LoopEnds \/ UNCHANGED vars
        BY <3>4 DEF Arrive, TransportFrame, LoopEnds, vars, client
      <3> QED BY <1>7, <3>1, <3>2, <3>3, <3>4
    <2>2. UsedIVs' = UsedIVs
      BY <2>1 DEF UsedIVs
    <2> QED BY <1>2, <2>1, <2>2 DEF CiphersInv, UniqueIVs
  <1> QED BY <1>3, <1>4, <1>5, <1>6, <1>7, <1>8 DEF Next, Receive

\* noise-handler.ts:30, as long as neither side makes more ciphertexts than the counter
\* of the IV can tell apart: no two messages, of the handshake or of the transport, are
\* encrypted under the same key and IV.
THEOREM NoIVTwice ==
    ASSUME NEW N \in Nat \ {0}, N = 2 ^ CounterBits, MaxToServer \in 0..N, MaxToClient \in 0..N
    PROVE  Spec => []UniqueIVs
  <1>1. Init => CiphersInv
    <2> SUFFICES ASSUME Init PROVE CiphersInv
      OBVIOUS
    <2>1. ciphers = << >> /\ sendCounter = 0 /\ serverSide.sendCounter = 0
      BY DEF Init
    <2>2. ciphers \in Seq(UsedIVs) /\ DOMAIN ciphers = {}
      BY <2>1
    <2>3. UniqueIVs
      BY <2>2 DEF UniqueIVs, IsInjective
    <2> QED BY <2>1, <2>2, <2>3 DEF CiphersInv
  <1>2. IInv /\ CiphersInv /\ [Next]_vars => CiphersInv'
    BY CiphersStep
  <1>3. CiphersInv => UniqueIVs
    BY DEF CiphersInv
  <1> QED BY <1>1, <1>2, <1>3, Invariant, PTL DEF Spec

-----------------------------------------------------------------------------
(* The binary codec.  Its recursive functions are unfolded first: each is   *)
(* the choice of a function with a property, and has it because one exists. *)
(* Then what the readers make of the cells that the writers have written:   *)
(* of bytes, numbers, lists, packed strings, tokens, JIDs, strings,         *)
(* attributes and nodes.                                                    *)

\* A set of numbers has a least one.
LEMMA Least ==
  ASSUME NEW T \in SUBSET Nat, T # {}
  PROVE  \E m \in T : \A k \in T : m <= k
<1> DEFINE R == {ss \in Nat \X Nat : ss[1] < ss[2]}
<1>1. IsWellFoundedOn(R, Nat)
  BY NatLessThanWellFounded DEF OpToRel
<1> HIDE DEF R
<1>2. PICK m \in T : \A y \in T : ~(<<y, m>> \in R)
  BY Zenon, <1>1, WFMin
<1>3. ASSUME NEW y \in T PROVE m <= y
  <2>1. ~(<<y, m>> \in R)
    BY <1>2
  <2>2. <<y, m>> \in Nat \X Nat /\ m \in Nat /\ y \in Nat
    OBVIOUS
  <2>3. ~(y < m)
    BY <2>1, <2>2 DEF R
  <2> QED BY <2>2, <2>3
<1> QED BY <1>3

\* Induction, for a set.
LEMMA Ind ==
  ASSUME NEW S \in SUBSET Nat, 0 \in S, \A n \in S : n + 1 \in S
  PROVE  S = Nat
<1> SUFFICES ASSUME S # Nat PROVE FALSE
  OBVIOUS
<1>1. PICK m \in Nat \ S : \A k \in Nat \ S : m <= k
  BY Zenon, Least
<1>2. m # 0 /\ m - 1 \in Nat /\ m - 1 \in S
  BY <1>1
<1> QED BY <1>1, <1>2

\* A step takes a value only from those of a lower rank.
Descends(D, F, rank, Step) ==
    \A f, g \in F, x \in D :
        (\A y \in D : rank[y] < rank[x] => f[y] = g[y]) => Step[f][x] = Step[g][x]

\* A recursive function over a set with a bounded rank exists, if its step descends.
LEMMA Fixpoint ==
  ASSUME NEW D, NEW V, V # {}, NEW K \in Nat, NEW rank, \A x \in D : rank[x] \in 0 .. K,
         NEW F, F = [D -> V], NEW Step \in [F -> F], Descends(D, F, rank, Step)
  PROVE  \E f \in F : f = Step[f]
<1> DEFINE S == {k \in Nat : \E f \in [D -> V] : \A x \in D : rank[x] < k => f[x] = Step[f][x]}
<1>1. 0 \in S
  <2>1. PICK v \in V : TRUE
    OBVIOUS
  <2>2. [x \in D |-> v] \in [D -> V]
    OBVIOUS
  <2>3. \A x \in D : ~(rank[x] < 0)
    OBVIOUS
  <2> QED BY Zenon, <2>2, <2>3
<1>2. ASSUME NEW k \in S PROVE k + 1 \in S
  <2>1. PICK f \in [D -> V] : \A x \in D : rank[x] < k => f[x] = Step[f][x]
    OBVIOUS
  <2>2. Step[f] \in [D -> V]
    OBVIOUS
  <2>3. ASSUME NEW x \in D, rank[x] < k + 1 PROVE Step[f][x] = Step[Step[f]][x]
    <3>1. \A y \in D : rank[y] < rank[x] => rank[y] < k
      BY <2>3
    <3> QED BY <2>1, <2>2, <3>1 DEF Descends
  <2> QED BY <2>2, <2>3
<1>3. S = Nat
  <2>1. S \in SUBSET Nat /\ (\A k \in S : k + 1 \in S)
    BY Zenon, <1>2
  <2> HIDE DEF S
  <2> QED BY <1>1, <2>1, Ind
<1>4. PICK f \in [D -> V] : \A x \in D : rank[x] < K + 1 => f[x] = Step[f][x]
  <2>1. K + 1 \in Nat
    OBVIOUS
  <2>2. K + 1 \in S
    BY Zenon, <1>3, <2>1
  <2> QED BY <2>2
<1>5. f = Step[f]
  <2>1. Step[f] \in [D -> V] /\ \A x \in D : f[x] = Step[f][x]
    BY <1>4
  <2> QED BY <2>1
<1> QED BY <1>5

\* A part of a sequence.
LEMMA Part ==
  ASSUME NEW S, NEW s \in Seq(S), NEW m \in 1 .. Len(s) + 1, NEW n \in m - 1 .. Len(s)
  PROVE  /\ SubSeq(s, m, n) \in Seq(S)
         /\ Len(SubSeq(s, m, n)) = n - m + 1
         /\ \A i \in 1 .. n - m + 1 : SubSeq(s, m, n)[i] = s[m + i - 1]
<1>1. m \in Int /\ n \in Int /\ \A i \in m .. n : s[i] \in S
  OBVIOUS
<1>2. /\ SubSeq(s, m, n) \in Seq(S)
      /\ Len(SubSeq(s, m, n)) = IF m <= n THEN n - m + 1 ELSE 0
      /\ \A i \in 1 .. n - m + 1 : SubSeq(s, m, n)[i] = s[m + i - 1]
  BY <1>1, SubSeqProperties
<1> QED BY <1>2

-----------------------------------------------------------------------------
(* Strings.                                                                 *)

\* Every string is as short as the longest.
LEMMA StringLengths ==
  /\ MaxStringLength \in Nat
  /\ \A s \in Strings : s \in Seq(Symbols) /\ Len(s) \in 0 .. MaxStringLength
BY StringsAssumption DEF Strings

\* A string that is neither empty nor one symbol can be halved.
LEMMA TwoSymbols ==
  \A s \in Strings : s # << >> /\ Len(s) # 1 => Len(s) > 1
<1> SUFFICES ASSUME NEW s \in Strings, s # << >>, Len(s) # 1
             PROVE  Len(s) > 1
  OBVIOUS
<1> DEFINE n == Len(s)
<1>1. s \in Seq(Symbols)
  BY StringLengths
<1>2. n # 0
  BY <1>1
<1>3. n \in Nat /\ n # 1
  BY <1>1
<1> HIDE DEF n
<1>4. n > 1
  BY <1>2, <1>3
<1> QED BY <1>4 DEF n

\* The halves of a string are shorter strings.
LEMMA StringHalves ==
  ASSUME NEW s \in Strings, Len(s) > 1
  PROVE  LET half == Len(s) \div 2
             a == SubSeq(s, 1, half)
             b == SubSeq(s, half + 1, Len(s))
         IN  /\ a \in Strings /\ Len(a) \in 1 .. Len(s) - 1
             /\ b \in Strings /\ Len(b) \in 1 .. Len(s) - 1
             /\ Len(a) + Len(b) = Len(s)
<1> DEFINE n == Len(s) half == n \div 2
<1>1. s \in Seq(Symbols) /\ n \in Nat /\ n > 1 /\ n <= MaxStringLength /\ MaxStringLength \in Nat
  BY StringsAssumption DEF Strings
<1>2. half \in 1 .. n - 1
  BY SMTT(30), <1>1
<1> HIDE DEF half
<1>3. /\ SubSeq(s, 1, half) \in Seq(Symbols) /\ Len(SubSeq(s, 1, half)) = half
      /\ SubSeq(s, half + 1, n) \in Seq(Symbols) /\ Len(SubSeq(s, half + 1, n)) = n - half
  <2>1. 1 \in 1 .. n + 1 /\ half \in 1 - 1 .. n /\ half - 1 + 1 = half
    BY <1>1, <1>2
  <2>2. half + 1 \in 1 .. n + 1 /\ n \in half + 1 - 1 .. n /\ n - (half + 1) + 1 = n - half
    BY <1>1, <1>2
  <2>3. SubSeq(s, 1, half) \in Seq(Symbols) /\ Len(SubSeq(s, 1, half)) = half - 1 + 1
    BY <1>1, <2>1, Part
  <2>4. SubSeq(s, half + 1, n) \in Seq(Symbols) /\ Len(SubSeq(s, half + 1, n)) = n - (half + 1) + 1
    BY <1>1, <2>2, Part
  <2> QED BY <2>1, <2>2, <2>3, <2>4
<1>4. half <= MaxStringLength /\ n - half <= MaxStringLength /\ n - half \in 1 .. n - 1 /\ half + (n - half) = n
  BY <1>1, <1>2
<1>5. SubSeq(s, 1, half) \in Strings /\ SubSeq(s, half + 1, n) \in Strings
  BY <1>3, <1>4 DEF Strings
<1> QED BY <1>2, <1>3, <1>4, <1>5 DEF half

\* Induction over the length of a string.
LEMMA StringInduction ==
  ASSUME NEW T, \A s \in Strings : (\A t \in Strings : Len(t) < Len(s) => t \in T) => s \in T
  PROVE  \A s \in Strings : s \in T
<1> DEFINE S == {k \in Nat : \A s \in Strings : Len(s) < k => s \in T}
<1>1. 0 \in S
  BY StringLengths
<1>2. ASSUME NEW k \in S PROVE k + 1 \in S
  <2>1. ASSUME NEW s \in Strings, Len(s) < k + 1 PROVE s \in T
    <3>1. \A t \in Strings : Len(t) < Len(s) => Len(t) < k
      BY <2>1, StringLengths
    <3> QED BY <3>1
  <2> QED BY <2>1
<1>3. S = Nat
  <2>1. S \in SUBSET Nat /\ (\A k \in S : k + 1 \in S)
    BY <1>2
  <2> HIDE DEF S
  <2> QED BY <1>1, <2>1, Ind
<1>4. MaxStringLength + 1 \in S
  <2>1. MaxStringLength + 1 \in Nat
    BY StringLengths
  <2> QED BY <1>3, <2>1
<1> QED BY <1>4, StringLengths

StringRank == [s \in Strings |-> Len(s)]

\* A recursive function over strings exists.
LEMMA StringFixpoint ==
  ASSUME NEW V, V # {}, NEW F, F = [Strings -> V], NEW Step \in [F -> F],
         Descends(Strings, F, StringRank, Step)
  PROVE  \E f \in F : f = Step[f]
<1>1. MaxStringLength \in Nat /\ \A s \in Strings : StringRank[s] \in 0 .. MaxStringLength
  BY StringLengths DEF StringRank
<1> QED BY <1>1, Fixpoint

Utf8Body(f, s) ==
    IF s = << >> THEN 0
    ELSE IF Len(s) = 1 THEN ByteLength[s[1]]
    ELSE f[SubSeq(s, 1, Len(s) \div 2)] + f[SubSeq(s, Len(s) \div 2 + 1, Len(s))]

\* The length of a string in UTF-8, by that of its halves.
LEMMA Utf8LengthUnfolds ==
  \A s \in Strings : Utf8Length[s] = Utf8Body(Utf8Length, s)
<1> DEFINE F == [Strings -> Int]
           Step == [f \in F |-> [s \in Strings |-> Utf8Body(f, s)]]
           P(f) == f = [s \in Strings |-> Utf8Body(f, s)]
<1>1. Step \in [F -> F]
  <2>1. ASSUME NEW f \in F, NEW s \in Strings PROVE Utf8Body(f, s) \in Int
    <3>1. CASE Len(s) = 1
      <4>1. s[1] \in Symbols
        BY SMTT(30), <3>1, StringLengths
      <4>2. ByteLength[s[1]] \in Nat
        BY <4>1, StringsAssumption
      <4> QED BY <3>1, <4>2 DEF Utf8Body
    <3>2. CASE Len(s) # 1 /\ s # << >>
      <4>1. /\ f[SubSeq(s, 1, Len(s) \div 2)] \in Int
            /\ f[SubSeq(s, Len(s) \div 2 + 1, Len(s))] \in Int
        BY <3>2, TwoSymbols, StringHalves
      <4> QED BY <3>2, <4>1 DEF Utf8Body
    <3> QED BY <3>1, <3>2 DEF Utf8Body
  <2> QED BY <2>1
<1>2. Descends(Strings, F, StringRank, Step)
  <2>1. ASSUME NEW f \in F, NEW g \in F, NEW s \in Strings,
               \A t \in Strings : StringRank[t] < StringRank[s] => f[t] = g[t]
        PROVE  Utf8Body(f, s) = Utf8Body(g, s)
    <3>1. CASE s # << >> /\ Len(s) # 1
      <4> DEFINE a == SubSeq(s, 1, Len(s) \div 2) b == SubSeq(s, Len(s) \div 2 + 1, Len(s))
      <4>1. a \in Strings /\ b \in Strings /\ Len(a) < Len(s) /\ Len(b) < Len(s)
        <5>1. Len(s) > 1
          BY <3>1, TwoSymbols
        <5>2. /\ a \in Strings /\ Len(a) \in 1 .. Len(s) - 1
              /\ b \in Strings /\ Len(b) \in 1 .. Len(s) - 1
          BY <5>1, StringHalves
        <5>3. Len(s) \in Nat
          BY StringLengths
        <5> HIDE DEF a, b
        <5> QED BY <5>2, <5>3
      <4> HIDE DEF a, b
      <4>2. f[a] = g[a] /\ f[b] = g[b]
        BY <2>1, <4>1 DEF StringRank
      <4> QED BY <3>1, <4>2 DEF Utf8Body, a, b
    <3> QED BY <3>1 DEF Utf8Body
  <2>2. \A f \in F, s \in Strings : Step[f][s] = Utf8Body(f, s)
    OBVIOUS
  <2> HIDE DEF F, Step
  <2> QED BY <2>1, <2>2 DEF Descends
<1>3. PICK f \in F : f = Step[f]
  <2>1. F = [Strings -> Int] /\ Int # {}
    OBVIOUS
  <2> HIDE DEF Step, F
  <2> QED BY <1>1, <1>2, <2>1, StringFixpoint
<1>4. P(f)
  BY <1>3
<1>5. Utf8Length = CHOOSE fun : P(fun)
  BY DEF Utf8Length, Utf8Body
<1>6. P(Utf8Length)
  <2> HIDE DEF P
  <2> QED BY <1>4, <1>5
<1> QED BY Zenon, <1>6

\* Every symbol has a byte at least, and the longest string has less than 2^31.
LEMMA Utf8LengthBounds ==
  ASSUME NEW s \in Strings
  PROVE  Utf8Length[s] \in 0 .. MaxLength /\ (Utf8Length[s] = 0 <=> s = << >>)
<1> DEFINE M == MaxStringLength
           B == MaxLength \div M
           T == {t \in Strings : Utf8Length[t] \in Len(t) .. Len(t) * B}
<1>1. M \in Nat /\ M > 0 /\ B \in Nat /\ B * M <= MaxLength /\ \A c \in Symbols : ByteLength[c] \in 1 .. B
  <2>1. MaxLength \in Nat
    BY SMT DEF MaxLength
  <2> QED BY <2>1, StringsAssumption
<1> HIDE DEF B, M
<1>2. ASSUME NEW t \in Strings, \A u \in Strings : Len(u) < Len(t) => u \in T
      PROVE  t \in T
  <2>0. t \in Seq(Symbols) /\ Len(t) \in Nat
    BY StringLengths
  <2>1. CASE t = << >>
    <3>1. Utf8Length[t] = 0 /\ Len(t) = 0
      BY <2>1, Utf8LengthUnfolds DEF Utf8Body
    <3> QED BY <3>1, <1>1
  <2>2. CASE Len(t) = 1
    <3>1. Utf8Length[t] = ByteLength[t[1]]
      BY <2>2, Utf8LengthUnfolds DEF Utf8Body
    <3>2. t[1] \in Symbols
      BY <2>0, <2>2
    <3>3. ByteLength[t[1]] \in 1 .. B
      BY <1>1, <3>2
    <3>4. Len(t) * B = B
      BY <1>1, <2>2
    <3>5. Utf8Length[t] \in Len(t) .. Len(t) * B
      BY <2>2, <3>1, <3>3, <3>4
    <3> QED BY <3>5
  <2>3. CASE t # << >> /\ Len(t) # 1
    <3> DEFINE a == SubSeq(t, 1, Len(t) \div 2) b == SubSeq(t, Len(t) \div 2 + 1, Len(t))
    <3>0. Len(t) > 1
      BY <2>3, TwoSymbols
    <3>1. /\ a \in Strings /\ Len(a) \in 1 .. Len(t) - 1
          /\ b \in Strings /\ Len(b) \in 1 .. Len(t) - 1
          /\ Len(a) + Len(b) = Len(t)
      BY <3>0, StringHalves
    <3>2. Utf8Length[t] = Utf8Length[a] + Utf8Length[b]
      BY <2>3, Utf8LengthUnfolds DEF Utf8Body
    <3> HIDE DEF a, b
    <3>3. a \in T /\ b \in T
      BY <1>2, <2>0, <3>1
    <3> DEFINE l == Len(a) k == Len(b) u == Utf8Length[a] v == Utf8Length[b]
    <3>4. l \in Nat /\ k \in Nat /\ u \in l .. l * B /\ v \in k .. k * B
      BY <2>0, <3>1, <3>3
    <3> HIDE DEF l, k, u, v
    <3>5. l * B + k * B = (l + k) * B /\ l * B \in Int /\ k * B \in Int
      BY <3>4, <1>1
    <3>6. u + v \in l + k .. (l + k) * B
      BY <3>4, <3>5
    <3>7. u + v = Utf8Length[t] /\ l + k = Len(t)
      BY <3>1, <3>2 DEF l, k, u, v
    <3> QED BY <3>6, <3>7
  <2> QED BY <2>1, <2>2, <2>3
<1>3. s \in T
  <2> HIDE DEF T
  <2> QED BY <1>2, StringInduction
<1>4. Len(s) \in Nat /\ Len(s) <= M /\ (Len(s) = 0 <=> s = << >>)
  <2>1. s \in Seq(Symbols) /\ Len(s) <= M
    BY StringsAssumption DEF Strings, M
  <2> QED BY <2>1
<1>5. Len(s) * B <= M * B
  BY <1>1, <1>4
<1>6. Utf8Length[s] \in Len(s) .. Len(s) * B
  BY <1>3
<1>7. M * B = B * M /\ Len(s) * B \in Int /\ MaxLength \in Nat
  BY <1>1, <1>4, SMT DEF MaxLength
<1>8. Utf8Length[s] \in Int /\ Len(s) <= Utf8Length[s] /\ Utf8Length[s] <= MaxLength
  BY <1>1, <1>4, <1>5, <1>6, <1>7
<1>9. Utf8Length[s] = 0 => s = << >>
  BY <1>4, <1>8
<1>10. s = << >> => Utf8Length[s] = 0
  BY Utf8LengthUnfolds DEF Utf8Body
<1> QED BY <1>4, <1>7, <1>8, <1>9, <1>10

\* The bytes of a string are a block (encoder.ts:141).
LEMMA BlockOfString ==
  ASSUME NEW s \in Strings
  PROVE  AsBlock(s) \in Blocks
BY Utf8LengthBounds DEF AsBlock, Blocks

\* The least of a set of numbers is one of them.
LEMMA MinOf ==
  ASSUME NEW T \in SUBSET Nat, T # {}
  PROVE  Min(T) \in T
<1>1. \E m \in T : \A k \in T : m <= k
  BY Least
<1> QED BY Zenon, <1>1 DEF Min

\* The greatest of a bounded set of numbers is one of them.
LEMMA MaxOf ==
  ASSUME NEW N \in Nat, NEW T \in SUBSET (0 .. N), T # {}
  PROVE  Max(T) \in T
<1> DEFINE R == {N - k : k \in T}
<1>1. R \in SUBSET Nat /\ R # {}
  <2>1. \A k \in T : N - k \in Nat
    OBVIOUS
  <2>2. PICK k \in T : TRUE
    BY Zenon
  <2>3. N - k \in R
    OBVIOUS
  <2> QED BY <2>1, <2>3
<1>2. PICK m \in R : \A k \in R : m <= k
  <2> HIDE DEF R
  <2> QED BY <1>1, Least
<1>3. PICK x \in T : m = N - x
  BY <1>2
<1>4. \A y \in T : x >= y
  <2> SUFFICES ASSUME NEW y \in T PROVE x >= y
    OBVIOUS
  <2>1. N - y \in R
    OBVIOUS
  <2>2. N - x <= N - y
    BY Zenon, <1>2, <1>3, <2>1
  <2> QED BY <2>2
<1> QED BY Zenon, <1>4 DEF Max

\* lastIndexOf(), or 0.
LEMMA LastIndex ==
  ASSUME NEW S, NEW s \in Seq(S), NEW c
  PROVE  /\ LastIndexOf(s, c) \in 0 .. Len(s)
         /\ LastIndexOf(s, c) # 0 => s[LastIndexOf(s, c)] = c
<1> DEFINE T == {0} \cup {i \in DOMAIN s : s[i] = c}
<1>1. T \in SUBSET (0 .. Len(s)) /\ T # {} /\ Len(s) \in Nat
  OBVIOUS
<1>2. Max(T) \in T
  <2> HIDE DEF T
  <2> QED BY Zenon, <1>1, MaxOf
<1> QED BY <1>1, <1>2 DEF LastIndexOf

\* The parts of a JID are shorter strings.
LEMMA JidParts ==
  ASSUME NEW s \in Strings, JidDecode(s) # NotAJid
  PROVE  LET jid == JidDecode(s)
         IN  /\ jid.user \in Strings /\ Len(jid.user) < Len(s)
             /\ jid.server \in Strings /\ Len(jid.server) < Len(s) /\ jid.server # << >>
             /\ "device" \notin DOMAIN jid => s = jid.user \o <<"@">> \o jid.server
<1> DEFINE at == LastIndexOf(s, "@")
           server == SubSeq(s, at + 1, Len(s))
           userPart == SubSeq(s, 1, at - 1)
           colon == LastIndexOf(userPart, ":")
           user == SubSeq(userPart, 1, colon - 1)
           device == ParseInt(SubSeq(userPart, colon + 1, Len(userPart)))
           jid == JidDecode(s)
<1>1. s \in Seq(Symbols) /\ Len(s) \in 0 .. MaxStringLength /\ MaxStringLength \in Nat
  BY StringLengths
<1>2. at \in 0 .. Len(s) /\ (at # 0 => s[at] = "@")
  BY <1>1, LastIndex
<1> HIDE DEF at, device
<1>0. jid # NotAJid
  OBVIOUS
<1>3. /\ at # 0 /\ server # << >>
      /\ \/ colon = 0 /\ jid = [user |-> userPart, server |-> server]
         \/ colon # 0 /\ jid = [user |-> user, server |-> server, device |-> device.value]
  BY Zenon, <1>0 DEF JidDecode, at, device
<1>4. server \in Seq(Symbols) /\ Len(server) = Len(s) - (at + 1) + 1 /\ \A i \in 1 .. Len(s) - (at + 1) + 1 : server[i] = s[at + 1 + i - 1]
  BY <1>1, <1>2, <1>3, Part
<1>5. userPart \in Seq(Symbols) /\ Len(userPart) = at - 1 - 1 + 1 /\ \A i \in 1 .. at - 1 - 1 + 1 : userPart[i] = s[1 + i - 1]
  BY <1>1, <1>2, <1>3, Part
<1> HIDE DEF server, userPart
<1>6. colon \in 0 .. Len(userPart)
  BY <1>5, LastIndex
<1> HIDE DEF colon
<1>7. colon # 0 => user \in Seq(Symbols) /\ Len(user) = colon - 1 - 1 + 1
  <2>1. colon # 0 => 1 \in 1 .. Len(userPart) + 1 /\ colon - 1 \in 1 - 1 .. Len(userPart)
    BY <1>6
  <2> QED BY <1>5, <2>1, Part
<1> HIDE DEF user
<1>8. server \in Strings /\ Len(server) < Len(s) /\ userPart \in Strings /\ Len(userPart) < Len(s)
      /\ (colon # 0 => user \in Strings /\ Len(user) < Len(s))
  BY <1>1, <1>2, <1>3, <1>4, <1>5, <1>6, <1>7 DEF Strings
<1>9. s = userPart \o <<"@">> \o server
  <2>1. "@" \in Symbols
    BY <1>1, <1>2, <1>3
  <2>2. /\ <<"@">> \in Seq(Symbols) /\ userPart \o <<"@">> \in Seq(Symbols)
        /\ userPart \o <<"@">> \o server \in Seq(Symbols)
    BY <2>1, <1>4, <1>5
  <2>3. /\ Len(userPart \o <<"@">>) = at
        /\ \A i \in 1 .. at : (userPart \o <<"@">>)[i] = s[i]
    BY <2>2, <1>1, <1>2, <1>3, <1>5
  <2>4. /\ Len(userPart \o <<"@">> \o server) = Len(s)
        /\ \A i \in 1 .. Len(s) : (userPart \o <<"@">> \o server)[i] = s[i]
    <3>1. Len(server) = Len(s) - at /\ \A i \in 1 .. Len(s) - at : server[i] = s[at + i]
      BY <1>1, <1>2, <1>4
    <3> DEFINE front == userPart \o <<"@">>
    <3>2. front \in Seq(Symbols) /\ Len(front) = at /\ \A i \in 1 .. at : front[i] = s[i]
      BY <2>2, <2>3
    <3> HIDE DEF front
    <3>3. /\ Len(front \o server) = Len(front) + Len(server)
          /\ \A i \in 1 .. Len(front) + Len(server) :
                (front \o server)[i] = IF i <= Len(front) THEN front[i] ELSE server[i - Len(front)]
      BY Zenon, <3>2, <1>4, ConcatProperties
    <3>4. Len(front \o server) = Len(s) /\ \A i \in 1 .. Len(s) : (front \o server)[i] = s[i]
      <4>1. Len(front \o server) = Len(s)
        BY <3>1, <3>2, <3>3, <1>1, <1>2
      <4>2. ASSUME NEW i \in 1 .. Len(s) PROVE (front \o server)[i] = s[i]
        <5>0. i \in Int /\ at \in Int /\ i \in 1 .. Len(front) + Len(server)
          BY <3>1, <3>2, <1>1, <1>2
        <5>1. CASE i <= at
          BY <5>1, <5>0, <3>1, <3>2, <3>3, <1>1, <1>2
        <5>2. CASE i > at
          <6>1. i - at \in 1 .. Len(s) - at /\ at + (i - at) = i
            BY <5>2, <1>1, <1>2
          <6>2. server[i - at] = s[i]
            BY <6>1, <3>1
          <6>3. (front \o server)[i] = server[i - at]
            BY <5>2, <5>0, <3>2, <3>3
          <6> QED BY <6>2, <6>3
        <5> QED BY <5>0, <5>1, <5>2
      <4> QED BY <4>1, <4>2
    <3> QED BY <3>4 DEF front
  <2> QED BY Zenon, <2>2, <2>4, <1>1, SeqEqual
<1>10. CASE colon = 0
  <2>1. jid.user = userPart /\ jid.server = server
    BY <1>3, <1>10
  <2> QED BY <2>1, <1>3, <1>8, <1>9
<1>11. CASE colon # 0
  <2>1. jid.user = user /\ jid.server = server /\ "device" \in DOMAIN jid
    BY <1>3, <1>11
  <2> QED BY <2>1, <1>3, <1>8, <1>11
<1> QED BY Zenon, <1>10, <1>11

\* What a writer makes.  The number of a device may be that of no byte.
Cells == [byte : 0 .. 255] \cup Blocks \cup {[byte |-> JidDecode(s).device % 256] : s \in Strings}

Cell(b) == <<[byte |-> b]>>

\* The cells are in the buffer, from the cursor on.
Stands(buf, c, cells) ==
    /\ c \in 1 .. Len(buf) + 1
    /\ c + Len(cells) <= Len(buf) + 1
    /\ \A i \in 1 .. Len(cells) : buf[c + i - 1] = cells[i]

Shortened(cell) == [cell EXCEPT !.len = @ - 1]

\* The buffer ends before they do.
Broken(buf, c, cells) ==
    /\ c \in 1 .. Len(buf) + 1
    /\ \/ /\ Len(buf) + 1 < c + Len(cells)
          /\ \A i \in 1 .. Len(buf) + 1 - c : buf[c + i - 1] = cells[i]
       \/ /\ Len(buf) + 1 = c + Len(cells)
          /\ Len(cells) >= 1
          /\ \A i \in 1 .. Len(cells) - 1 : buf[c + i - 1] = cells[i]
          /\ "len" \in DOMAIN cells[Len(cells)]
          /\ buf[Len(buf)] = Shortened(cells[Len(cells)])

\* What is read where the cells should be: all of them, with the value v if the writer is
\* sure, or an error; always an error if they are broken.
Reads(buf, c, cells, result, v, sure) ==
    /\ Stands(buf, c, cells) =>
         \/ ~sure /\ result = Error
         \/ \E x : result = Read(x, c + Len(cells)) /\ (sure => x = v)
    /\ Broken(buf, c, cells) => result = Error

\* What is read is not an error.
LEMMA ReadIsNoError ==
  ASSUME NEW x, NEW c
  PROVE  Read(x, c) # Error /\ Read(x, c).value = x /\ Read(x, c).cursor = c
<1>1. "value" \in DOMAIN Read(x, c) /\ "value" \notin DOMAIN Error
  BY DEF Read, Error
<1> QED BY <1>1 DEF Read

\* If two pieces are in the buffer, each of them is.
LEMMA StandsJoined ==
  ASSUME NEW S, NEW a \in Seq(S), NEW b \in Seq(S), NEW buf, Len(buf) \in Nat, NEW c,
         Stands(buf, c, a \o b)
  PROVE  Stands(buf, c, a) /\ Stands(buf, c + Len(a), b)
<1>1. /\ Len(a) \in Nat /\ Len(b) \in Nat /\ Len(a \o b) = Len(a) + Len(b)
      /\ \A i \in 1 .. Len(a) + Len(b) : (a \o b)[i] = IF i <= Len(a) THEN a[i] ELSE b[i - Len(a)]
  BY ConcatProperties
<1>2. /\ c \in 1 .. Len(buf) + 1 /\ c + Len(a) + Len(b) <= Len(buf) + 1
      /\ \A i \in 1 .. Len(a) + Len(b) : buf[c + i - 1] = (a \o b)[i]
  BY <1>1 DEF Stands
<1>3. ASSUME NEW i \in 1 .. Len(a) PROVE buf[c + i - 1] = a[i]
  <2>1. i \in 1 .. Len(a) + Len(b) /\ i <= Len(a)
    BY <1>1
  <2>2. (a \o b)[i] = a[i]
    BY <1>1, <2>1
  <2> QED BY <1>2, <2>1, <2>2
<1>4. ASSUME NEW i \in 1 .. Len(b) PROVE buf[c + Len(a) + i - 1] = b[i]
  <2>1. Len(a) + i \in 1 .. Len(a) + Len(b) /\ ~(Len(a) + i <= Len(a)) /\ Len(a) + i - Len(a) = i
        /\ c + (Len(a) + i) - 1 = c + Len(a) + i - 1
    BY <1>1, <1>2
  <2> DEFINE k == Len(a) + i
  <2>2. (a \o b)[k] = IF k <= Len(a) THEN a[k] ELSE b[k - Len(a)]
    BY <1>1, <2>1
  <2>3. buf[c + k - 1] = (a \o b)[k]
    BY Zenon, <1>2, <2>1
  <2> QED BY <2>1, <2>2, <2>3
<1> QED BY <1>1, <1>2, <1>3, <1>4 DEF Stands

\* If the end of two pieces is lost, the first is broken, or the second behind the first.
LEMMA BrokenJoined ==
  ASSUME NEW S, NEW a \in Seq(S), NEW b \in Seq(S), NEW buf, Len(buf) \in Nat, NEW c,
         Broken(buf, c, a \o b)
  PROVE  Broken(buf, c, a) \/ (Stands(buf, c, a) /\ Broken(buf, c + Len(a), b))
<1>1. /\ Len(a) \in Nat /\ Len(b) \in Nat /\ Len(a \o b) = Len(a) + Len(b)
      /\ \A i \in 1 .. Len(a) + Len(b) : (a \o b)[i] = IF i <= Len(a) THEN a[i] ELSE b[i - Len(a)]
  BY ConcatProperties
<1>2. c \in 1 .. Len(buf) + 1
  BY DEF Broken
<1>3. \A i \in 1 .. Len(a) : (a \o b)[i] = a[i]
  BY <1>1
<1>4. ASSUME NEW i \in 1 .. Len(b) PROVE (a \o b)[Len(a) + i] = b[i] /\ c + (Len(a) + i) - 1 = c + Len(a) + i - 1
  <2> DEFINE k == Len(a) + i
  <2>1. Len(a) + i \in 1 .. Len(a) + Len(b) /\ ~(Len(a) + i <= Len(a)) /\ Len(a) + i - Len(a) = i
        /\ c + (Len(a) + i) - 1 = c + Len(a) + i - 1
    BY <1>1, <1>2
  <2>2. (a \o b)[k] = IF k <= Len(a) THEN a[k] ELSE b[k - Len(a)]
    BY <1>1, <2>1
  <2> QED BY <2>1, <2>2
<1> DEFINE m == Len(buf) + 1 - c
<1>5. CASE Len(buf) + 1 < c + Len(a \o b) /\ \A i \in 1 .. m : buf[c + i - 1] = (a \o b)[i]
  <2>1. CASE m < Len(a)
    BY <2>1, <1>1, <1>2, <1>3, <1>5 DEF Broken
  <2>2. CASE m >= Len(a)
    <3>1. Stands(buf, c, a)
      BY SMTT(30), <2>2, <1>1, <1>2, <1>3, <1>5 DEF Stands
    <3>2. ASSUME NEW i \in 1 .. Len(buf) + 1 - (c + Len(a)) PROVE buf[c + Len(a) + i - 1] = b[i]
      <4>1. i \in 1 .. Len(b) /\ Len(a) + i \in 1 .. m
        BY <1>1, <1>2, <1>5, <2>2
      <4> QED BY Zenon, <4>1, <1>4, <1>5
    <3>3. Broken(buf, c + Len(a), b)
      BY <1>1, <1>2, <1>5, <2>2, <3>2 DEF Broken
    <3> QED BY <3>1, <3>3
  <2> QED BY <2>1, <2>2, <1>1, <1>2
<1>6. CASE /\ Len(buf) + 1 = c + Len(a \o b) /\ Len(a \o b) >= 1
           /\ \A i \in 1 .. Len(a \o b) - 1 : buf[c + i - 1] = (a \o b)[i]
           /\ "len" \in DOMAIN (a \o b)[Len(a \o b)]
           /\ buf[Len(buf)] = Shortened((a \o b)[Len(a \o b)])
  <2>1. CASE Len(b) = 0
    <3>1. Len(a \o b) = Len(a) /\ (a \o b)[Len(a \o b)] = a[Len(a)]
      BY <1>1, <1>3, <1>6, <2>1
    <3>2. \A i \in 1 .. Len(a) - 1 : buf[c + i - 1] = a[i]
      BY <3>1, <1>1, <1>3, <1>6
    <3> QED BY <3>1, <3>2, <1>1, <1>2, <1>6 DEF Broken
  <2>2. CASE Len(b) # 0
    <3>0. \A i \in 1 .. Len(a) : buf[c + i - 1] = a[i]
      <4>1. \A i \in 1 .. Len(a) : i \in 1 .. Len(a \o b) - 1
        BY <2>2, <1>1
      <4> QED BY Zenon, <4>1, <1>3, <1>6
    <3>1. Stands(buf, c, a)
      BY <2>2, <3>0, <1>1, <1>2, <1>6 DEF Stands
    <3>2. (a \o b)[Len(a \o b)] = b[Len(b)]
      BY <1>1, <1>4, <2>2
    <3>3. ASSUME NEW i \in 1 .. Len(b) - 1 PROVE buf[c + Len(a) + i - 1] = b[i]
      <4>1. i \in 1 .. Len(b) /\ Len(a) + i \in 1 .. Len(a \o b) - 1
        BY <1>1
      <4> QED BY Zenon, <4>1, <1>4, <1>6
    <3>4. Broken(buf, c + Len(a), b)
      BY <1>1, <1>2, <1>6, <2>2, <3>2, <3>3 DEF Broken
    <3> QED BY <3>1, <3>4
  <2> QED BY <2>1, <2>2
<1> QED BY Zenon, <1>5, <1>6 DEF Broken

\* One after the other: the result is an error if the first is one, and otherwise what is
\* read after the first.
LEMMA ReadsJoined ==
  ASSUME NEW S, NEW a \in Seq(S), NEW b \in Seq(S), NEW buf, Len(buf) \in Nat, NEW c,
         NEW first, NEW v1, NEW sure1, Reads(buf, c, a, first, v1, sure1),
         NEW result, NEW v, NEW sure \in BOOLEAN, sure => sure1,
         first = Error => result = Error,
         \A x : first = Read(x, c + Len(a)) /\ (sure1 => x = v1)
               => Reads(buf, c + Len(a), b, result, v, sure)
  PROVE  Reads(buf, c, a \o b, result, v, sure)
<1>1. /\ Len(a) \in Nat /\ Len(b) \in Nat /\ Len(a \o b) = Len(a) + Len(b)
  BY ConcatProperties
<1>2. ASSUME Stands(buf, c, a \o b)
      PROVE  \/ ~sure /\ result = Error
             \/ \E x : result = Read(x, c + Len(a \o b)) /\ (sure => x = v)
  <2>0. c \in 1 .. Len(buf) + 1
    BY <1>2 DEF Stands
  <2>1. Stands(buf, c, a) /\ Stands(buf, c + Len(a), b) /\ c \in Int
    BY <1>2, <2>0, StandsJoined
  <2>2. CASE first = Error
    <3>1. ~sure1
      BY <2>1, <2>2, ReadIsNoError DEF Reads
    <3> QED BY <3>1, <2>2
  <2>3. CASE first # Error
    <3>1. PICK x : first = Read(x, c + Len(a)) /\ (sure1 => x = v1)
      BY <2>1, <2>3 DEF Reads
    <3>2. Reads(buf, c + Len(a), b, result, v, sure)
      BY <3>1
    <3>3. c + Len(a) + Len(b) = c + Len(a \o b)
      BY <1>1, <2>1
    <3> QED BY <2>1, <3>2, <3>3 DEF Reads
  <2> QED BY <2>2, <2>3
<1>3. ASSUME Broken(buf, c, a \o b)
      PROVE  result = Error
  <2>1. CASE Broken(buf, c, a)
    BY <2>1 DEF Reads
  <2>2. CASE Stands(buf, c, a) /\ Broken(buf, c + Len(a), b) /\ first # Error
    <3>1. PICK x : first = Read(x, c + Len(a)) /\ (sure1 => x = v1)
      BY <2>2 DEF Reads
    <3>2. Reads(buf, c + Len(a), b, result, v, sure)
      BY <3>1
    <3> QED BY <2>2, <3>2 DEF Reads
  <2> QED BY <2>1, <2>2, <1>3, BrokenJoined
<1> QED BY <1>2, <1>3 DEF Reads

\* What is made of what has been read.
LEMMA ReadsMapped ==
  ASSUME NEW buf, NEW c, NEW a, NEW first, NEW v1, NEW sure1, Reads(buf, c, a, first, v1, sure1),
         NEW result, NEW v, NEW sure \in BOOLEAN, sure => sure1,
         first = Error => result = Error,
         \A x : first = Read(x, c + Len(a)) /\ (sure1 => x = v1)
               => \/ ~sure /\ result = Error
                  \/ \E y : result = Read(y, c + Len(a)) /\ (sure => y = v)
  PROVE  Reads(buf, c, a, result, v, sure)
BY ReadIsNoError DEF Reads

\* The same, of what is sure to be read.
LEMMA SurelyJoined ==
  ASSUME NEW S, NEW a \in Seq(S), NEW b \in Seq(S), NEW buf, Len(buf) \in Nat, NEW c,
         NEW first, NEW v1, Reads(buf, c, a, first, v1, TRUE),
         NEW result, NEW v, first = Error => result = Error,
         first = Read(v1, c + Len(a)) => Reads(buf, c + Len(a), b, result, v, TRUE)
  PROVE  Reads(buf, c, a \o b, result, v, TRUE)
<1>1. \A x : first = Read(x, c + Len(a)) /\ (TRUE => x = v1)
            => Reads(buf, c + Len(a), b, result, v, TRUE)
  BY Zenon
<1>2. TRUE \in BOOLEAN
  OBVIOUS
<1> QED BY Zenon, <1>1, <1>2, ReadsJoined

LEMMA SurelyMapped ==
  ASSUME NEW buf, NEW c, NEW a, NEW first, NEW v1, Reads(buf, c, a, first, v1, TRUE),
         NEW result, NEW v, first = Error => result = Error,
         first = Read(v1, c + Len(a)) => result = Read(v, c + Len(a))
  PROVE  Reads(buf, c, a, result, v, TRUE)
<1>1. \A x : first = Read(x, c + Len(a)) /\ (TRUE => x = v1)
            => \/ ~TRUE /\ result = Error
               \/ \E y : result = Read(y, c + Len(a)) /\ (TRUE => y = v)
  OBVIOUS
<1>2. TRUE \in BOOLEAN
  OBVIOUS
<1> QED BY Zenon, <1>1, <1>2, ReadsMapped

\* readByte() reads a byte.
LEMMA ByteReads ==
  ASSUME NEW buf, Len(buf) \in Nat, NEW c, NEW b
  PROVE  Reads(buf, c, Cell(b), ReadByte(buf, c), b, TRUE)
<1>1. Len(Cell(b)) = 1 /\ Cell(b)[1] = [byte |-> b] /\ "len" \notin DOMAIN [byte |-> b]
  BY DEF Cell
<1>2. ASSUME Stands(buf, c, Cell(b)) PROVE ReadByte(buf, c) = Read(b, c + 1)
  <2>1. c \in 1 .. Len(buf) /\ buf[c + 1 - 1] = [byte |-> b] /\ c + 1 - 1 = c
    BY <1>1, <1>2 DEF Stands
  <2>2. buf[c] = [byte |-> b]
    BY <2>1
  <2>3. "byte" \in DOMAIN buf[c] /\ buf[c].byte = b
    BY <2>2
  <2> QED BY <2>1, <2>3 DEF ReadByte
<1>3. ASSUME Broken(buf, c, Cell(b)) PROVE ReadByte(buf, c) = Error
  <2>1. c > Len(buf)
    BY <1>1, <1>3 DEF Broken
  <2> QED BY <2>1 DEF ReadByte
<1> QED BY <1>1, <1>2, <1>3 DEF Reads

\* A sequence that is one and then another.
LEMMA Split ==
  ASSUME NEW S, NEW s \in Seq(S), NEW a \in Seq(S), NEW b \in Seq(S), Len(s) = Len(a) + Len(b),
         \A i \in 1 .. Len(a) : s[i] = a[i], \A i \in 1 .. Len(b) : s[Len(a) + i] = b[i]
  PROVE  s = a \o b
<1>1. /\ a \o b \in Seq(S) /\ Len(a) \in Nat /\ Len(b) \in Nat /\ Len(a \o b) = Len(a) + Len(b)
      /\ \A i \in 1 .. Len(a) + Len(b) : (a \o b)[i] = IF i <= Len(a) THEN a[i] ELSE b[i - Len(a)]
  BY ConcatProperties
<1>2. ASSUME NEW i \in 1 .. Len(s) PROVE s[i] = (a \o b)[i]
  <2>1. CASE i <= Len(a)
    BY <2>1, <1>1
  <2>2. CASE i > Len(a)
    <3>1. i - Len(a) \in 1 .. Len(b) /\ Len(a) + (i - Len(a)) = i
      BY <2>2, <1>1
    <3>2. s[i] = b[i - Len(a)]
      BY <3>1
    <3> QED BY <3>2, <2>2, <1>1
  <2> QED BY <2>1, <2>2, <1>1
<1> QED BY <1>1, <1>2, SeqEqual

\* A tuple is its first and the rest.
LEMMA Tuples ==
  ASSUME NEW S, NEW x \in S, NEW y \in S, NEW z \in S, NEW w \in S, NEW v \in S
  PROVE  /\ <<x, y>> = <<x>> \o <<y>>
         /\ <<x, y, z>> = <<x>> \o <<y, z>>
         /\ <<x, y, z, w>> = <<x, y>> \o <<z, w>>
         /\ <<x, y, z, w, v>> = <<x>> \o <<y, z, w, v>>
<1>1. <<x, y>> = <<x>> \o <<y>>
  <2> DEFINE a == <<x>> b == <<y>> s == <<x, y>>
  <2>1. a \in Seq(S) /\ b \in Seq(S) /\ s \in Seq(S) /\ Len(a) = 1 /\ Len(b) = 1 /\ Len(s) = 2
    OBVIOUS
  <2>3. a[1] = x /\ b[1] = y /\ s[1] = x /\ s[2] = y
    OBVIOUS
  <2> HIDE DEF a, b, s
  <2>2. s = a \o b
    <3>1. (\A i \in 1 .. Len(a) : s[i] = a[i]) /\ \A i \in 1 .. Len(b) : s[Len(a) + i] = b[i]
      BY <2>1, <2>3
    <3>2. Len(s) = Len(a) + Len(b)
      BY <2>1
    <3> QED BY Zenon, <2>1, <3>1, <3>2, Split
  <2> QED BY <2>2 DEF a, b, s
<1>2. <<x, y, z>> = <<x>> \o <<y, z>>
  BY Split
<1>3. <<x, y, z, w>> = <<x, y>> \o <<z, w>>
  BY Split
<1>4. <<x, y, z, w, v>> = <<x>> \o <<y, z, w, v>>
  <2>1. <<x>> \in Seq(S) /\ <<y, z, w, v>> \in Seq(S) /\ <<x, y, z, w, v>> \in Seq(S)
    OBVIOUS
  <2>2. \A i \in 1 .. 1 : <<x, y, z, w, v>>[i] = <<x>>[i]
    OBVIOUS
  <2>3. \A i \in 1 .. 4 : i = 1 \/ i = 2 \/ i = 3 \/ i = 4
    OBVIOUS
  <2>4. \A i \in 1 .. 4 : <<x, y, z, w, v>>[1 + i] = <<y, z, w, v>>[i]
    BY <2>3
  <2> QED BY <2>1, <2>2, <2>4, Split
<1> QED BY Zenon, <1>1, <1>2, <1>3, <1>4

\* A number of eight bits is a byte of its own.
LEMMA ByteCell ==
  ASSUME NEW b \in 0 .. 255
  PROVE  Cell(b) \in Seq(Cells) /\ Len(Cell(b)) = 1
BY DEF Cell, Cells

\* What is not written is not read.
LEMMA NothingReads ==
  ASSUME NEW buf, Len(buf) \in Nat, NEW c, NEW v
  PROVE  Reads(buf, c, << >>, Read(v, c), v, TRUE)
<1>1. ~Broken(buf, c, << >>)
  BY DEF Broken
<1>2. Stands(buf, c, << >>) => c + Len(<< >>) = c
  BY DEF Stands
<1> QED BY <1>1, <1>2 DEF Reads

\* Bytes one by one.
LEMMA OneByte ==
  ASSUME NEW a \in 0 .. 255
  PROVE  AsBytes(<<a>>) = Cell(a)
<1>1. a % 256 = a
  OBVIOUS
<1> QED BY <1>1 DEF AsBytes, Cell

LEMMA TwoBytes ==
  ASSUME NEW a \in 0 .. 255, NEW b \in 0 .. 255
  PROVE  AsBytes(<<a, b>>) = Cell(a) \o Cell(b)
<1> DEFINE C(n) == [byte |-> n] S == {C(a), C(b)}
<1>1. a % 256 = a /\ b % 256 = b
  OBVIOUS
<1>2. AsBytes(<<a, b>>) = <<C(a), C(b)>>
  BY <1>1 DEF AsBytes
<1>3. Cell(a) = <<C(a)>> /\ Cell(b) = <<C(b)>>
  BY DEF Cell
<1>4. C(a) \in S /\ C(b) \in S
  OBVIOUS
<1> HIDE DEF C, S
<1>5. <<C(a), C(b)>> = <<C(a)>> \o <<C(b)>>
  BY <1>4, Tuples
<1> QED BY <1>2, <1>3, <1>5

LEMMA ThreeBytes ==
  ASSUME NEW a \in 0 .. 255, NEW b \in 0 .. 255, NEW d \in 0 .. 255
  PROVE  AsBytes(<<a, b, d>>) = Cell(a) \o (Cell(b) \o Cell(d))
<1> DEFINE C(n) == [byte |-> n] S == {C(a), C(b), C(d)}
<1>1. a % 256 = a /\ b % 256 = b /\ d % 256 = d
  OBVIOUS
<1>2. AsBytes(<<a, b, d>>) = <<C(a), C(b), C(d)>>
  BY <1>1 DEF AsBytes
<1>3. Cell(a) = <<C(a)>> /\ Cell(b) = <<C(b)>> /\ Cell(d) = <<C(d)>>
  BY DEF Cell
<1>4. C(a) \in S /\ C(b) \in S /\ C(d) \in S
  OBVIOUS
<1> HIDE DEF C, S
<1>5. <<C(b), C(d)>> = <<C(b)>> \o <<C(d)>>
  BY <1>4, Tuples
<1>6. <<C(a), C(b), C(d)>> = <<C(a)>> \o <<C(b), C(d)>>
  BY <1>4, Tuples
<1> QED BY <1>2, <1>3, <1>5, <1>6

LEMMA FourBytes ==
  ASSUME NEW s \in Seq(0 .. 255), Len(s) = 4
  PROVE  AsBytes(s) = Cell(s[1]) \o (Cell(s[2]) \o (Cell(s[3]) \o Cell(s[4])))
<1> DEFINE a == s[1] b == s[2] d == s[3] e == s[4]
<1>0. s = <<a, b, d, e>> /\ a \in 0 .. 255 /\ b \in 0 .. 255 /\ d \in 0 .. 255 /\ e \in 0 .. 255
  <2>1. a \in 0 .. 255 /\ b \in 0 .. 255 /\ d \in 0 .. 255 /\ e \in 0 .. 255
    <3>1. 1 \in 1 .. Len(s) /\ 2 \in 1 .. Len(s) /\ 3 \in 1 .. Len(s) /\ 4 \in 1 .. Len(s)
      OBVIOUS
    <3>2. \A i \in 1 .. Len(s) : s[i] \in 0 .. 255
      BY Zenon, ElementOfSeq
    <3> QED BY <3>1, <3>2
  <2> DEFINE t == <<a, b, d, e>>
  <2>2. t \in Seq(0 .. 255) /\ Len(t) = 4 /\ t[1] = a /\ t[2] = b /\ t[3] = d /\ t[4] = e
    BY <2>1
  <2> HIDE DEF t
  <2>3. ASSUME NEW i \in 1 .. 4 PROVE s[i] = t[i]
    <3>1. i = 1 \/ i = 2 \/ i = 3 \/ i = 4
      OBVIOUS
    <3> QED BY <3>1, <2>2
  <2>4. s = t
    BY <2>2, <2>3, SeqEqual
  <2> QED BY <2>1, <2>4 DEF t
<1> HIDE DEF a, b, d, e
<1> DEFINE C(n) == [byte |-> n] S == {C(a), C(b), C(d), C(e)}
<1>1. a % 256 = a /\ b % 256 = b /\ d % 256 = d /\ e % 256 = e
  BY <1>0
<1>2. AsBytes(<<a, b, d, e>>) = <<C(a), C(b), C(d), C(e)>>
  BY <1>1 DEF AsBytes
<1>3. Cell(a) = <<C(a)>> /\ Cell(b) = <<C(b)>> /\ Cell(d) = <<C(d)>> /\ Cell(e) = <<C(e)>>
  BY DEF Cell
<1>4. C(a) \in S /\ C(b) \in S /\ C(d) \in S /\ C(e) \in S
  OBVIOUS
<1> HIDE DEF C, S
<1>5. <<C(d), C(e)>> = <<C(d)>> \o <<C(e)>>
  BY <1>4, Tuples
<1>6. <<C(b), C(d), C(e)>> = <<C(b)>> \o <<C(d), C(e)>>
  BY <1>4, Tuples
<1>7. <<C(a), C(b), C(d), C(e)>> = <<C(a)>> \o <<C(b), C(d), C(e)>>
  BY <1>4, Split
<1> QED BY Zenon, <1>0, <1>2, <1>3, <1>5, <1>6, <1>7 DEF a, b, d, e

LEMMA FiveBytes ==
  ASSUME NEW s \in Seq(0 .. 255), Len(s) = 5
  PROVE  AsBytes(s) = Cell(s[1]) \o ((Cell(s[2]) \o Cell(s[3])) \o (Cell(s[4]) \o Cell(s[5])))
<1> DEFINE a == s[1] b == s[2] d == s[3] e == s[4] f == s[5]
<1>0. s = <<a, b, d, e, f>> /\ a \in 0 .. 255 /\ b \in 0 .. 255 /\ d \in 0 .. 255 /\ e \in 0 .. 255 /\ f \in 0 .. 255
  <2>1. a \in 0 .. 255 /\ b \in 0 .. 255 /\ d \in 0 .. 255 /\ e \in 0 .. 255 /\ f \in 0 .. 255
    <3>1. 1 \in 1 .. Len(s) /\ 2 \in 1 .. Len(s) /\ 3 \in 1 .. Len(s) /\ 4 \in 1 .. Len(s) /\ 5 \in 1 .. Len(s)
      OBVIOUS
    <3>2. \A i \in 1 .. Len(s) : s[i] \in 0 .. 255
      BY Zenon, ElementOfSeq
    <3> QED BY <3>1, <3>2
  <2> DEFINE t == <<a, b, d, e, f>>
  <2>2. t \in Seq(0 .. 255) /\ Len(t) = 5 /\ t[1] = a /\ t[2] = b /\ t[3] = d /\ t[4] = e /\ t[5] = f
    BY <2>1
  <2> HIDE DEF t
  <2>3. ASSUME NEW i \in 1 .. 5 PROVE s[i] = t[i]
    <3>1. i = 1 \/ i = 2 \/ i = 3 \/ i = 4 \/ i = 5
      OBVIOUS
    <3> QED BY <3>1, <2>2
  <2>4. s = t
    BY <2>2, <2>3, SeqEqual
  <2> QED BY <2>1, <2>4 DEF t
<1> HIDE DEF a, b, d, e, f
<1> DEFINE C(n) == [byte |-> n] S == {C(a), C(b), C(d), C(e), C(f)}
<1>1. a % 256 = a /\ b % 256 = b /\ d % 256 = d /\ e % 256 = e /\ f % 256 = f
  BY <1>0
<1>2. AsBytes(<<a, b, d, e, f>>) = <<C(a), C(b), C(d), C(e), C(f)>>
  BY <1>1 DEF AsBytes
<1>3. Cell(a) = <<C(a)>> /\ Cell(b) = <<C(b)>> /\ Cell(d) = <<C(d)>> /\ Cell(e) = <<C(e)>> /\ Cell(f) = <<C(f)>>
  BY DEF Cell
<1>4. C(a) \in S /\ C(b) \in S /\ C(d) \in S /\ C(e) \in S /\ C(f) \in S
  OBVIOUS
<1> HIDE DEF C, S
<1>5. <<C(b), C(d)>> = <<C(b)>> \o <<C(d)>> /\ <<C(e), C(f)>> = <<C(e)>> \o <<C(f)>>
  BY <1>4, Tuples
<1>6. <<C(b), C(d), C(e), C(f)>> = <<C(b), C(d)>> \o <<C(e), C(f)>>
  BY <1>4, Tuples
<1>7. <<C(a), C(b), C(d), C(e), C(f)>> = <<C(a)>> \o <<C(b), C(d), C(e), C(f)>>
  BY <1>4, Tuples
<1> QED BY Zenon, <1>0, <1>2, <1>3, <1>5, <1>6, <1>7 DEF a, b, d, e, f

\* readInt() reads two bytes, high byte first.
LEMMA Int2Reads ==
  ASSUME NEW buf, Len(buf) \in Nat, NEW c, NEW h \in 0 .. 255, NEW l \in 0 .. 255
  PROVE  /\ Cell(h) \o Cell(l) \in Seq(Cells)
         /\ Reads(buf, c, Cell(h) \o Cell(l), ReadInt2(buf, c), 256 * h + l, TRUE)
<1> DEFINE first == ReadByte(buf, c)
           second == ReadByte(buf, first.cursor)
           result == ReadInt2(buf, c)
           high == Cell(h)
           low == Cell(l)
           n == 256 * h + l
<1>0. high \in Seq(Cells) /\ low \in Seq(Cells)
  BY Zenon, ByteCell
<1>1. Reads(buf, c, high, first, h, TRUE) /\ \A c1 : Reads(buf, c1, low, ReadByte(buf, c1), l, TRUE)
  BY Zenon, ByteReads
<1>2. /\ first = Error => result = Error
      /\ first # Error /\ second = Error => result = Error
  BY DEF ReadInt2, Then
<1>5. first # Error /\ second # Error => result = Read(256 * first.value + second.value, second.cursor)
  BY DEF ReadInt2, Then
<1> HIDE DEF first, result, high, low
<1>3. ASSUME first = Read(h, c + Len(high))
      PROVE  Reads(buf, c + Len(high), low, result, n, TRUE)
  <2>1. first.value = h /\ first.cursor = c + Len(high) /\ first # Error
    BY <1>3, ReadIsNoError
  <2>2. Reads(buf, c + Len(high), low, second, l, TRUE)
    BY Zenon, <2>1, <1>1
  <2> HIDE DEF second
  <2>3. ASSUME second = Read(l, c + Len(high) + Len(low))
        PROVE  result = Read(n, c + Len(high) + Len(low))
    BY <2>1, <2>3, <1>5, ReadIsNoError
  <2> HIDE DEF n
  <2> QED BY Zenon, <2>1, <2>2, <2>3, <1>2, SurelyMapped
<1> HIDE DEF n
<1>4. Reads(buf, c, high \o low, result, n, TRUE)
  BY Zenon, <1>0, <1>1, <1>2, <1>3, SurelyJoined
<1>6. high \o low \in Seq(Cells)
  BY <1>0, ConcatProperties
<1> QED BY Zenon, <1>4, <1>6 DEF high, low, n, result

\* Of two halves.
Wide(high, low) == 65536 * high + low

\* readInt() reads four bytes, as a positive number.
LEMMA Int4Reads ==
  ASSUME NEW buf, Len(buf) \in Nat, NEW c,
         NEW a \in 0 .. 255, NEW b \in 0 .. 255, NEW h \in 0 .. 255, NEW l \in 0 .. 255
  PROVE  /\ (Cell(a) \o Cell(b)) \o (Cell(h) \o Cell(l)) \in Seq(Cells)
         /\ Reads(buf, c, (Cell(a) \o Cell(b)) \o (Cell(h) \o Cell(l)), ReadInt4(buf, c),
                  Wide(256 * a + b, 256 * h + l), TRUE)
<1> DEFINE high == Cell(a) \o Cell(b)
           low == Cell(h) \o Cell(l)
           first == ReadInt2(buf, c)
           second == ReadInt2(buf, first.cursor)
           result == ReadInt4(buf, c)
           p == 256 * a + b
           q == 256 * h + l
           n == Wide(p, q)
<1>0. high \in Seq(Cells) /\ low \in Seq(Cells)
  BY ZenonT(60), Int2Reads
<1>1. Reads(buf, c, high, first, p, TRUE) /\ \A c1 : Reads(buf, c1, low, ReadInt2(buf, c1), q, TRUE)
  BY ZenonT(60), Int2Reads
<1>2. /\ first = Error => result = Error
      /\ first # Error /\ second = Error => result = Error
  BY DEF ReadInt4, Then
<1>5. first # Error /\ second # Error => result = Read(Wide(first.value, second.value), second.cursor)
  BY DEF ReadInt4, Then, Wide
<1> HIDE DEF first, result, high, low, p, q
<1>3. ASSUME first = Read(p, c + Len(high))
      PROVE  Reads(buf, c + Len(high), low, result, n, TRUE)
  <2>1. first.value = p /\ first.cursor = c + Len(high) /\ first # Error
    BY <1>3, ReadIsNoError
  <2>2. Reads(buf, c + Len(high), low, second, q, TRUE)
    BY Zenon, <2>1, <1>1
  <2> HIDE DEF second
  <2>3. ASSUME second = Read(q, c + Len(high) + Len(low))
        PROVE  result = Read(n, c + Len(high) + Len(low))
    BY <2>1, <2>3, <1>5, ReadIsNoError
  <2> HIDE DEF n
  <2> QED BY Zenon, <2>1, <2>2, <2>3, <1>2, SurelyMapped
<1> HIDE DEF n
<1>4. Reads(buf, c, high \o low, result, n, TRUE)
  BY Zenon, <1>0, <1>1, <1>2, <1>3, SurelyJoined
<1>6. high \o low \in Seq(Cells)
  BY <1>0, ConcatProperties
<1> QED BY <1>4, <1>6 DEF high, low, n, p, q, result

\* readInt20() reads the four low bits of the first byte and the next two bytes.
LEMMA Int20Reads ==
  ASSUME NEW buf, Len(buf) \in Nat, NEW c,
         NEW b \in 0 .. 15, NEW h \in 0 .. 255, NEW l \in 0 .. 255
  PROVE  /\ Cell(b) \o (Cell(h) \o Cell(l)) \in Seq(Cells)
         /\ Reads(buf, c, Cell(b) \o (Cell(h) \o Cell(l)), ReadInt20(buf, c), Wide(b, 256 * h + l), TRUE)
<1> DEFINE high == Cell(b)
           low == Cell(h) \o Cell(l)
           first == ReadByte(buf, c)
           second == ReadInt2(buf, first.cursor)
           result == ReadInt20(buf, c)
           q == 256 * h + l
           n == Wide(b, q)
<1>0. high \in Seq(Cells) /\ low \in Seq(Cells) /\ b % 16 = b
  <2>1. b \in 0 .. 255 /\ b % 16 = b
    OBVIOUS
  <2>2. low \in Seq(Cells)
    BY Zenon, Int2Reads
  <2> QED BY <2>1, <2>2, ByteCell
<1>1. Reads(buf, c, high, first, b, TRUE) /\ \A c1 : Reads(buf, c1, low, ReadInt2(buf, c1), q, TRUE)
  BY ZenonT(60), ByteReads, Int2Reads
<1>2. /\ first = Error => result = Error
      /\ first # Error /\ second = Error => result = Error
  BY DEF ReadInt20, Then
<1>5. first # Error /\ second # Error =>
            result = Read(Wide(first.value % 16, second.value), second.cursor)
  BY DEF ReadInt20, Then, Wide
<1> HIDE DEF first, result, high, low, q
<1>3. ASSUME first = Read(b, c + Len(high))
      PROVE  Reads(buf, c + Len(high), low, result, n, TRUE)
  <2>1. first.value = b /\ first.cursor = c + Len(high) /\ first # Error
    BY <1>3, ReadIsNoError
  <2>2. Reads(buf, c + Len(high), low, second, q, TRUE)
    BY Zenon, <2>1, <1>1
  <2> HIDE DEF second
  <2>3. ASSUME second = Read(q, c + Len(high) + Len(low))
        PROVE  result = Read(n, c + Len(high) + Len(low))
    BY <2>1, <2>3, <1>0, <1>5, ReadIsNoError
  <2> HIDE DEF n
  <2> QED BY Zenon, <2>1, <2>2, <2>3, <1>2, SurelyMapped
<1> HIDE DEF n
<1>4. Reads(buf, c, high \o low, result, n, TRUE)
  BY Zenon, <1>0, <1>1, <1>2, <1>3, SurelyJoined
<1>6. high \o low \in Seq(Cells)
  BY <1>0, ConcatProperties
<1> QED BY Zenon, <1>4, <1>6 DEF high, low, n, q, result

\* What starts a list, and how it is read by whoever has read its first byte.
ListStart(n, tag, rest) ==
    /\ WriteListStart(n) = Cell(tag) \o rest
    /\ IsListTag(tag)
    /\ \A buf, c : Len(buf) \in Nat => Reads(buf, c, rest, ReadListSize(buf, c, tag), n, TRUE)

\* readListSize() reads what writeListStart() has written: both change width at 256.
LEMMA ListStartReads ==
  ASSUME NEW n \in Nat, n <= MaxListSize
  PROVE  \E tag \in 0 .. 255, rest \in Seq(Cells) : ListStart(n, tag, rest)
<1>1. CASE n = 0
  <2>1. AsBytes(<<0>>) = Cell(0) /\ Cell(0) \in Seq(Cells)
    BY OneByte, ByteCell
  <2>2. WriteListStart(n) = Cell(0) \o << >>
    <3>1. WriteListStart(n) = AsBytes(<<0>>)
      BY <1>1 DEF WriteListStart, TAGS
    <3> QED BY <2>1, <3>1, ConcatEmptySeq
  <2>3. IsListTag(0) /\ \A buf, c : ReadListSize(buf, c, 0) = Read(n, c)
    BY <1>1 DEF IsListTag, ReadListSize, TAGS
  <2>4. ASSUME NEW buf, NEW c, Len(buf) \in Nat PROVE Reads(buf, c, << >>, ReadListSize(buf, c, 0), n, TRUE)
    <3>1. Reads(buf, c, << >>, Read(n, c), n, TRUE)
      BY Zenon, <2>4, NothingReads
    <3> QED BY Zenon, <2>3, <3>1
  <2>5. ListStart(n, 0, << >>)
    BY Zenon, <2>2, <2>3, <2>4 DEF ListStart
  <2>6. 0 \in 0 .. 255 /\ << >> \in Seq(Cells)
    OBVIOUS
  <2> QED BY ZenonT(60), <2>5, <2>6
<1>2. CASE n \in 1 .. 255
  <2>1. n \in 0 .. 255 /\ 248 \in 0 .. 255
    BY <1>2
  <2>2. WriteListStart(n) = Cell(248) \o Cell(n)
    <3>1. WriteListStart(n) = AsBytes(<<248, n>>)
      BY <1>2 DEF WriteListStart, TAGS
    <3> QED BY ZenonT(60), <2>1, <3>1, TwoBytes
  <2>3. IsListTag(248) /\ \A buf, c : ReadListSize(buf, c, 248) = ReadByte(buf, c)
    BY DEF IsListTag, ReadListSize, TAGS
  <2>4. ASSUME NEW buf, NEW c, Len(buf) \in Nat PROVE Reads(buf, c, Cell(n), ReadListSize(buf, c, 248), n, TRUE)
    <3>1. Reads(buf, c, Cell(n), ReadByte(buf, c), n, TRUE)
      BY Zenon, <2>4, ByteReads
    <3> QED BY Zenon, <2>3, <3>1
  <2>5. ListStart(n, 248, Cell(n))
    BY Zenon, <2>2, <2>3, <2>4 DEF ListStart
  <2> QED BY ZenonT(60), <2>1, <2>5, ByteCell
<1>3. CASE n >= 256
  <2> DEFINE h == ByteAt(n, 256) l == ByteAt(n, 1)
  <2>0. h \in 0 .. 255 /\ l \in 0 .. 255 /\ 256 * h + l = n
    BY <1>3, SMT DEF ByteAt, MaxListSize
  <2>1. WriteListStart(n) = Cell(249) \o (Cell(h) \o Cell(l))
    <3>1. WriteListStart(n) = AsBytes(<<249, h, l>>)
      <4>1. n # 0 /\ ~(n \in 1 .. 255)
        BY <1>3
      <4> QED BY <4>1 DEF WriteListStart, TAGS
    <3> HIDE DEF h, l
    <3>2. 249 \in 0 .. 255
      OBVIOUS
    <3>3. AsBytes(<<249, h, l>>) = Cell(249) \o (Cell(h) \o Cell(l))
      <4> DEFINE t == 249
      <4>1. t \in 0 .. 255 /\ h \in 0 .. 255 /\ l \in 0 .. 255
        BY <3>2, <2>0
      <4> HIDE DEF t
      <4>2. AsBytes(<<t, h, l>>) = Cell(t) \o (Cell(h) \o Cell(l))
        BY ZenonT(60), <4>1, ThreeBytes
      <4> QED BY <4>2 DEF t
    <3> QED BY Zenon, <3>1, <3>3
  <2>2. IsListTag(249) /\ \A buf, c : ReadListSize(buf, c, 249) = ReadInt2(buf, c)
    BY DEF IsListTag, ReadListSize, TAGS
  <2> HIDE DEF h, l
  <2>3. ASSUME NEW buf, NEW c, Len(buf) \in Nat
        PROVE  Reads(buf, c, Cell(h) \o Cell(l), ReadListSize(buf, c, 249), n, TRUE)
    <3>1. Reads(buf, c, Cell(h) \o Cell(l), ReadInt2(buf, c), 256 * h + l, TRUE)
      BY Zenon, <2>0, <2>3, Int2Reads
    <3> QED BY Zenon, <2>0, <2>2, <3>1
  <2>4. ListStart(n, 249, Cell(h) \o Cell(l))
    BY Zenon, <2>1, <2>2, <2>3 DEF ListStart
  <2>5. 249 \in 0 .. 255 /\ Cell(h) \o Cell(l) \in Seq(Cells)
    <3>1. Cell(h) \in Seq(Cells) /\ Cell(l) \in Seq(Cells)
      BY Zenon, <2>0, ByteCell
    <3> QED BY <3>1, ConcatProperties
  <2> QED BY Zenon, <2>4, <2>5
<1>4. n = 0 \/ n \in 1 .. 255 \/ n >= 256
  OBVIOUS
<1> QED BY <1>1, <1>2, <1>3, <1>4

\* A length has 31 bits.
LEMMA MaxLengthBound ==
  MaxLength \in Nat /\ MaxLength < 256 * 16777216
BY SMT DEF MaxLength

\* readBytes() takes as many bytes as it asks for, or fails.
LEMMA BlockReads ==
  ASSUME NEW block \in Blocks, NEW buf, Len(buf) \in Nat, NEW c
  PROVE  LET cells == IF block.len = 0 THEN << >> ELSE <<block>>
         IN  /\ cells \in Seq(Cells)
             /\ Reads(buf, c, cells, ReadBytes(buf, c, block.len), block, TRUE)
<1>0. block.len \in Nat /\ (block.len = 0 => block.data = << >>) /\ block = [len |-> block.len, data |-> block.data]
  BY MaxLengthBound DEF Blocks
<1>1. CASE block.len = 0
  <2>1. block = [len |-> 0, data |-> << >>]
    BY <1>0, <1>1
  <2>2. ReadBytes(buf, c, block.len) = Read(block, c)
    BY <1>1, <2>1 DEF ReadBytes
  <2>3. << >> \in Seq(Cells)
    OBVIOUS
  <2> QED BY Zenon, <1>1, <2>2, <2>3, NothingReads
<1>2. CASE block.len # 0
  <2>1. block \in Cells /\ <<block>> \in Seq(Cells) /\ Len(<<block>>) = 1 /\ <<block>>[1] = block
        /\ "len" \in DOMAIN block
    BY <1>0 DEF Cells
  <2> DEFINE cells == <<block>>
  <2> HIDE DEF cells
  <2>2. ASSUME Stands(buf, c, cells)
        PROVE  ReadBytes(buf, c, block.len) = Read(block, c + Len(cells))
    <3>1. c \in 1 .. Len(buf) /\ buf[c + 1 - 1] = block /\ c + 1 - 1 = c
      BY <2>1, <2>2 DEF Stands, cells
    <3>2. c <= Len(buf) /\ buf[c] = block
      BY <3>1
    <3> QED BY <1>2, <2>1, <3>2 DEF ReadBytes, cells
  <2>3. ASSUME Broken(buf, c, cells)
        PROVE  ReadBytes(buf, c, block.len) = Error
    <3>1. CASE Len(buf) + 1 < c + 1
      <4>1. c \in Int
        BY <2>3 DEF Broken
      <4>2. ~(c <= Len(buf))
        BY <3>1, <4>1
      <4> QED BY <4>2, <1>2 DEF ReadBytes
    <3>2. CASE Len(buf) + 1 = c + 1 /\ buf[Len(buf)] = Shortened(block)
      <4>1. c = Len(buf)
        BY <3>2, <2>3 DEF Broken
      <4>2. Shortened(block).len = block.len - 1 /\ block.len - 1 # block.len
        BY <1>0, <2>1 DEF Shortened
      <4>3. buf[c].len # block.len
        BY <3>2, <4>1, <4>2
      <4> QED BY <1>2, <4>3 DEF ReadBytes
    <3> QED BY <3>1, <3>2, <2>1, <2>3 DEF Broken, cells
  <2> QED BY <1>2, <2>1, <2>2, <2>3 DEF Reads, cells
<1> QED BY Zenon, <1>1, <1>2

\* A length, and how it is read by whoever has read its first byte.
ReadLength(buf, c, tag) ==
    CASE tag = TAGS.BINARY_8 -> ReadByte(buf, c)
      [] tag = TAGS.BINARY_20 -> ReadInt20(buf, c)
      [] tag = TAGS.BINARY_32 -> ReadInt4(buf, c)

Length(n, tag, rest) ==
    /\ WriteByteLength(n) = Cell(tag) \o rest
    /\ IsBinaryTag(tag)
    /\ \A buf, c : Len(buf) \in Nat => Reads(buf, c, rest, ReadLength(buf, c, tag), n, TRUE)

\* A length is read as written, in each of its three widths.
LEMMA LengthReads ==
  ASSUME NEW n \in Nat, n <= MaxLength
  PROVE  \E tag \in 0 .. 255, rest \in Seq(Cells) : Length(n, tag, rest)
<1>1. CASE n < 256
  <2>1. n \in 0 .. 255 /\ 252 \in 0 .. 255
    BY <1>1
  <2>2. WriteByteLength(n) = Cell(252) \o Cell(n)
    <3>1. WriteByteLength(n) = AsBytes(<<252, n>>)
      BY <1>1, SMT DEF WriteByteLength, TAGS
    <3> QED BY ZenonT(60), <2>1, <3>1, TwoBytes
  <2>3. IsBinaryTag(252) /\ \A buf, c : ReadLength(buf, c, 252) = ReadByte(buf, c)
    BY DEF IsBinaryTag, ReadLength, TAGS
  <2>4. ASSUME NEW buf, NEW c, Len(buf) \in Nat PROVE Reads(buf, c, Cell(n), ReadLength(buf, c, 252), n, TRUE)
    <3>1. Reads(buf, c, Cell(n), ReadByte(buf, c), n, TRUE)
      BY Zenon, <2>4, ByteReads
    <3> QED BY Zenon, <2>3, <3>1
  <2>5. Length(n, 252, Cell(n))
    BY Zenon, <2>2, <2>3, <2>4 DEF Length
  <2> QED BY ZenonT(60), <2>1, <2>5, ByteCell
<1>2. CASE 256 <= n /\ n < 1048576
  <2> DEFINE b == ByteAt(n, 65536) % 16 h == ByteAt(n, 256) l == ByteAt(n, 1)
  <2>1. b \in 0 .. 15 /\ h \in 0 .. 255 /\ l \in 0 .. 255 /\ Wide(b, 256 * h + l) = n
    BY <1>2, SMT DEF ByteAt, Wide
  <2>2. WriteByteLength(n) = AsBytes(<<253, b, h, l>>)
    BY <1>2, SMT DEF WriteByteLength, TAGS
  <2> HIDE DEF b, h, l
  <2>3. WriteByteLength(n) = Cell(253) \o (Cell(b) \o (Cell(h) \o Cell(l)))
    <3>1. 253 \in 0 .. 255 /\ b \in 0 .. 255
      BY <2>1
    <3>2. AsBytes(<<253, b, h, l>>) = Cell(253) \o (Cell(b) \o (Cell(h) \o Cell(l)))
      <4> DEFINE t == 253
      <4>1. t \in 0 .. 255 /\ b \in 0 .. 255 /\ h \in 0 .. 255 /\ l \in 0 .. 255
        BY <2>1, <3>1
      <4> HIDE DEF t
      <4>3. <<t, b, h, l>> \in Seq(0 .. 255) /\ Len(<<t, b, h, l>>) = 4
        BY <4>1
      <4>2. AsBytes(<<t, b, h, l>>) = Cell(t) \o (Cell(b) \o (Cell(h) \o Cell(l)))
        BY Zenon, <4>1, <4>3, FourBytes
      <4> QED BY Zenon, <4>2 DEF t
    <3> QED BY Zenon, <2>2, <3>2
  <2>4. IsBinaryTag(253) /\ \A buf, c : ReadLength(buf, c, 253) = ReadInt20(buf, c)
    BY DEF IsBinaryTag, ReadLength, TAGS
  <2>5. ASSUME NEW buf, NEW c, Len(buf) \in Nat
        PROVE  Reads(buf, c, Cell(b) \o (Cell(h) \o Cell(l)), ReadLength(buf, c, 253), n, TRUE)
    <3>1. Reads(buf, c, Cell(b) \o (Cell(h) \o Cell(l)), ReadInt20(buf, c), Wide(b, 256 * h + l), TRUE)
      BY ZenonT(60), <2>1, <2>5, Int20Reads
    <3> QED BY Zenon, <2>1, <2>4, <3>1
  <2>6. Length(n, 253, Cell(b) \o (Cell(h) \o Cell(l)))
    BY Zenon, <2>3, <2>4, <2>5 DEF Length
  <2>7. 253 \in 0 .. 255 /\ Cell(b) \o (Cell(h) \o Cell(l)) \in Seq(Cells)
    <3>1. b \in 0 .. 255
      BY <2>1
    <3>2. Cell(b) \in Seq(Cells) /\ Cell(h) \in Seq(Cells) /\ Cell(l) \in Seq(Cells)
      BY Zenon, <2>1, <3>1, ByteCell
    <3> QED BY <3>2, ConcatProperties
  <2> QED BY Zenon, <2>6, <2>7
<1>3. CASE n >= 1048576
  <2> DEFINE a == ByteAt(n, 16777216) b == ByteAt(n, 65536) h == ByteAt(n, 256) l == ByteAt(n, 1)
  <2>1. /\ a \in 0 .. 255 /\ b \in 0 .. 255 /\ h \in 0 .. 255 /\ l \in 0 .. 255
        /\ Wide(256 * a + b, 256 * h + l) = n
    <3> DEFINE p == n \div 65536 r == n \div 16777216
    <3>1. r \in 0 .. 255 /\ a = r
      BY MaxLengthBound, SMT DEF ByteAt
    <3>2. b \in 0 .. 255 /\ p = 256 * r + b
      BY SMT DEF ByteAt
    <3>3. h \in 0 .. 255 /\ l \in 0 .. 255 /\ n = 65536 * p + (256 * h + l)
      BY SMT DEF ByteAt
    <3> HIDE DEF a, b, h, l, p, r
    <3>4. 256 * a + b = p /\ Wide(p, 256 * h + l) = n
      BY <3>1, <3>2, <3>3, SMT DEF Wide
    <3>5. a \in 0 .. 255
      BY <3>1
    <3> QED BY <3>2, <3>3, <3>4, <3>5, SMT
  <2>2. WriteByteLength(n) = AsBytes(<<254, a, b, h, l>>)
    BY <1>3, SMT DEF WriteByteLength, TAGS
  <2> HIDE DEF a, b, h, l
  <2>3. WriteByteLength(n) = Cell(254) \o ((Cell(a) \o Cell(b)) \o (Cell(h) \o Cell(l)))
    <3>1. 254 \in 0 .. 255
      OBVIOUS
    <3>2. AsBytes(<<254, a, b, h, l>>) = Cell(254) \o ((Cell(a) \o Cell(b)) \o (Cell(h) \o Cell(l)))
      <4> DEFINE t == 254
      <4>1. t \in 0 .. 255 /\ a \in 0 .. 255 /\ b \in 0 .. 255 /\ h \in 0 .. 255 /\ l \in 0 .. 255
        BY <2>1, <3>1
      <4> HIDE DEF t
      <4>3. <<t, a, b, h, l>> \in Seq(0 .. 255) /\ Len(<<t, a, b, h, l>>) = 5
        BY <4>1
      <4>2. AsBytes(<<t, a, b, h, l>>) = Cell(t) \o ((Cell(a) \o Cell(b)) \o (Cell(h) \o Cell(l)))
        BY Zenon, <4>1, <4>3, FiveBytes
      <4> QED BY Zenon, <4>2 DEF t
    <3> QED BY Zenon, <2>2, <3>2
  <2>4. IsBinaryTag(254) /\ \A buf, c : ReadLength(buf, c, 254) = ReadInt4(buf, c)
    BY DEF IsBinaryTag, ReadLength, TAGS
  <2>5. ASSUME NEW buf, NEW c, Len(buf) \in Nat
        PROVE  Reads(buf, c, (Cell(a) \o Cell(b)) \o (Cell(h) \o Cell(l)), ReadLength(buf, c, 254), n, TRUE)
    <3>0. a \in 0 .. 255 /\ b \in 0 .. 255 /\ h \in 0 .. 255 /\ l \in 0 .. 255
      BY <2>1
    <3>1. Reads(buf, c, (Cell(a) \o Cell(b)) \o (Cell(h) \o Cell(l)), ReadInt4(buf, c),
                Wide(256 * a + b, 256 * h + l), TRUE)
      BY ZenonT(60), <3>0, <2>5, Int4Reads
    <3> QED BY Zenon, <2>1, <2>4, <3>1
  <2>6. Length(n, 254, (Cell(a) \o Cell(b)) \o (Cell(h) \o Cell(l)))
    BY Zenon, <2>3, <2>4, <2>5 DEF Length
  <2>7. 254 \in 0 .. 255 /\ (Cell(a) \o Cell(b)) \o (Cell(h) \o Cell(l)) \in Seq(Cells)
    <3>1. Cell(a) \in Seq(Cells) /\ Cell(b) \in Seq(Cells) /\ Cell(h) \in Seq(Cells) /\ Cell(l) \in Seq(Cells)
      BY Zenon, <2>1, ByteCell
    <3> QED BY <3>1, ConcatProperties
  <2> QED BY Zenon, <2>6, <2>7
<1> QED BY <1>1, <1>2, <1>3, SMT

\* Bytes, and how they are read by whoever has read the first of their length.
Binary(block, tag, rest) ==
    /\ WriteBytes(block) = Cell(tag) \o rest
    /\ IsBinaryTag(tag)
    /\ \A buf, c : Len(buf) \in Nat => Reads(buf, c, rest, ReadBinary(buf, c, tag), block, TRUE)

\* A buffer is read as written, its length first.
LEMMA BytesRead ==
  ASSUME NEW block \in Blocks
  PROVE  \E tag \in 0 .. 255, rest \in Seq(Cells) : Binary(block, tag, rest)
<1> DEFINE n == block.len
           cells == IF block.len = 0 THEN << >> ELSE <<block>>
<1>0. n \in Nat /\ n <= MaxLength
  BY MaxLengthBound DEF Blocks
<1>1. cells \in Seq(Cells)
  <2>1. CASE block.len = 0
    BY <2>1
  <2>2. CASE block.len # 0
    <3>1. block \in Cells
      BY DEF Cells
    <3> QED BY <2>2, <3>1
  <2> QED BY <2>1, <2>2
<1>6. \A buf, c : Len(buf) \in Nat => Reads(buf, c, cells, ReadBytes(buf, c, n), block, TRUE)
  BY Zenon, BlockReads
<1>2. WriteBytes(block) = WriteByteLength(n) \o cells
  BY DEF WriteBytes
<1> HIDE DEF cells, n
<1>3. PICK tag \in 0 .. 255, length \in Seq(Cells) : Length(n, tag, length)
  BY Zenon, <1>0, LengthReads
<1>4. WriteBytes(block) = Cell(tag) \o (length \o cells) /\ length \o cells \in Seq(Cells)
  <2>1. WriteByteLength(n) = Cell(tag) \o length /\ Cell(tag) \in Seq(Cells)
    BY Zenon, <1>3, ByteCell DEF Length
  <2>2. length \o cells \in Seq(Cells)
    BY <1>1, ConcatProperties
  <2>3. (Cell(tag) \o length) \o cells = Cell(tag) \o (length \o cells)
    BY SMTT(30), <1>1, <2>1, ConcatAssociative
  <2> QED BY <1>2, <2>1, <2>2, <2>3
<1>5. ASSUME NEW buf, NEW c, Len(buf) \in Nat
      PROVE  Reads(buf, c, length \o cells, ReadBinary(buf, c, tag), block, TRUE)
  <2> DEFINE first == ReadLength(buf, c, tag)
             result == ReadBinary(buf, c, tag)
  <2>1. Reads(buf, c, length, first, n, TRUE)
    BY Zenon, <1>3, <1>5 DEF Length
  <2>2. /\ first = Error => result = Error
        /\ first # Error => result = ReadBytes(buf, first.cursor, first.value)
    BY Zenon DEF ReadBinary, ReadLength, Then
  <2> HIDE DEF first, result
  <2>3. ASSUME first = Read(n, c + Len(length))
        PROVE  Reads(buf, c + Len(length), cells, result, block, TRUE)
    <3>1. first # Error /\ first.value = n /\ first.cursor = c + Len(length)
      BY <2>3, ReadIsNoError
    <3> QED BY Zenon, <3>1, <2>2, <1>5, <1>6
  <2>4. Reads(buf, c, length \o cells, result, block, TRUE)
    BY Zenon, <1>1, <1>5, <2>1, <2>2, <2>3, SurelyJoined
  <2> QED BY Zenon, <2>4 DEF result
<1>7. Binary(block, tag, length \o cells)
  BY Zenon, <1>3, <1>4, <1>5 DEF Binary, Length
<1> QED BY Zenon, <1>4, <1>7

(* Packed strings.                                                          *)

\* A nibble has room for each of the characters.
LEMMA PackedChars ==
  ASSUME NEW chars \in {NibbleChars, HexChars}
  PROVE  DOMAIN chars = 1 .. Len(chars) /\ Len(chars) \in 10 .. 16
<1> DEFINE signs == <<"-", ".">> letters == <<"A", "B", "C", "D", "E", "F">>
           S == ToSet(Digits) \cup ToSet(signs) \cup ToSet(letters)
<1>1. Digits \in Seq(S) /\ Len(Digits) = 10
  <2>1. Len(Digits) = 10 /\ DOMAIN Digits = 1 .. 10 /\ Digits = [i \in 1 .. 10 |-> Digits[i]]
    BY DEF Digits
  <2>2. \A i \in DOMAIN Digits : Digits[i] \in S
    BY DEF ToSet
  <2> HIDE DEF S
  <2> QED BY <2>1, <2>2
<1>2. signs \in Seq(S) /\ Len(signs) = 2
  <2>1. Len(signs) = 2 /\ DOMAIN signs = 1 .. 2 /\ signs = [i \in 1 .. 2 |-> signs[i]]
    OBVIOUS
  <2>2. \A i \in DOMAIN signs : signs[i] \in S
    BY DEF ToSet
  <2> HIDE DEF S, signs
  <2> QED BY <2>1, <2>2
<1>3. letters \in Seq(S) /\ Len(letters) = 6
  <2>1. Len(letters) = 6 /\ DOMAIN letters = 1 .. 6 /\ letters = [i \in 1 .. 6 |-> letters[i]]
    OBVIOUS
  <2>2. \A i \in DOMAIN letters : letters[i] \in S
    BY DEF ToSet
  <2> HIDE DEF S, letters
  <2> QED BY <2>1, <2>2
<1> HIDE DEF S
<1>4. NibbleChars = Digits \o signs /\ HexChars = Digits \o letters
  BY DEF NibbleChars, HexChars
<1> HIDE DEF signs, letters
<1>5. NibbleChars \in Seq(S) /\ Len(NibbleChars) = Len(Digits) + Len(signs)
  BY Zenon, <1>1, <1>2, <1>4, ConcatProperties
<1>6. HexChars \in Seq(S) /\ Len(HexChars) = Len(Digits) + Len(letters)
  BY Zenon, <1>1, <1>3, <1>4, ConcatProperties
<1> QED BY <1>1, <1>2, <1>3, <1>5, <1>6

PackedHalf(s, chars, i) == IF i > Len(s) THEN 15 ELSE IndexOf(chars, s[i])

PackedSize(s) == (Len(s) + 1) \div 2

PackedBody(s, chars) ==
    [i \in 1 .. PackedSize(s) |-> [byte |-> 16 * PackedHalf(s, chars, 2 * i - 1) + PackedHalf(s, chars, 2 * i)]]

\* Two nibbles make a byte, and a byte two nibbles.
LEMMA PackedHalves ==
  ASSUME NEW s \in Strings, NEW chars \in {NibbleChars, HexChars}, CanPack(s, chars)
  PROVE  /\ \A i \in Nat : PackedHalf(s, chars, i + 1) \in 0 .. 15
         /\ \A i \in 1 .. Len(s) :
                PackedHalf(s, chars, i) \in 0 .. Len(chars) - 1 /\ chars[PackedHalf(s, chars, i) + 1] = s[i]
<1>1. s \in Seq(Symbols) /\ Len(s) \in Nat
  BY StringLengths
<1>2. Len(chars) \in 10 .. 16 /\ DOMAIN chars = 1 .. Len(chars)
  BY Zenon, PackedChars
<1>3. ASSUME NEW i \in 1 .. Len(s)
      PROVE  PackedHalf(s, chars, i) \in 0 .. Len(chars) - 1 /\ chars[PackedHalf(s, chars, i) + 1] = s[i]
  <2>1. \E k \in DOMAIN chars : chars[k] = s[i]
    <3>1. s[i] \in ToSet(s)
      BY <1>1 DEF ToSet
    <3> QED BY <3>1 DEF CanPack, ToSet
  <2> DEFINE k == CHOOSE j \in DOMAIN chars : chars[j] = s[i]
  <2>2. k \in DOMAIN chars /\ chars[k] = s[i]
    BY <2>1
  <2>3. PackedHalf(s, chars, i) = k - 1
    BY <1>1 DEF PackedHalf, IndexOf
  <2> HIDE DEF k
  <2> QED BY <1>2, <2>2, <2>3
<1>4. ASSUME NEW i \in Nat PROVE PackedHalf(s, chars, i + 1) \in 0 .. 15
  <2>1. CASE i + 1 > Len(s)
    BY <2>1 DEF PackedHalf
  <2>2. CASE ~(i + 1 > Len(s))
    <3>1. i + 1 \in 1 .. Len(s)
      BY <2>2, <1>1
    <3>2. PackedHalf(s, chars, i + 1) \in 0 .. Len(chars) - 1
      BY <3>1, <1>3
    <3> DEFINE h == PackedHalf(s, chars, i + 1) l == Len(chars)
    <3>3. h \in 0 .. l - 1 /\ l \in 10 .. 16
      BY Zenon, <3>2, <1>2
    <3> HIDE DEF h, l
    <3>4. h \in 0 .. 15
      BY <3>3
    <3> QED BY <3>4 DEF h
  <2> QED BY <2>1, <2>2
<1> QED BY <1>3, <1>4

\* The byte with the number of bytes of a packed string, and the parity of its characters.
LEMMA PackedSizes ==
  ASSUME NEW s \in Strings, NEW chars, CanPack(s, chars)
  PROVE  /\ PackedSize(s) \in 1 .. 127
         /\ Len(s) = 2 * PackedSize(s) - (Len(s) % 2)
         /\ Len(s) % 2 \in {0, 1}
<1>1. Len(s) \in 1 .. 254
  <2>1. s \in Seq(Symbols) /\ s # << >> /\ Len(s) <= 254
    BY StringLengths DEF CanPack, TAGS
  <2> DEFINE l == Len(s)
  <2>2. l \in Nat /\ l # 0 /\ l <= 254
    BY <2>1
  <2> HIDE DEF l
  <2>3. l \in 1 .. 254
    BY <2>2
  <2> QED BY <2>3 DEF l
<1> DEFINE l == Len(s)
<1> HIDE DEF l
<1>2. l \in 1 .. 254
  BY <1>1 DEF l
<1>3. (l + 1) \div 2 \in 1 .. 127 /\ l = 2 * ((l + 1) \div 2) - (l % 2) /\ l % 2 \in {0, 1}
  BY <1>2
<1> QED BY <1>3 DEF PackedSize, l

\* What writePackedBytes() writes, byte by byte.
LEMMA PackedWritten ==
  ASSUME NEW s \in Strings, NEW chars \in {NibbleChars, HexChars}, CanPack(s, chars), NEW tag \in 0 .. 255
  PROVE  LET start == PackedSize(s) + 128 * (Len(s) % 2)
         IN  /\ start \in 0 .. 255 /\ start % 128 = PackedSize(s) /\ (start >= 128 <=> Len(s) % 2 = 1)
             /\ PackedBody(s, chars) \in Seq(Cells)
             /\ WritePackedBytes(s, tag, chars) = Cell(tag) \o (Cell(start) \o PackedBody(s, chars))
<1> DEFINE start == PackedSize(s) + 128 * (Len(s) % 2)
           n == PackedSize(s)
           H(i) == PackedHalf(s, chars, i)
           body == PackedBody(s, chars)
           B(i) == 16 * H(2 * i - 1) + H(2 * i)
           list == [i \in 1 .. n |-> B(i)]
           head == <<tag, start>>
<1>1. n \in 1 .. 127 /\ Len(s) % 2 \in {0, 1}
  BY PackedSizes
<1>2. start \in 0 .. 255 /\ start % 128 = n /\ (start >= 128 <=> Len(s) % 2 = 1)
  <2> DEFINE odd == Len(s) % 2
  <2>1. odd \in {0, 1}
    BY <1>1
  <2> HIDE DEF odd, n
  <2>2. n + 128 * odd \in 0 .. 255 /\ (n + 128 * odd) % 128 = n /\ (n + 128 * odd >= 128 <=> odd = 1)
    <3>1. CASE odd = 0
      BY <3>1, <1>1
    <3>2. CASE odd = 1
      BY <3>2, <1>1
    <3> QED BY <2>1, <3>1, <3>2
  <2> QED BY <2>2 DEF odd, n
<1>3. ASSUME NEW i \in 1 .. n PROVE B(i) \in 0 .. 255
  <2>1. 2 * i - 2 \in Nat /\ 2 * i - 1 \in Nat /\ 2 * i - 2 + 1 = 2 * i - 1 /\ 2 * i - 1 + 1 = 2 * i
    BY <1>1
  <2>2. H(2 * i - 2 + 1) \in 0 .. 15 /\ H(2 * i - 1 + 1) \in 0 .. 15
    BY ZenonT(60), <2>1, PackedHalves
  <2>3. H(2 * i - 1) \in 0 .. 15 /\ H(2 * i) \in 0 .. 15
    BY <2>1, <2>2
  <2> HIDE DEF H
  <2> QED BY <2>3
<1>4. WritePackedBytes(s, tag, chars) = AsBytes(head \o list)
  BY DEF WritePackedBytes, PackedSize, PackedHalf
<1>5. body = [i \in 1 .. n |-> [byte |-> B(i)]]
  BY DEF PackedBody
<1> HIDE DEF B, n, start, body
<1>6. body \in Seq(Cells) /\ Len(body) = n /\ list \in Seq(0 .. 255) /\ Len(list) = n
  <2>1. \A i \in 1 .. n : [byte |-> B(i)] \in Cells
    BY <1>3 DEF Cells
  <2> QED BY <1>1, <1>3, <1>5, <2>1
<1>7. head \in Seq(0 .. 255) /\ Len(head) = 2 /\ head[1] = tag /\ head[2] = start
  BY <1>2
<1>8. \A i \in 1 .. n : list[i] = B(i) /\ body[i] = [byte |-> B(i)]
  BY <1>5
<1> HIDE DEF list, head
<1>9. /\ head \o list \in Seq(0 .. 255) /\ Len(head \o list) = n + 2
      /\ (head \o list)[1] = tag /\ (head \o list)[2] = start
      /\ \A i \in 1 .. n : (head \o list)[2 + i] = B(i)
  <2>1. head \o list \in Seq(0 .. 255) /\ Len(head \o list) = Len(head) + Len(list)
    BY ZenonT(60), <1>6, <1>7, ConcatProperties
  <2>2. \A i \in 1 .. Len(head) + Len(list) :
            (head \o list)[i] = IF i <= Len(head) THEN head[i] ELSE list[i - Len(head)]
    BY Zenon, <1>6, <1>7, ConcatProperties
  <2>3. 1 \in 1 .. Len(head) + Len(list) /\ 2 \in 1 .. Len(head) + Len(list)
    BY <1>1, <1>6, <1>7
  <2>4. ASSUME NEW i \in 1 .. n PROVE (head \o list)[2 + i] = B(i)
    <3>1. 2 + i \in 1 .. Len(head) + Len(list) /\ ~(2 + i <= Len(head)) /\ 2 + i - Len(head) = i
      BY <1>1, <1>6, <1>7
    <3>2. (head \o list)[2 + i] = list[2 + i - Len(head)]
      BY <2>2, <3>1
    <3> QED BY Zenon, <1>8, <3>1, <3>2
  <2>5. Len(head) + Len(list) = n + 2
    BY <1>1, <1>6, <1>7
  <2>6. (head \o list)[1] = head[1] /\ (head \o list)[2] = head[2]
    <3>1. 1 <= Len(head) /\ 2 <= Len(head)
      BY <1>7
    <3> QED BY <2>2, <2>3, <3>1
  <2> QED BY Zenon, <1>7, <2>1, <2>4, <2>5, <2>6
<1> DEFINE all == AsBytes(head \o list)
           first == Cell(tag)
           rest == Cell(start) \o body
<1>10. /\ all \in Seq(Cells) /\ Len(all) = n + 2
       /\ all[1] = [byte |-> tag] /\ all[2] = [byte |-> start]
       /\ \A i \in 1 .. n : all[2 + i] = [byte |-> B(i)]
  <2> DEFINE t == head \o list
  <2>1. /\ t \in Seq(0 .. 255) /\ Len(t) = n + 2 /\ t[1] = tag /\ t[2] = start
        /\ \A i \in 1 .. n : t[2 + i] = B(i)
    BY Zenon, <1>9
  <2>2. \A i \in 1 .. Len(t) : t[i] \in 0 .. 255
    BY Zenon, <2>1, ElementOfSeq
  <2> HIDE DEF t
  <2>3. AsBytes(t) = [i \in 1 .. n + 2 |-> [byte |-> t[i] % 256]]
    BY <2>1 DEF AsBytes
  <2>4. ASSUME NEW i \in 1 .. n + 2 PROVE t[i] % 256 = t[i] /\ [byte |-> t[i]] \in Cells
    <3>1. t[i] \in 0 .. 255
      BY Zenon, <2>1, <2>2
    <3> QED BY <3>1 DEF Cells
  <2>8. n + 2 \in Nat
    BY <1>1
  <2>5. AsBytes(t) \in Seq(Cells) /\ Len(AsBytes(t)) = n + 2 /\ \A i \in 1 .. n + 2 : AsBytes(t)[i] = [byte |-> t[i]]
    <3>1. AsBytes(t) = [i \in 1 .. n + 2 |-> [byte |-> t[i]]]
      BY <2>3, <2>4
    <3>2. AsBytes(t) \in [1 .. n + 2 -> Cells]
      BY <2>4, <3>1
    <3>3. AsBytes(t) \in Seq(Cells) /\ Len(AsBytes(t)) = n + 2
      BY <2>8, <3>2
    <3> QED BY Zenon, <3>1, <3>3
  <2>6. \A i \in 1 .. n : 2 + i \in 1 .. n + 2
    BY <1>1
  <2>7. 1 \in 1 .. n + 2 /\ 2 \in 1 .. n + 2
    BY <1>1
  <2> QED BY Zenon, <2>1, <2>5, <2>6, <2>7 DEF t
<1> HIDE DEF all
<1>11. Cell(start) \in Seq(Cells) /\ first \in Seq(Cells) /\ Len(Cell(start)) = 1 /\ Len(first) = 1
       /\ Cell(start)[1] = [byte |-> start] /\ first[1] = [byte |-> tag]
  BY Zenon, <1>2, ByteCell DEF Cell
<1>12. /\ rest \in Seq(Cells) /\ Len(rest) = n + 1 /\ rest[1] = [byte |-> start]
       /\ \A i \in 1 .. n : rest[1 + i] = body[i]
  <2>1. /\ rest \in Seq(Cells) /\ Len(rest) = Len(Cell(start)) + Len(body)
        /\ \A i \in 1 .. Len(Cell(start)) + Len(body) :
              rest[i] = IF i <= Len(Cell(start)) THEN Cell(start)[i] ELSE body[i - Len(Cell(start))]
    BY Zenon, <1>6, <1>11, ConcatProperties
  <2>2. rest[1] = [byte |-> start]
    <3>1. 1 \in 1 .. Len(Cell(start)) + Len(body) /\ 1 <= Len(Cell(start))
      BY <1>1, <1>6, <1>11
    <3> QED BY <2>1, <3>1, <1>11
  <2>3. ASSUME NEW i \in 1 .. n PROVE rest[1 + i] = body[i]
    <3>1. 1 + i \in 1 .. Len(Cell(start)) + Len(body) /\ ~(1 + i <= Len(Cell(start))) /\ 1 + i - Len(Cell(start)) = i
      BY <1>1, <1>6, <1>11
    <3>2. rest[1 + i] = body[1 + i - Len(Cell(start))]
      BY <2>1, <3>1
    <3> QED BY <3>1, <3>2
  <2> HIDE DEF rest
  <2> QED BY <1>1, <1>6, <1>11, <2>1, <2>2, <2>3
<1> HIDE DEF first, rest
<1>13. all = first \o rest
  <2>1. Len(all) = Len(first) + Len(rest)
    BY <1>1, <1>10, <1>11, <1>12
  <2>2. ASSUME NEW i \in 1 .. Len(first) PROVE all[i] = first[i]
    <3>1. i = 1
      BY <1>11
    <3> QED BY <3>1, <1>10, <1>11
  <2>3. ASSUME NEW i \in 1 .. Len(rest) PROVE all[Len(first) + i] = rest[i]
    <3>1. CASE i = 1
      BY <3>1, <1>10, <1>11, <1>12
    <3>2. CASE i # 1
      <4>1. i - 1 \in 1 .. n /\ 1 + (i - 1) = i /\ 2 + (i - 1) = 1 + i
        BY <3>2, <1>1, <1>12
      <4>2. rest[1 + (i - 1)] = body[i - 1] /\ all[2 + (i - 1)] = [byte |-> B(i - 1)]
            /\ body[i - 1] = [byte |-> B(i - 1)]
        BY <4>1, <1>8, <1>10, <1>12
      <4> QED BY <4>1, <4>2, <1>11
    <3> QED BY <3>1, <3>2
  <2> QED BY Zenon, <1>10, <1>11, <1>12, <2>1, <2>2, <2>3, Split
<1> QED BY <1>2, <1>4, <1>6, <1>13 DEF first, rest, all, start, n, body

Unpacked(s, chars) ==
    LET Char(v) == IF v < Len(chars) THEN chars[v + 1] ELSE "NUL"
    IN  [i \in 1 .. 2 * PackedSize(s) |-> Char(PackedHalf(s, chars, i))]

\* The nibbles are read as written, the padding too.
LEMMA UnpackReads ==
  ASSUME NEW s \in Strings, NEW chars \in {NibbleChars, HexChars}, CanPack(s, chars),
         NEW buf, Len(buf) \in Nat, NEW c
  PROVE  Reads(buf, c, PackedBody(s, chars), UnpackBytes(buf, c, PackedSize(s), chars), Unpacked(s, chars), TRUE)
<1> DEFINE n == PackedSize(s)
           H(i) == PackedHalf(s, chars, i)
           body == PackedBody(s, chars)
           Half(i) == IF i % 2 = 1 THEN buf[c + i \div 2].byte \div 16
                                   ELSE buf[c + i \div 2 - 1].byte % 16
           Char(v) == IF v < Len(chars) THEN chars[v + 1] ELSE "NUL"
           Good == /\ c + n - 1 <= Len(buf)
                   /\ \A i \in c .. c + n - 1 : "byte" \in DOMAIN buf[i]
                   /\ \A i \in 1 .. 2 * n : Half(i) < Len(chars) \/ Half(i) = 15
           result == UnpackBytes(buf, c, n, chars)
<1>1. n \in 1 .. 127
  BY Zenon, PackedSizes
<1>2. body = [i \in 1 .. n |-> [byte |-> 16 * H(2 * i - 1) + H(2 * i)]]
  BY DEF PackedBody
<1>3. result = IF Good THEN Read([i \in 1 .. 2 * n |-> Char(Half(i))], c + n) ELSE Error
  BY DEF UnpackBytes
<1>4. Unpacked(s, chars) = [i \in 1 .. 2 * n |-> Char(H(i))]
  BY DEF Unpacked
<1>5. \A i \in 1 .. 2 * n : H(i) \in 0 .. 15 /\ (H(i) < Len(chars) \/ H(i) = 15)
  <2> SUFFICES ASSUME NEW i \in 1 .. 2 * n PROVE H(i) \in 0 .. 15 /\ (H(i) < Len(chars) \/ H(i) = 15)
    OBVIOUS
  <2>1. i - 1 \in Nat /\ i - 1 + 1 = i
    BY <1>1
  <2>2. H(i - 1 + 1) \in 0 .. 15
    BY Zenon, <2>1, PackedHalves
  <2>3. CASE i > Len(s)
    BY <2>1, <2>2, <2>3 DEF PackedHalf
  <2>4. CASE ~(i > Len(s))
    <3>1. i \in 1 .. Len(s)
      BY <1>1, <2>4, StringLengths
    <3>2. H(i) \in 0 .. Len(chars) - 1
      BY <3>1, PackedHalves
    <3>3. Len(chars) \in 10 .. 16
      BY Zenon, PackedChars
    <3> DEFINE h == H(i) l == Len(chars)
    <3>4. h \in 0 .. l - 1 /\ l \in 10 .. 16
      BY <3>2, <3>3
    <3> HIDE DEF h, l
    <3>5. h < l
      BY <3>4
    <3> QED BY <2>1, <2>2, <3>5 DEF h, l
  <2> QED BY <2>3, <2>4
<1> HIDE DEF n, body, H, Char, result
<1>6. Len(body) = n
  BY <1>1, <1>2
<1>7. ASSUME Stands(buf, c, body) PROVE result = Read(Unpacked(s, chars), c + Len(body))
  <2>1. c \in Nat /\ c >= 1 /\ c + n <= Len(buf) + 1 /\ \A i \in 1 .. n : buf[c + i - 1] = body[i]
    BY <1>6, <1>7 DEF Stands
  <2>2. \A i \in 1 .. n : buf[c + i - 1].byte = 16 * H(2 * i - 1) + H(2 * i) /\ "byte" \in DOMAIN buf[c + i - 1]
    BY <1>2, <2>1
  <2>3. ASSUME NEW i \in 1 .. 2 * n PROVE Half(i) = H(i)
    <3>1. CASE i % 2 = 1
      <4> DEFINE j == (i + 1) \div 2
      <4>1. j \in 1 .. n /\ 2 * j - 1 = i /\ c + i \div 2 = c + j - 1
        BY <1>1, <2>1, <3>1
      <4>2. 2 * j \in 1 .. 2 * n
        BY <1>1, <4>1
      <4> HIDE DEF j
      <4>3. buf[c + i \div 2].byte = 16 * H(i) + H(2 * j)
        BY <2>2, <4>1
      <4>4. H(i) \in 0 .. 15 /\ H(2 * j) \in 0 .. 15
        BY Zenon, <1>5, <4>2
      <4>5. \A x, y \in 0 .. 15 : (16 * x + y) \div 16 = x
        OBVIOUS
      <4> QED BY Zenon, <3>1, <4>3, <4>4, <4>5
    <3>2. CASE i % 2 # 1
      <4> DEFINE j == i \div 2
      <4>1. j \in 1 .. n /\ 2 * j = i /\ c + i \div 2 - 1 = c + j - 1
        BY <1>1, <2>1, <3>2
      <4>2. 2 * j - 1 \in 1 .. 2 * n
        BY <1>1, <4>1
      <4> HIDE DEF j
      <4>3. buf[c + i \div 2 - 1].byte = 16 * H(2 * j - 1) + H(i)
        BY Zenon, <2>2, <4>1
      <4>4. H(i) \in 0 .. 15 /\ H(2 * j - 1) \in 0 .. 15
        BY Zenon, <1>5, <4>2
      <4>5. \A x, y \in 0 .. 15 : (16 * x + y) % 16 = y
        OBVIOUS
      <4> QED BY Zenon, <3>2, <4>3, <4>4, <4>5
    <3> QED BY <3>1, <3>2
  <2>4. ASSUME NEW i \in c .. c + n - 1 PROVE "byte" \in DOMAIN buf[i]
    <3>1. i - c + 1 \in 1 .. n /\ c + (i - c + 1) - 1 = i
      BY <1>1, <2>1
    <3> QED BY <2>2, <3>1
  <2>5. c + n - 1 <= Len(buf)
    BY <1>1, <2>1
  <2>6. Good
    BY Zenon, <1>5, <2>3, <2>4, <2>5
  <2>7. [i \in 1 .. 2 * n |-> Char(Half(i))] = Unpacked(s, chars)
    BY <1>4, <2>3
  <2> HIDE DEF Good
  <2> QED BY <1>3, <1>6, <2>6, <2>7
<1>8. ASSUME Broken(buf, c, body) PROVE result = Error
  <2>1. "len" \notin DOMAIN body[n]
    BY <1>1, <1>2
  <2>2. c \in Nat /\ Len(buf) + 1 < c + n
    BY <1>6, <1>8, <2>1 DEF Broken
  <2>3. ~(c + n - 1 <= Len(buf))
    BY <1>1, <2>2
  <2> QED BY <1>3, <2>3
<1> QED BY <1>7, <1>8 DEF Reads, result, n, body

\* The characters are those of the string, without the padding of an odd number.
LEMMA UnpackedIsString ==
  ASSUME NEW s \in Strings, NEW chars \in {NibbleChars, HexChars}, CanPack(s, chars)
  PROVE  /\ Unpacked(s, chars) # << >>
         /\ s = IF Len(s) % 2 = 1 THEN Front(Unpacked(s, chars)) ELSE Unpacked(s, chars)
<1> DEFINE n == PackedSize(s)
           u == Unpacked(s, chars)
           H(i) == PackedHalf(s, chars, i)
<1>1. n \in 1 .. 127 /\ Len(s) = 2 * n - (Len(s) % 2) /\ Len(s) % 2 \in {0, 1}
  BY PackedSizes
<1>2. s \in Seq(Symbols) /\ Len(s) \in Nat
  BY StringLengths
<1>3. \A i \in 1 .. Len(s) : H(i) \in 0 .. Len(chars) - 1 /\ chars[H(i) + 1] = s[i]
  BY PackedHalves
<1>4. u = [i \in 1 .. 2 * n |-> IF H(i) < Len(chars) THEN chars[H(i) + 1] ELSE "NUL"]
  BY DEF Unpacked
<1>5. Len(chars) \in Nat
  BY PackedChars
<1> HIDE DEF n, u, H
<1>6. \A i \in 1 .. Len(s) : i \in 1 .. 2 * n
  BY <1>1, <1>2
<1>7. ASSUME NEW i \in 1 .. Len(s) PROVE u[i] = s[i]
  <2>1. H(i) < Len(chars)
    BY <1>3, <1>5
  <2> QED BY Zenon, <1>3, <1>4, <1>6, <2>1
<1>8. u \in Seq(ToSet(u)) /\ Len(u) = 2 * n
  <2>1. 2 * n \in Nat /\ DOMAIN u = 1 .. 2 * n /\ \A i \in 1 .. 2 * n : u[i] \in ToSet(u)
    <3>1. 2 * n \in Nat
      BY <1>1
    <3>2. DOMAIN u = 1 .. 2 * n
      BY <1>4
    <3>3. \A i \in DOMAIN u : u[i] \in ToSet(u)
      BY DEF ToSet
    <3> QED BY <3>1, <3>2, <3>3
  <2> HIDE DEF u
  <2>2. u \in [1 .. 2 * n -> ToSet(u)]
    BY <1>4, <2>1
  <2> QED BY <2>1, <2>2
<1>9. u # << >>
  BY <1>1, <1>8
<1>10. CASE Len(s) % 2 = 1
  <2>1. Len(u) - 1 = Len(s) /\ 1 \in 1 .. Len(u) + 1 /\ Len(u) - 1 \in 1 - 1 .. Len(u) /\ Len(u) - 1 - 1 + 1 = Len(s)
    BY <1>1, <1>2, <1>8, <1>10
  <2>2. /\ SubSeq(u, 1, Len(u) - 1) \in Seq(ToSet(u)) /\ Len(SubSeq(u, 1, Len(u) - 1)) = Len(s)
        /\ \A i \in 1 .. Len(s) : SubSeq(u, 1, Len(u) - 1)[i] = u[1 + i - 1]
    BY <1>8, <2>1, Part
  <2> DEFINE f == SubSeq(u, 1, Len(u) - 1)
  <2>3. f \in Seq(ToSet(u)) /\ Len(f) = Len(s) /\ \A i \in 1 .. Len(s) : f[i] = s[i]
    BY <1>7, <2>2
  <2> HIDE DEF f
  <2>4. f = s
    <3>1. f \in Seq(ToSet(u) \cup Symbols) /\ s \in Seq(ToSet(u) \cup Symbols)
      BY <1>2, <2>3
    <3> QED BY <2>3, <3>1, SeqEqual
  <2> QED BY <1>9, <1>10, <2>4 DEF Front, f, u
<1>11. CASE Len(s) % 2 # 1
  <2>1. Len(u) = Len(s)
    BY <1>1, <1>2, <1>8, <1>11
  <2>2. u \in Seq(ToSet(u) \cup Symbols) /\ s \in Seq(ToSet(u) \cup Symbols)
    BY <1>2, <1>8
  <2>3. u = s
    BY <1>7, <2>1, <2>2, SeqEqual
  <2> QED BY <1>9, <1>11, <2>3 DEF u
<1> QED BY <1>10, <1>11

\* How a packed string is read by whoever has read the byte of its tag.
LEMMA PackedReads ==
  ASSUME NEW s \in Strings, NEW chars \in {NibbleChars, HexChars}, CanPack(s, chars), NEW tag \in 0 .. 255
  PROVE  \E rest \in Seq(Cells) :
            /\ WritePackedBytes(s, tag, chars) = Cell(tag) \o rest
            /\ \A buf, c : Len(buf) \in Nat => Reads(buf, c, rest, ReadPacked(buf, c, chars), s, TRUE)
<1> DEFINE start == PackedSize(s) + 128 * (Len(s) % 2)
           body == PackedBody(s, chars)
           u == Unpacked(s, chars)
<1>1. /\ start \in 0 .. 255 /\ start % 128 = PackedSize(s) /\ (start >= 128 <=> Len(s) % 2 = 1)
      /\ body \in Seq(Cells)
      /\ WritePackedBytes(s, tag, chars) = Cell(tag) \o (Cell(start) \o body)
  BY ZenonT(60), PackedWritten
<1>2. u # << >> /\ s = IF Len(s) % 2 = 1 THEN Front(u) ELSE u
  BY UnpackedIsString
<1>3. \A buf, c : Len(buf) \in Nat => Reads(buf, c, body, UnpackBytes(buf, c, PackedSize(s), chars), u, TRUE)
  BY Zenon, UnpackReads
<1> HIDE DEF start, body, u
<1>4. Cell(start) \in Seq(Cells) /\ Cell(start) \o body \in Seq(Cells)
  <2>1. Cell(start) \in Seq(Cells)
    BY Zenon, <1>1, ByteCell
  <2> QED BY <1>1, <2>1, ConcatProperties
<1>5. ASSUME NEW buf, NEW c, Len(buf) \in Nat
      PROVE  Reads(buf, c, Cell(start) \o body, ReadPacked(buf, c, chars), s, TRUE)
  <2> DEFINE first == ReadByte(buf, c)
             second == UnpackBytes(buf, first.cursor, first.value % 128, chars)
             result == ReadPacked(buf, c, chars)
  <2>1. Reads(buf, c, Cell(start), first, start, TRUE)
    BY Zenon, <1>5, ByteReads
  <2>2. /\ first = Error => result = Error
        /\ first # Error /\ second = Error => result = Error
        /\ first # Error /\ second # Error =>
              result = Read(IF first.value >= 128 /\ second.value # << >> THEN Front(second.value) ELSE second.value,
                            second.cursor)
    BY DEF ReadPacked, Then
  <2> HIDE DEF first, result
  <2>3. ASSUME first = Read(start, c + Len(Cell(start)))
        PROVE  Reads(buf, c + Len(Cell(start)), body, result, s, TRUE)
    <3> DEFINE c1 == c + Len(Cell(start))
    <3>1. first # Error /\ first.value = start /\ first.cursor = c1
      BY <2>3, ReadIsNoError
    <3> HIDE DEF c1
    <3>2. Reads(buf, c1, body, second, u, TRUE)
      BY Zenon, <1>1, <1>3, <1>5, <3>1
    <3> HIDE DEF second
    <3>3. ASSUME second = Read(u, c1 + Len(body)) PROVE result = Read(s, c1 + Len(body))
      <4>1. second # Error /\ second.value = u /\ second.cursor = c1 + Len(body)
        BY <3>3, ReadIsNoError
      <4> QED BY <1>1, <1>2, <2>2, <3>1, <4>1
    <3>4. Reads(buf, c1, body, result, s, TRUE)
      BY Zenon, <2>2, <3>1, <3>2, <3>3, SurelyMapped
    <3> QED BY Zenon, <3>4 DEF c1
  <2>4. Reads(buf, c, Cell(start) \o body, result, s, TRUE)
    BY Zenon, <1>1, <1>4, <1>5, <2>1, <2>2, <2>3, SurelyJoined
  <2> QED BY Zenon, <2>4 DEF result
<1> QED BY <1>1, <1>4, <1>5

(* The forms of a string.                                                   *)

StringBody(f, s) ==
    LET jid == JidDecode(s)
    IN  CASE s = << >> -> WriteRawString(s)
          [] s # << >> /\ HasToken(s) -> WriteToken(s)
          [] ~HasToken(s) /\ CanPack(s, NibbleChars) -> WritePackedBytes(s, TAGS.NIBBLE_8, NibbleChars)
          [] ~HasToken(s) /\ ~CanPack(s, NibbleChars) /\ CanPack(s, HexChars) ->
                WritePackedBytes(s, TAGS.HEX_8, HexChars)
          [] OTHER ->
                IF jid = NotAJid THEN WriteRawString(s)
                ELSE IF "device" \in DOMAIN jid
                THEN AsBytes(<<TAGS.AD_JID, ServerToDomainType(jid.server), jid.device>>)
                        \o f[jid.user]
                ELSE AsBytes(<<TAGS.JID_PAIR>>)
                        \o (IF jid.user = << >> THEN AsBytes(<<TAGS.LIST_EMPTY>>)
                                                ELSE f[jid.user])
                        \o f[jid.server]

RawForm(s, cells) == ~HasShortForm(s) /\ cells = WriteRawString(s)

InheritedForm(s, cells) == s \in InheritedNames /\ cells = Cell(0)

SingleForm(s, cells) ==
    HasToken(s) /\ \E i \in 1 .. 127 : i \in DOMAIN SINGLE_BYTE_TOKENS /\ SINGLE_BYTE_TOKENS[i] = s /\ cells = Cell(i)

DoubleForm(s, cells) ==
    HasToken(s) /\ \E d \in 0 .. 3, i \in 0 .. 255 :
        /\ d \in DOMAIN DOUBLE_BYTE_TOKENS /\ i \in DOMAIN DOUBLE_BYTE_TOKENS[d]
        /\ DOUBLE_BYTE_TOKENS[d][i] = s
        /\ cells = Cell(236 + d) \o Cell(i)

NibbleForm(s, cells) == CanPack(s, NibbleChars) /\ cells = WritePackedBytes(s, 255, NibbleChars)
HexForm(s, cells) == CanPack(s, HexChars) /\ cells = WritePackedBytes(s, 251, HexChars)

DeviceForm(f, s, cells) ==
    LET jid == JidDecode(s)
    IN  /\ jid # NotAJid /\ "device" \in DOMAIN jid /\ ~HasToken(s)
        /\ cells = Cell(247) \o (Cell(ServerToDomainType(jid.server)) \o (Cell(jid.device % 256) \o f[jid.user]))

UserCells(f, s) == IF JidDecode(s).user = << >> THEN Cell(0) ELSE f[JidDecode(s).user]

PairForm(f, s, cells) ==
    LET jid == JidDecode(s)
    IN  /\ jid # NotAJid /\ "device" \notin DOMAIN jid /\ ~HasToken(s)
        /\ cells = Cell(250) \o (UserCells(f, s) \o f[jid.server])

\* Cells joined are cells, in whichever order they are joined.
LEMMA CellsAssociative ==
  \A a, b, e \in Seq(Cells) : a \o b \in Seq(Cells) /\ (a \o b) \o e = a \o (b \o e)
BY SMTT(30), ConcatAssociative, ConcatProperties

\* The empty string has no short form.
LEMMA EmptyString ==
  << >> \in Strings /\ ~HasShortForm(<< >>)
<1>1. << >> \in Strings
  BY StringsAssumption DEF Strings
<1>2. JidDecode(<< >>) = NotAJid
  <2>1. << >> \in Seq({}) /\ Len(<< >>) = 0
    OBVIOUS
  <2>2. LastIndexOf(<< >>, "@") \in 0 .. Len(<< >>)
    BY Zenon, <2>1, LastIndex
  <2>3. LastIndexOf(<< >>, "@") = 0
    BY <2>1, <2>2
  <2> QED BY <2>3 DEF JidDecode
<1>3. ~HasToken(<< >>)
  BY TokensAssumption
<1> QED BY <1>1, <1>2, <1>3 DEF HasShortForm, CanPack

\* A server of the four is found by its domain type.
LEMMA DomainTypes ==
  ASSUME NEW server
  PROVE  LET type == ServerToDomainType(server)
         IN  /\ type \in 0 .. 3
             /\ server \in ToSet(DomainServers) =>
                    DomainServers[IF type \in 1 .. 3 THEN type + 1 ELSE 1] = server
<1>1. DOMAIN DomainServers = 1 .. 4 /\ Len(DomainServers) = 4
  BY DEF DomainServers
<1>2. DOMAIN Tail(DomainServers) = 1 .. 3 /\ \A i \in 1 .. 3 : Tail(DomainServers)[i] = DomainServers[i + 1]
  BY DEF DomainServers
<1>3. CASE server \in ToSet(Tail(DomainServers))
  <2>1. PICK i \in 1 .. 3 : DomainServers[i + 1] = server
    BY <1>2, <1>3 DEF ToSet
  <2> DEFINE k == CHOOSE j \in DOMAIN DomainServers : DomainServers[j] = server
  <2>2. k \in 1 .. 4 /\ DomainServers[k] = server
    <3>1. i + 1 \in DOMAIN DomainServers
      BY <1>1
    <3> QED BY <1>1, <2>1, <3>1
  <2>3. ServerToDomainType(server) = k - 1
    BY <1>3 DEF ServerToDomainType, IndexOf
  <2> HIDE DEF k
  <2>4. k - 1 \in 0 .. 3 /\ (IF k - 1 \in 1 .. 3 THEN k - 1 + 1 ELSE 1) = k
    BY <2>2
  <2> QED BY <2>2, <2>3, <2>4
<1>4. CASE server \notin ToSet(Tail(DomainServers))
  <2>1. ServerToDomainType(server) = 0
    BY <1>4 DEF ServerToDomainType
  <2>2. ASSUME server \in ToSet(DomainServers) PROVE DomainServers[1] = server
    <3>1. PICK i \in 1 .. 4 : DomainServers[i] = server
      BY <1>1, <2>2 DEF ToSet
    <3>2. i = 1 \/ i - 1 \in 1 .. 3
      OBVIOUS
    <3>3. CASE i - 1 \in 1 .. 3
      <4>1. Tail(DomainServers)[i - 1] = DomainServers[i - 1 + 1] /\ i - 1 + 1 = i
        BY <1>2, <3>3
      <4>2. server \in ToSet(Tail(DomainServers))
        BY Zenon, <1>2, <3>1, <3>3, <4>1 DEF ToSet
      <4> QED BY <1>4, <4>2
    <3> QED BY <3>1, <3>2, <3>3
  <2> QED BY <2>1, <2>2
<1> QED BY <1>3, <1>4

\* A token is found where TOKEN_MAP says.
LEMMA Tokens ==
  ASSUME NEW s, HasToken(s)
  PROVE  InheritedForm(s, WriteToken(s)) \/ SingleForm(s, WriteToken(s)) \/ DoubleForm(s, WriteToken(s))
<1>1. CASE s \in InheritedNames
  <2>1. WriteToken(s) = AsBytes(<<0>>)
    BY SMTT(30), <1>1 DEF WriteToken
  <2>2. AsBytes(<<0>>) = Cell(0)
    BY OneByte
  <2> QED BY <1>1, <2>1, <2>2 DEF InheritedForm
<1>2. CASE s \notin InheritedNames /\ SingleByteIndexes(s) # {}
  <2> DEFINE i == Min(SingleByteIndexes(s))
  <2>1. SingleByteIndexes(s) \in SUBSET (1 .. 127)
    BY TokensAssumption DEF SingleByteIndexes
  <2>2. i \in SingleByteIndexes(s)
    <3>1. SingleByteIndexes(s) \in SUBSET Nat
      BY <2>1
    <3> QED BY <1>2, <3>1, MinOf
  <2>3. WriteToken(s) = AsBytes(<<i>>)
    BY <1>2 DEF WriteToken
  <2> HIDE DEF i
  <2>4. i \in 0 .. 255 /\ i \in 1 .. 127
    BY <2>1, <2>2
  <2>5. WriteToken(s) = Cell(i)
    BY <2>3, <2>4, OneByte
  <2>6. i \in DOMAIN SINGLE_BYTE_TOKENS /\ SINGLE_BYTE_TOKENS[i] = s
    BY <2>2 DEF SingleByteIndexes
  <2> QED BY <2>4, <2>5, <2>6 DEF SingleForm
<1>3. CASE s \notin InheritedNames /\ SingleByteIndexes(s) = {}
  <2> DEFINE d == Min(Dictionaries(s))
             T == {i \in DOMAIN DOUBLE_BYTE_TOKENS[d] : DOUBLE_BYTE_TOKENS[d][i] = s}
             i == Min(T)
  <2>1. Dictionaries(s) # {} /\ Dictionaries(s) \in SUBSET (0 .. 3)
    BY <1>3, TokensAssumption DEF HasToken, Dictionaries
  <2>2. d \in Dictionaries(s)
    <3>1. Dictionaries(s) \in SUBSET Nat
      BY <2>1
    <3> QED BY <2>1, <3>1, MinOf
  <2>3. WriteToken(s) = AsBytes(<<236 + d, i>>)
    BY <1>3 DEF WriteToken, TAGS
  <2> HIDE DEF d
  <2>4. d \in 0 .. 3 /\ d \in DOMAIN DOUBLE_BYTE_TOKENS /\ T # {} /\ T \in SUBSET (0 .. 255)
    BY <2>1, <2>2, TokensAssumption DEF Dictionaries
  <2>5. i \in T
    <3> HIDE DEF T
    <3>1. T \in SUBSET Nat
      BY <2>4
    <3> QED BY <2>4, <3>1, MinOf
  <2>6. i \in DOMAIN DOUBLE_BYTE_TOKENS[d] /\ DOUBLE_BYTE_TOKENS[d][i] = s /\ i \in 0 .. 255
    BY <2>4, <2>5
  <2> HIDE DEF i
  <2>7. WriteToken(s) = Cell(236 + d) \o Cell(i)
    <3> DEFINE t == 236 + d
    <3>1. t \in 0 .. 255
      BY <2>4
    <3>2. WriteToken(s) = AsBytes(<<t, i>>)
      BY <2>3
    <3> HIDE DEF t
    <3>3. AsBytes(<<t, i>>) = Cell(t) \o Cell(i)
      BY Zenon, <2>6, <3>1, TwoBytes
    <3> QED BY <3>2, <3>3 DEF t
  <2> QED BY Zenon, <2>4, <2>6, <2>7 DEF DoubleForm
<1> QED BY <1>1, <1>2, <1>3

LEMMA DeviceCell ==
  ASSUME NEW s \in Strings
  PROVE  /\ Cell(JidDecode(s).device % 256) \in Seq(Cells)
         /\ Len(Cell(JidDecode(s).device % 256)) = 1
<1>1. [byte |-> JidDecode(s).device % 256] \in Cells
  BY DEF Cells
<1> QED BY <1>1 DEF Cell

\* What writeString() writes takes one of seven forms.
LEMMA StringForms ==
  ASSUME NEW f \in [Strings -> Seq(Cells)], NEW s \in Strings
  PROVE  LET cells == StringBody(f, s)
         IN  \/ RawForm(s, cells) \/ InheritedForm(s, cells) \/ SingleForm(s, cells) \/ DoubleForm(s, cells)
             \/ NibbleForm(s, cells) \/ HexForm(s, cells) \/ DeviceForm(f, s, cells) \/ PairForm(f, s, cells)
<1> DEFINE cells == StringBody(f, s)
           jid == JidDecode(s)
<1>1. CASE s = << >>
  <2>0. ~CanPack(s, NibbleChars) /\ ~CanPack(s, HexChars) /\ ~HasToken(s)
    BY <1>1, TokensAssumption DEF CanPack
  <2>1. cells = WriteRawString(s)
    BY Zenon, <1>1, <2>0 DEF StringBody
  <2> QED BY <1>1, <2>1, EmptyString DEF RawForm
<1>2. CASE s # << >> /\ HasToken(s)
  <2>1. cells = WriteToken(s)
    BY <1>2 DEF StringBody
  <2> QED BY <1>2, <2>1, Tokens
<1>3. CASE s # << >> /\ ~HasToken(s) /\ CanPack(s, NibbleChars)
  <2>1. cells = WritePackedBytes(s, 255, NibbleChars)
    BY <1>3 DEF StringBody, TAGS
  <2> QED BY <1>3, <2>1 DEF NibbleForm
<1>4. CASE s # << >> /\ ~HasToken(s) /\ ~CanPack(s, NibbleChars) /\ CanPack(s, HexChars)
  <2>1. cells = WritePackedBytes(s, 251, HexChars)
    BY <1>4 DEF StringBody, TAGS
  <2> QED BY <1>4, <2>1 DEF HexForm
<1>5. CASE s # << >> /\ ~HasToken(s) /\ ~CanPack(s, NibbleChars) /\ ~CanPack(s, HexChars)
  <2>0. cells = IF jid = NotAJid THEN WriteRawString(s)
                ELSE IF "device" \in DOMAIN jid
                THEN AsBytes(<<TAGS.AD_JID, ServerToDomainType(jid.server), jid.device>>)
                        \o f[jid.user]
                ELSE AsBytes(<<TAGS.JID_PAIR>>)
                        \o (IF jid.user = << >> THEN AsBytes(<<TAGS.LIST_EMPTY>>)
                                                ELSE f[jid.user])
                        \o f[jid.server]
    BY <1>5 DEF StringBody
  <2> HIDE DEF cells
  <2>1. CASE jid = NotAJid
    <3>1. RawForm(s, cells)
      BY <1>5, <2>0, <2>1 DEF RawForm, HasShortForm
    <3> QED BY <3>1 DEF cells
  <2>2. CASE jid # NotAJid /\ "device" \in DOMAIN jid
    <3> DEFINE type == ServerToDomainType(jid.server)
    <3>1. cells = AsBytes(<<247, type, jid.device>>) \o f[jid.user]
      BY <2>0, <2>2 DEF TAGS
    <3>2. jid.user \in Strings /\ jid.server \in Strings
      BY Zenon, <2>2, JidParts
    <3>3. type \in 0 .. 3
      BY DomainTypes
    <3> DEFINE a == Cell(247) b == Cell(type) e == Cell(jid.device % 256)
    <3> HIDE DEF type
    <3>4. a \in Seq(Cells) /\ b \in Seq(Cells) /\ e \in Seq(Cells) /\ f[jid.user] \in Seq(Cells)
      <4>1. 247 \in 0 .. 255 /\ type \in 0 .. 255
        BY <3>3
      <4> QED BY ZenonT(60), <3>2, <4>1, ByteCell, DeviceCell
    <3>5. AsBytes(<<247, type, jid.device>>) = a \o (b \o e)
      <4> DEFINE C(n) == [byte |-> n]
      <4>1. AsBytes(<<247, type, jid.device>>) = <<C(247), C(type), C(jid.device % 256)>>
        <5>1. type \in Nat /\ type < 256
          BY <3>3
        <5>1a. 247 % 256 = 247 /\ type % 256 = type
          BY <5>1
        <5> QED BY <5>1a DEF AsBytes
      <4>2. a = <<C(247)>> /\ b = <<C(type)>> /\ e = <<C(jid.device % 256)>>
        BY DEF Cell
      <4> DEFINE x == C(247) y == C(type) z == C(jid.device % 256) S == {x, y, z}
      <4>3. x \in S /\ y \in S /\ z \in S
        OBVIOUS
      <4> HIDE DEF x, y, z, S
      <4>4. <<x, y, z>> = <<x>> \o <<y, z>> /\ <<y, z>> = <<y>> \o <<z>>
        <5>1. \A p, r \in S : <<p, r>> = <<p>> \o <<r>>
          BY ZenonT(60), Tuples
        <5>2. \A p, r, t \in S : <<p, r, t>> = <<p>> \o <<r, t>>
          BY Tuples
        <5> QED BY Zenon, <4>3, <5>1, <5>2
      <4> QED BY ZenonT(60), <4>1, <4>2, <4>4 DEF x, y, z
    <3> HIDE DEF a, b, e
    <3>6. cells = a \o (b \o (e \o f[jid.user]))
      <4> DEFINE g == f[jid.user]
      <4>0. cells = (a \o (b \o e)) \o g
        BY Zenon, <3>1, <3>5
      <4>1. b \o e \in Seq(Cells) /\ g \in Seq(Cells)
        BY <3>4, CellsAssociative
      <4> HIDE DEF g
      <4>3. (b \o e) \o g = b \o (e \o g)
        BY SMTT(30), <3>4, <4>1, CellsAssociative
      <4> DEFINE h == b \o e
      <4>4. h \in Seq(Cells)
        BY <4>1
      <4> HIDE DEF h
      <4>6. a \in Seq(Cells) /\ g \in Seq(Cells)
        BY <3>4, <4>1
      <4>7. \A y, w \in Seq(Cells) : (a \o y) \o w = a \o (y \o w)
        BY ZenonT(60), <4>6, CellsAssociative
      <4>5. (a \o h) \o g = a \o (h \o g)
        BY Zenon, <4>4, <4>6, <4>7
      <4>2. (a \o (b \o e)) \o g = a \o ((b \o e) \o g)
        BY Zenon, <4>5 DEF h
      <4> QED BY <4>0, <4>2, <4>3 DEF g
    <3>7. DeviceForm(f, s, cells)
      BY <1>5, <2>2, <3>6 DEF DeviceForm, a, b, e, type
    <3> QED BY <3>7 DEF cells
  <2>3. CASE jid # NotAJid /\ "device" \notin DOMAIN jid
    <3> DEFINE u == UserCells(f, s) g == f[jid.server] a == Cell(250)
    <3>1. AsBytes(<<250>>) = a /\ AsBytes(<<0>>) = Cell(0) /\ a \in Seq(Cells) /\ Cell(0) \in Seq(Cells)
      <4>1. 250 \in 0 .. 255 /\ 0 \in 0 .. 255
        OBVIOUS
      <4> QED BY <4>1, OneByte, ByteCell
    <3>2. cells = (a \o u) \o g
      BY Zenon, <2>0, <2>3, <3>1 DEF TAGS, UserCells
    <3>3. u \in Seq(Cells) /\ g \in Seq(Cells)
      <4>1. jid.user \in Strings /\ jid.server \in Strings
        BY Zenon, <2>3, JidParts
      <4> QED BY <3>1, <4>1 DEF UserCells
    <3> HIDE DEF a, u, g
    <3>4. cells = a \o (u \o g)
      <4>1. (a \o u) \o g = a \o (u \o g)
        BY SMTT(30), <3>1, <3>3, CellsAssociative
      <4> QED BY <3>2, <4>1
    <3>5. PairForm(f, s, cells)
      BY <1>5, <2>3, <3>4 DEF PairForm, a, u, g
    <3> QED BY <3>5 DEF cells
  <2> QED BY <2>1, <2>2, <2>3 DEF cells
<1> QED BY <1>1, <1>2, <1>3, <1>4, <1>5

\* A byte and more.
LEMMA ByteThen ==
  ASSUME NEW b \in 0 .. 255, NEW rest \in Seq(Cells)
  PROVE  Cell(b) \o rest \in Seq(Cells)
BY Zenon, ByteCell, CellsAssociative

\* A raw string starts with the tag of its length.
LEMMA RawStarts ==
  ASSUME NEW s \in Strings
  PROVE  \E tag \in 0 .. 255, rest \in Seq(Cells) : Binary(AsBlock(s), tag, rest) /\ WriteRawString(s) = Cell(tag) \o rest
<1>1. PICK tag \in 0 .. 255, rest \in Seq(Cells) : Binary(AsBlock(s), tag, rest)
  BY Zenon, BlockOfString, BytesRead
<1>2. WriteRawString(s) = Cell(tag) \o rest
  BY <1>1 DEF Binary, WriteRawString
<1> QED BY Zenon, <1>1, <1>2

\* writeString() writes bytes and blocks.
LEMMA StringBodyType ==
  ASSUME NEW f \in [Strings -> Seq(Cells)], NEW s \in Strings
  PROVE  StringBody(f, s) \in Seq(Cells)
<1> DEFINE cells == StringBody(f, s)
           jid == JidDecode(s)
<1>0. \/ RawForm(s, cells) \/ InheritedForm(s, cells) \/ SingleForm(s, cells) \/ DoubleForm(s, cells)
      \/ NibbleForm(s, cells) \/ HexForm(s, cells) \/ DeviceForm(f, s, cells) \/ PairForm(f, s, cells)
  BY StringForms
<1> HIDE DEF cells
<1> SUFFICES cells \in Seq(Cells)
  BY DEF cells
<1>1. CASE RawForm(s, cells)
  <2>1. PICK tag \in 0 .. 255, rest \in Seq(Cells) : WriteRawString(s) = Cell(tag) \o rest
    BY Zenon, RawStarts
  <2> QED BY Zenon, <1>1, <2>1, ByteThen DEF RawForm
<1>2. CASE InheritedForm(s, cells)
  <2>1. 0 \in 0 .. 255
    OBVIOUS
  <2> QED BY <1>2, <2>1, ByteCell DEF InheritedForm
<1>3. CASE SingleForm(s, cells)
  <2>1. PICK i \in 1 .. 127 : cells = Cell(i)
    BY Zenon, <1>3 DEF SingleForm
  <2>2. i \in 0 .. 255
    OBVIOUS
  <2> QED BY Zenon, <2>1, <2>2, ByteCell
<1>4. CASE DoubleForm(s, cells)
  <2>1. PICK d \in 0 .. 3, i \in 0 .. 255 : cells = Cell(236 + d) \o Cell(i)
    BY Zenon, <1>4 DEF DoubleForm
  <2>2. 236 + d \in 0 .. 255
    OBVIOUS
  <2>3. Cell(i) \in Seq(Cells)
    BY Zenon, ByteCell
  <2> QED BY <2>1, <2>2, <2>3, ByteThen
<1>5. CASE NibbleForm(s, cells)
  <2>1. 255 \in 0 .. 255 /\ NibbleChars \in {NibbleChars, HexChars} /\ CanPack(s, NibbleChars)
    BY <1>5 DEF NibbleForm
  <2>2. PICK rest \in Seq(Cells) : WritePackedBytes(s, 255, NibbleChars) = Cell(255) \o rest
    <3> DEFINE t == 255
    <3>1. t \in 0 .. 255
      OBVIOUS
    <3> HIDE DEF t
    <3>2. \E rest \in Seq(Cells) : WritePackedBytes(s, t, NibbleChars) = Cell(t) \o rest
      BY ZenonT(60), <2>1, <3>1, PackedReads
    <3> QED BY Zenon, <3>2 DEF t
  <2> QED BY ZenonT(60), <1>5, <2>1, <2>2, ByteThen DEF NibbleForm
<1>6. CASE HexForm(s, cells)
  <2>1. 251 \in 0 .. 255 /\ HexChars \in {NibbleChars, HexChars} /\ CanPack(s, HexChars)
    BY <1>6 DEF HexForm
  <2>2. PICK rest \in Seq(Cells) : WritePackedBytes(s, 251, HexChars) = Cell(251) \o rest
    <3> DEFINE t == 251
    <3>1. t \in 0 .. 255
      OBVIOUS
    <3> HIDE DEF t
    <3>2. \E rest \in Seq(Cells) : WritePackedBytes(s, t, HexChars) = Cell(t) \o rest
      BY ZenonT(60), <2>1, <3>1, PackedReads
    <3> QED BY <3>2 DEF t
  <2> QED BY ZenonT(60), <1>6, <2>1, <2>2, ByteThen DEF HexForm
<1>7. CASE DeviceForm(f, s, cells)
  <2> DEFINE g == f[jid.user] e == Cell(jid.device % 256) b == Cell(ServerToDomainType(jid.server))
  <2>1. /\ jid # NotAJid
        /\ cells = Cell(247) \o (b \o (e \o g))
    BY <1>7 DEF DeviceForm
  <2>2. g \in Seq(Cells)
    BY Zenon, <2>1, JidParts
  <2>3. e \in Seq(Cells)
    BY DeviceCell
  <2>4. ServerToDomainType(jid.server) \in 0 .. 255 /\ 247 \in 0 .. 255
    <3>1. ServerToDomainType(jid.server) \in 0 .. 3
      BY DomainTypes
    <3> QED BY <3>1
  <2>5. b \in Seq(Cells)
    BY Zenon, <2>4, ByteCell
  <2> HIDE DEF b, e, g
  <2>6. e \o g \in Seq(Cells)
    BY <2>2, <2>3, CellsAssociative
  <2>7. b \o (e \o g) \in Seq(Cells)
    BY <2>5, <2>6, CellsAssociative
  <2> QED BY <2>1, <2>4, <2>7, ByteThen
<1>8. CASE PairForm(f, s, cells)
  <2> DEFINE g == f[jid.server] u == UserCells(f, s)
  <2>1. jid # NotAJid /\ cells = Cell(250) \o (u \o g)
    BY <1>8 DEF PairForm
  <2>2. g \in Seq(Cells)
    BY Zenon, <2>1, JidParts
  <2>3. u \in Seq(Cells)
    <3>1. jid.user \in Strings
      BY Zenon, <2>1, JidParts
    <3>2. Cell(0) \in Seq(Cells)
      <4>1. 0 \in 0 .. 255
        OBVIOUS
      <4> QED BY <4>1, ByteCell
    <3> QED BY <3>1, <3>2 DEF UserCells
  <2> HIDE DEF g, u
  <2>4. u \o g \in Seq(Cells)
    BY <2>2, <2>3, CellsAssociative
  <2>5. 250 \in 0 .. 255
    OBVIOUS
  <2> QED BY <2>1, <2>4, <2>5, ByteThen
<1> QED BY <1>0, <1>1, <1>2, <1>3, <1>4, <1>5, <1>6, <1>7, <1>8

\* writeString() calls itself on shorter strings only.
LEMMA StringBodyDescends ==
  ASSUME NEW s \in Strings, NEW f, NEW g, \A t \in Strings : Len(t) < Len(s) => f[t] = g[t]
  PROVE  StringBody(f, s) = StringBody(g, s)
<1> DEFINE jid == JidDecode(s)
<1>1. CASE jid = NotAJid
  BY <1>1 DEF StringBody
<1>2. CASE jid # NotAJid
  <2>1. jid.user \in Strings /\ jid.server \in Strings /\ Len(jid.user) < Len(s) /\ Len(jid.server) < Len(s)
    BY Zenon, <1>2, JidParts
  <2>2. f[jid.user] = g[jid.user] /\ f[jid.server] = g[jid.server]
    BY <2>1
  <2> QED BY <2>2 DEF StringBody
<1> QED BY <1>1, <1>2

\* writeString() as the code defines it, by itself.
LEMMA WriteStringUnfolds ==
  /\ WriteString \in [Strings -> Seq(Cells)]
  /\ WriteString = [s \in Strings |-> StringBody(WriteString, s)]
<1> DEFINE V == Seq(Cells)
           F == [Strings -> V]
           Step == [f \in F |-> [s \in Strings |-> StringBody(f, s)]]
           P(f) == f = [s \in Strings |-> StringBody(f, s)]
<1>1. Step \in [F -> F]
  BY StringBodyType
<1>2. Descends(Strings, F, StringRank, Step)
  <2> SUFFICES ASSUME NEW f \in F, NEW g \in F, NEW s \in Strings,
                      \A t \in Strings : StringRank[t] < StringRank[s] => f[t] = g[t]
               PROVE  Step[f][s] = Step[g][s]
    BY Zenon DEF Descends
  <2>1. \A t \in Strings : Len(t) < Len(s) => f[t] = g[t]
    BY DEF StringRank
  <2>2. StringBody(f, s) = StringBody(g, s)
    BY <2>1, StringBodyDescends
  <2> QED BY <2>2
<1>3. PICK f \in F : f = Step[f]
  <2>1. F = [Strings -> V] /\ V # {}
    <3>1. << >> \in V
      OBVIOUS
    <3> QED BY Zenon, <3>1
  <2> HIDE DEF Step, F, V
  <2> QED BY <1>1, <1>2, <2>1, StringFixpoint
<1>4. P(f)
  BY <1>3
<1>5. WriteString = CHOOSE fun : P(fun)
  BY DEF WriteString, StringBody
<1>6. P(WriteString)
  <2> HIDE DEF P
  <2> QED BY <1>4, <1>5
<1>7. WriteString \in [Strings -> Seq(Cells)]
  <2> DEFINE W == WriteString T == {s \in Strings : W[s] = f[s]}
  <2>1. ASSUME NEW s \in Strings, \A t \in Strings : Len(t) < Len(s) => t \in T PROVE s \in T
    <3>1. StringBody(W, s) = StringBody(f, s)
      <4>1. \A t \in Strings : Len(t) < Len(s) => W[t] = f[t]
        BY <2>1
      <4> HIDE DEF W
      <4> QED BY Zenon, <4>1, StringBodyDescends
    <3> QED BY Zenon, <1>4, <1>6, <3>1
  <2>2. \A s \in Strings : s \in T
    <3> HIDE DEF T
    <3> QED BY <2>1, StringInduction
  <2>3. W = f
    BY <1>4, <1>6, <2>2
  <2> QED BY <2>3
<1> QED BY <1>6, <1>7

PortableBody(f, s) ==
    LET jid == JidDecode(s)
    IN  /\ s \notin InheritedNames
        /\ jid # NotAJid /\ ~HasToken(s) =>
             /\ f[jid.user] /\ f[jid.server]
             /\ "device" \in DOMAIN jid =>
                  /\ jid.server \in ToSet(DomainServers)
                  /\ jid.device \in 0 .. 255
                  /\ s = JidEncode(jid.user, jid.server, jid.device)

\* Whether a string is portable depends on shorter strings only.
LEMMA PortableBodyDescends ==
  ASSUME NEW s \in Strings, NEW f, NEW g, \A t \in Strings : Len(t) < Len(s) => f[t] = g[t]
  PROVE  PortableBody(f, s) = PortableBody(g, s)
<1> DEFINE jid == JidDecode(s)
<1>1. CASE jid = NotAJid
  BY <1>1 DEF PortableBody
<1>2. CASE jid # NotAJid
  <2>1. jid.user \in Strings /\ jid.server \in Strings /\ Len(jid.user) < Len(s) /\ Len(jid.server) < Len(s)
    BY Zenon, <1>2, JidParts
  <2>2. f[jid.user] = g[jid.user] /\ f[jid.server] = g[jid.server]
    BY <2>1
  <2> QED BY <2>2 DEF PortableBody
<1> QED BY <1>1, <1>2

\* Portable, by itself.
LEMMA PortableUnfolds ==
  /\ Portable \in [Strings -> BOOLEAN]
  /\ Portable = [s \in Strings |-> PortableBody(Portable, s)]
<1> DEFINE V == BOOLEAN
           F == [Strings -> V]
           Step == [f \in F |-> [s \in Strings |-> PortableBody(f, s)]]
           P(f) == f = [s \in Strings |-> PortableBody(f, s)]
<1>0. \A f, s : PortableBody(f, s) \in BOOLEAN
  BY DEF PortableBody
<1>1. Step \in [F -> F]
  BY <1>0
<1>2. Descends(Strings, F, StringRank, Step)
  <2> SUFFICES ASSUME NEW f \in F, NEW g \in F, NEW s \in Strings,
                      \A t \in Strings : StringRank[t] < StringRank[s] => f[t] = g[t]
               PROVE  Step[f][s] = Step[g][s]
    BY Zenon DEF Descends
  <2>1. \A t \in Strings : Len(t) < Len(s) => f[t] = g[t]
    BY DEF StringRank
  <2>2. PortableBody(f, s) = PortableBody(g, s)
    BY <2>1, PortableBodyDescends
  <2> QED BY <2>2
<1>3. PICK f \in F : f = Step[f]
  <2>1. F = [Strings -> V] /\ V # {}
    BY Zenon
  <2> HIDE DEF Step, F, V
  <2> QED BY <1>1, <1>2, <2>1, StringFixpoint
<1>4. P(f)
  BY <1>3
<1>5. Portable = CHOOSE fun : P(fun)
  BY DEF Portable, PortableBody
<1>6. P(Portable)
  <2> HIDE DEF P
  <2> QED BY <1>4, <1>5
<1>7. Portable \in [Strings -> BOOLEAN]
  <2> DEFINE W == Portable
  <2>1. W = [s \in Strings |-> PortableBody(W, s)]
    BY <1>6
  <2> HIDE DEF W
  <2>2. [s \in Strings |-> PortableBody(W, s)] \in [Strings -> BOOLEAN]
    BY <1>0
  <2>3. W \in [Strings -> BOOLEAN]
    BY <2>1, <2>2
  <2> QED BY <2>3 DEF W
<1> QED BY <1>6, <1>7

\* The parts of a portable JID are portable.
LEMMA PortableParts ==
  ASSUME NEW s \in Strings
  PROVE  LET jid == JidDecode(s)
         IN  /\ Portable[s] \in BOOLEAN
             /\ Portable[s] => s \notin InheritedNames
             /\ Portable[s] /\ jid # NotAJid /\ ~HasToken(s) =>
                  /\ Portable[jid.user] /\ Portable[jid.server]
                  /\ "device" \in DOMAIN jid =>
                       /\ jid.server \in ToSet(DomainServers)
                       /\ jid.device \in 0 .. 255
                       /\ s = JidEncode(jid.user, jid.server, jid.device)
<1>1. Portable[s] \in BOOLEAN /\ Portable[s] = PortableBody(Portable, s)
  BY PortableUnfolds
<1>2. Portable[s] => PortableBody(Portable, s)
  BY <1>1
<1> QED BY <1>1, <1>2 DEF PortableBody

-----------------------------------------------------------------------------
(* Reading strings.                                                         *)

\* Where there is nothing to read.
LEMMA ReadsOutside ==
  ASSUME NEW buf, NEW c, c \notin 1 .. Len(buf) + 1, NEW cells, NEW result, NEW v, NEW sure
  PROVE  Reads(buf, c, cells, result, v, sure)
BY DEF Reads, Stands, Broken

\* A reader that is sure is a reader.
LEMMA ReadsWeaker ==
  ASSUME NEW buf, NEW c, NEW cells, NEW result, NEW v, Reads(buf, c, cells, result, v, TRUE), NEW sure \in BOOLEAN
  PROVE  Reads(buf, c, cells, result, v, sure)
<1>1. Stands(buf, c, cells) => \E x : result = Read(x, c + Len(cells)) /\ x = v
  BY DEF Reads
<1>2. Broken(buf, c, cells) => result = Error
  BY DEF Reads
<1> QED BY <1>1, <1>2 DEF Reads

\* A reader reads the strings that are shorter than l, from the cursor on.
Correct(within, buf, c, l) ==
    \A c1 \in Nat : c1 >= c =>
        /\ Reads(buf, c1, Cell(0), within[c1], << >>, TRUE)
        /\ \A t \in Strings : Len(t) < l => Reads(buf, c1, WriteString[t], within[c1], t, Portable[t])

\* What readString() does at the tag of a single-byte token.
LEMMA SingleTag ==
  ASSUME NEW buf, NEW c, NEW within, NEW i \in 1 .. 127
  PROVE  ReadStringOf(buf, c, i, within) = Read(ReadToken(SINGLE_BYTE_TOKENS, i), c)
<1>1. i \in 1 .. SingleByteTokensLength - 1
  BY DEF SingleByteTokensLength
<1>2. i - 236 \notin DOMAIN DOUBLE_BYTE_TOKENS /\ i \notin {0, 245, 247, 250, 251, 252, 253, 254, 255}
  BY TokensAssumption
<1> QED BY <1>1, <1>2 DEF ReadStringOf, TAGS, IsBinaryTag

\* At that of an empty list.
LEMMA EmptyTag ==
  ASSUME NEW buf, NEW c, NEW within
  PROVE  ReadStringOf(buf, c, 0, within) = Read(<< >>, c)
<1>0. DOMAIN DOUBLE_BYTE_TOKENS \subseteq 0 .. 3
  BY TokensAssumption
<1> QED BY <1>0 DEF ReadStringOf, TAGS, SingleByteTokensLength, IsBinaryTag

\* At that of a packed number.
LEMMA NibbleTag ==
  ASSUME NEW buf, NEW c, NEW within
  PROVE  ReadStringOf(buf, c, 255, within) = ReadPacked(buf, c, NibbleChars)
<1>0. DOMAIN DOUBLE_BYTE_TOKENS \subseteq 0 .. 3
  BY TokensAssumption
<1> QED BY <1>0 DEF ReadStringOf, TAGS, SingleByteTokensLength, IsBinaryTag

\* At that of a packed hex string.
LEMMA HexTag ==
  ASSUME NEW buf, NEW c, NEW within
  PROVE  ReadStringOf(buf, c, 251, within) = ReadPacked(buf, c, HexChars)
<1>0. DOMAIN DOUBLE_BYTE_TOKENS \subseteq 0 .. 3
  BY TokensAssumption
<1> QED BY <1>0 DEF ReadStringOf, TAGS, SingleByteTokensLength, IsBinaryTag

\* At those of raw bytes.
LEMMA BinaryTag ==
  ASSUME NEW buf, NEW c, NEW within, NEW tag, IsBinaryTag(tag)
  PROVE  LET first == ReadBinary(buf, c, tag)
             result == ReadStringOf(buf, c, tag, within)
         IN  /\ first = Error => result = Error
             /\ first # Error => result = Read(first.value.data, first.cursor)
<1>0. DOMAIN DOUBLE_BYTE_TOKENS \subseteq 0 .. 3
  BY TokensAssumption
<1>1. tag \in {252, 253, 254}
  BY DEF IsBinaryTag, TAGS
<1>2. /\ tag \notin 1 .. SingleByteTokensLength - 1 /\ tag - 236 \notin DOMAIN DOUBLE_BYTE_TOKENS
      /\ tag \notin {0, 245, 247, 250, 251, 255}
  BY <1>0, <1>1 DEF SingleByteTokensLength
<1>3. ReadStringOf(buf, c, tag, within) = Then(ReadBinary(buf, c, tag), LAMBDA b, c1 : Read(b.data, c1))
  BY <1>2 DEF ReadStringOf, TAGS
<1> QED BY <1>3 DEF Then

\* At those of the dictionaries.
LEMMA DictionaryTag ==
  ASSUME NEW buf, NEW c, NEW within, NEW d \in DOMAIN DOUBLE_BYTE_TOKENS
  PROVE  LET first == ReadByte(buf, c)
             result == ReadStringOf(buf, c, 236 + d, within)
             dict == DOUBLE_BYTE_TOKENS[d]
         IN  /\ first = Error => result = Error
             /\ first # Error /\ first.value \in DOMAIN dict => result = Read(dict[first.value], first.cursor)
<1>0. DOMAIN DOUBLE_BYTE_TOKENS \subseteq 0 .. 3 /\ d \in 0 .. 3
  BY TokensAssumption
<1> DEFINE t == 236 + d
<1>1. t \in 236 .. 239 /\ t - 236 = d
  BY <1>0
<1> HIDE DEF t
<1>2. ReadStringOf(buf, c, t, within) =
        Then(ReadByte(buf, c), LAMBDA index, c1 :
            LET dict == DOUBLE_BYTE_TOKENS[t - TAGS.DICTIONARY_0]
            IN  IF index \in DOMAIN dict THEN Read(dict[index], c1) ELSE Error)
  <2>1. ~(t \in 1 .. SingleByteTokensLength - 1)
    BY <1>1 DEF SingleByteTokensLength
  <2>2. t - TAGS.DICTIONARY_0 \in DOMAIN DOUBLE_BYTE_TOKENS
    BY <1>1 DEF TAGS
  <2>3. ~(t = TAGS.LIST_EMPTY) /\ ~IsBinaryTag(t)
    BY <1>1 DEF TAGS, IsBinaryTag
  <2>4. /\ ~(t = TAGS.JID_PAIR) /\ ~(t = TAGS.AD_JID) /\ ~(t = TAGS.FB_JID)
        /\ ~(t = TAGS.NIBBLE_8) /\ ~(t = TAGS.HEX_8)
    BY <1>1 DEF TAGS
  <2> QED BY <2>1, <2>2, <2>3, <2>4 DEF ReadStringOf
<1>3. t - TAGS.DICTIONARY_0 = d
  BY <1>1 DEF TAGS
<1> QED BY <1>2, <1>3 DEF Then, t

\* At that of a JID without a device.
LEMMA PairTag ==
  ASSUME NEW buf, NEW c, NEW within
  PROVE  LET first == within[c]
             second == within[first.cursor]
             result == ReadStringOf(buf, c, 250, within)
         IN  /\ first = Error => result = Error
             /\ first # Error /\ second = Error => result = Error
             /\ first # Error /\ second # Error /\ second.value = << >> => result = Error
             /\ first # Error /\ second # Error /\ second.value # << >> =>
                    result = Read(first.value \o <<"@">> \o second.value, second.cursor)
<1>0. DOMAIN DOUBLE_BYTE_TOKENS \subseteq 0 .. 3
  BY TokensAssumption
<1>1. ReadStringOf(buf, c, 250, within) =
        Then(within[c], LAMBDA user, c1 :
            Then(within[c1], LAMBDA server, c2 :
            IF server = << >> THEN Error ELSE Read(user \o <<"@">> \o server, c2)))
  BY <1>0 DEF ReadStringOf, TAGS, SingleByteTokensLength, IsBinaryTag
<1> QED BY <1>1 DEF Then

\* At that of a JID with one.
LEMMA DeviceTag ==
  ASSUME NEW buf, NEW c, NEW within
  PROVE  LET first == ReadByte(buf, c)
             second == ReadByte(buf, first.cursor)
             third == within[second.cursor]
             result == ReadStringOf(buf, c, 247, within)
         IN  /\ first = Error => result = Error
             /\ first # Error /\ second = Error => result = Error
             /\ first # Error /\ second # Error /\ third = Error => result = Error
             /\ first # Error /\ second # Error /\ third # Error =>
                    result = Read(JidEncode(third.value,
                                            DomainServers[IF first.value \in 1 .. 3 THEN first.value + 1 ELSE 1],
                                            second.value),
                                  third.cursor)
<1>0. DOMAIN DOUBLE_BYTE_TOKENS \subseteq 0 .. 3
  BY TokensAssumption
<1>1. ReadStringOf(buf, c, 247, within) =
            Then(ReadByte(buf, c), LAMBDA domainType, c1 :
            Then(ReadByte(buf, c1), LAMBDA device, c2 :
            Then(within[c2], LAMBDA user, c3 :
            LET server == DomainServers[IF domainType \in 1 .. 3 THEN domainType + 1 ELSE 1]
            IN  Read(JidEncode(user, server, device), c3))))
  BY <1>0 DEF ReadStringOf, TAGS, SingleByteTokensLength, IsBinaryTag
<1> QED BY <1>1 DEF Then

\* At that of a JID of another network.
LEMMA FbTag ==
  ASSUME NEW buf, NEW c, NEW within
  PROVE  LET first == within[c]
             second == ReadInt2(buf, first.cursor)
             third == within[second.cursor]
             result == ReadStringOf(buf, c, 245, within)
         IN  /\ first = Error => result = Error
             /\ first # Error /\ second = Error => result = Error
             /\ first # Error /\ second # Error /\ third = Error => result = Error
             /\ first # Error /\ second # Error /\ third # Error =>
                    result = Read(JidEncode(first.value, third.value, second.value), third.cursor)
<1>0. DOMAIN DOUBLE_BYTE_TOKENS \subseteq 0 .. 3
  BY TokensAssumption
<1>1. ReadStringOf(buf, c, 245, within) =
            Then(within[c], LAMBDA user, c1 :
            Then(ReadInt2(buf, c1), LAMBDA device, c2 :
            Then(within[c2], LAMBDA server, c3 :
            Read(JidEncode(user, server, device), c3))))
  BY <1>0 DEF ReadStringOf, TAGS, SingleByteTokensLength, IsBinaryTag
<1> QED BY <1>1 DEF Then

\* A string in a form of its own, and how it is read by whoever has read its tag.
TextForm(s, tag, rest) ==
    /\ WriteString[s] = Cell(tag) \o rest
    /\ ~IsBinaryTag(tag) /\ ~IsListTag(tag)
    /\ \A buf, c, within : Len(buf) \in Nat /\ Correct(within, buf, c, Len(s)) =>
            Reads(buf, c, rest, ReadStringOf(buf, c, tag, within), s, Portable[s])

Started(s, tag, rest) ==
    \/ s \in InheritedNames /\ WriteString[s] = Cell(tag) \o rest /\ tag = 0 /\ rest = << >>
    \/ ~HasShortForm(s) /\ WriteString[s] = Cell(tag) \o rest /\ Binary(AsBlock(s), tag, rest)
    \/ HasShortForm(s) /\ TextForm(s, tag, rest)

LEMMA CellsAndNothing ==
  \A a \in Seq(Cells) : a \o << >> = a /\ << >> \o a = a /\ << >> \in Seq(Cells)
BY ConcatEmptySeq

LEMMA ShortStarts ==
  ASSUME NEW s \in Strings, HasShortForm(s), NEW tag \in 0 .. 255, NEW rest \in Seq(Cells), TextForm(s, tag, rest)
  PROVE  \E t \in 0 .. 255, r \in Seq(Cells) : Started(s, t, r)
BY DEF Started

\* How a single-byte token is read.
LEMMA SingleStarts ==
  ASSUME NEW s \in Strings, SingleForm(s, WriteString[s])
  PROVE  \E t \in 0 .. 255, r \in Seq(Cells) : Started(s, t, r)
<1>1. PICK i \in 1 .. 127 : i \in DOMAIN SINGLE_BYTE_TOKENS /\ SINGLE_BYTE_TOKENS[i] = s /\ WriteString[s] = Cell(i)
  BY DEF SingleForm
<1>2. Cell(i) \in Seq(Cells) /\ i \in 0 .. 255
  <2>1. i \in 0 .. 255
    OBVIOUS
  <2> QED BY Zenon, <2>1, ByteCell
<1>3. WriteString[s] = Cell(i) \o << >> /\ << >> \in Seq(Cells)
  BY <1>1, <1>2, CellsAndNothing
<1>4. ~IsBinaryTag(i) /\ ~IsListTag(i)
  BY DEF IsBinaryTag, IsListTag, TAGS
<1>5. ASSUME NEW buf, NEW c, NEW within, Len(buf) \in Nat
      PROVE  Reads(buf, c, << >>, ReadStringOf(buf, c, i, within), s, Portable[s])
  <2>1. ReadStringOf(buf, c, i, within) = Read(s, c)
    <3>1. ReadStringOf(buf, c, i, within) = Read(ReadToken(SINGLE_BYTE_TOKENS, i), c)
      BY SingleTag
    <3>2. ReadToken(SINGLE_BYTE_TOKENS, i) = s
      BY <1>1 DEF ReadToken
    <3> QED BY <3>1, <3>2
  <2>2. Reads(buf, c, << >>, Read(s, c), s, TRUE)
    BY Zenon, <1>5, NothingReads
  <2>3. Portable[s] \in BOOLEAN
    BY PortableParts
  <2> QED BY Zenon, <2>1, <2>2, <2>3, ReadsWeaker
<1>6. TextForm(s, i, << >>)
  BY <1>3, <1>4, <1>5 DEF TextForm
<1>7. HasShortForm(s)
  BY DEF HasShortForm, SingleForm
<1> QED BY Zenon, <1>2, <1>3, <1>6, <1>7, ShortStarts

\* How a token of a dictionary is read.
LEMMA DoubleStarts ==
  ASSUME NEW s \in Strings, DoubleForm(s, WriteString[s])
  PROVE  \E t \in 0 .. 255, r \in Seq(Cells) : Started(s, t, r)
<1>1. PICK d \in 0 .. 3, i \in 0 .. 255 :
         /\ d \in DOMAIN DOUBLE_BYTE_TOKENS /\ i \in DOMAIN DOUBLE_BYTE_TOKENS[d]
         /\ DOUBLE_BYTE_TOKENS[d][i] = s
         /\ WriteString[s] = Cell(236 + d) \o Cell(i)
  BY Zenon DEF DoubleForm
<1> DEFINE t == 236 + d
<1>2. t \in 236 .. 239
  OBVIOUS
<1>3. ~IsBinaryTag(t) /\ ~IsListTag(t) /\ t \in 0 .. 255
  BY <1>2 DEF IsBinaryTag, IsListTag, TAGS
<1>4. Cell(i) \in Seq(Cells)
  BY Zenon, ByteCell
<1>5. ASSUME NEW buf, NEW c, NEW within, Len(buf) \in Nat
      PROVE  Reads(buf, c, Cell(i), ReadStringOf(buf, c, t, within), s, Portable[s])
  <2> DEFINE first == ReadByte(buf, c)
             result == ReadStringOf(buf, c, t, within)
  <2>1. Reads(buf, c, Cell(i), first, i, TRUE)
    BY Zenon, <1>5, ByteReads
  <2>2. /\ first = Error => result = Error
        /\ first # Error /\ first.value \in DOMAIN DOUBLE_BYTE_TOKENS[d]
              => result = Read(DOUBLE_BYTE_TOKENS[d][first.value], first.cursor)
    BY ZenonT(60), <1>1, DictionaryTag
  <2> HIDE DEF first, result
  <2>3. ASSUME first = Read(i, c + Len(Cell(i))) PROVE result = Read(s, c + Len(Cell(i)))
    <3>1. first # Error /\ first.value = i /\ first.cursor = c + Len(Cell(i))
      BY <2>3, ReadIsNoError
    <3> QED BY <1>1, <2>2, <3>1
  <2>4. Reads(buf, c, Cell(i), result, s, TRUE)
    BY Zenon, <2>1, <2>2, <2>3, SurelyMapped
  <2>5. Portable[s] \in BOOLEAN
    BY PortableParts
  <2>6. Reads(buf, c, Cell(i), result, s, Portable[s])
    BY Zenon, <2>4, <2>5, ReadsWeaker
  <2> QED BY <2>6 DEF result
<1> HIDE DEF t
<1>6. TextForm(s, t, Cell(i))
  BY <1>1, <1>3, <1>5 DEF TextForm, t
<1>7. HasShortForm(s)
  BY DEF HasShortForm, DoubleForm
<1> QED BY Zenon, <1>3, <1>4, <1>6, <1>7, ShortStarts

\* How a packed string is read.
LEMMA PackedStarts ==
  ASSUME NEW s \in Strings,
         NibbleForm(s, WriteString[s]) \/ HexForm(s, WriteString[s])
  PROVE  \E t \in 0 .. 255, r \in Seq(Cells) : Started(s, t, r)
<1> DEFINE Form(t, chars) ==
             /\ chars \in {NibbleChars, HexChars}
             /\ CanPack(s, chars)
             /\ t \in 0 .. 255
             /\ ~IsBinaryTag(t) /\ ~IsListTag(t)
             /\ WriteString[s] = WritePackedBytes(s, t, chars)
             /\ \A buf, c, within : ReadStringOf(buf, c, t, within) = ReadPacked(buf, c, chars)
<1>1. \E t, chars : Form(t, chars)
  <2>1. CASE NibbleForm(s, WriteString[s])
    <3>1. ASSUME NEW buf, NEW c, NEW within PROVE ReadStringOf(buf, c, 255, within) = ReadPacked(buf, c, NibbleChars)
      BY NibbleTag
    <3>2. 255 \in 0 .. 255 /\ ~IsBinaryTag(255) /\ ~IsListTag(255)
      BY DEF IsBinaryTag, IsListTag, TAGS
    <3>3. Form(255, NibbleChars)
      BY <2>1, <3>1, <3>2 DEF NibbleForm
    <3> HIDE DEF Form
    <3> QED BY <3>3
  <2>2. CASE HexForm(s, WriteString[s])
    <3>1. ASSUME NEW buf, NEW c, NEW within PROVE ReadStringOf(buf, c, 251, within) = ReadPacked(buf, c, HexChars)
      BY HexTag
    <3>2. 251 \in 0 .. 255 /\ ~IsBinaryTag(251) /\ ~IsListTag(251)
      BY DEF IsBinaryTag, IsListTag, TAGS
    <3>3. Form(251, HexChars)
      BY <2>2, <3>1, <3>2 DEF HexForm
    <3> HIDE DEF Form
    <3> QED BY <3>3
  <2> QED BY <2>1, <2>2
<1>2. PICK t, chars : Form(t, chars)
  BY <1>1
<1>3. PICK rest \in Seq(Cells) :
        /\ WritePackedBytes(s, t, chars) = Cell(t) \o rest
        /\ \A buf, c : Len(buf) \in Nat => Reads(buf, c, rest, ReadPacked(buf, c, chars), s, TRUE)
  BY Zenon, <1>2, PackedReads
<1>4. ASSUME NEW buf, NEW c, NEW within, Len(buf) \in Nat
      PROVE  Reads(buf, c, rest, ReadStringOf(buf, c, t, within), s, Portable[s])
  <2>1. ReadStringOf(buf, c, t, within) = ReadPacked(buf, c, chars)
    BY <1>2
  <2>2. Reads(buf, c, rest, ReadStringOf(buf, c, t, within), s, TRUE)
    BY Zenon, <1>3, <1>4, <2>1
  <2>3. Portable[s] \in BOOLEAN
    BY PortableParts
  <2> QED BY Zenon, <2>2, <2>3, ReadsWeaker
<1>5. WriteString[s] = Cell(t) \o rest /\ ~IsBinaryTag(t) /\ ~IsListTag(t) /\ t \in 0 .. 255
  BY <1>2, <1>3
<1> HIDE DEF Form
<1>6. TextForm(s, t, rest)
  BY <1>4, <1>5 DEF TextForm
<1>7. HasShortForm(s)
  BY DEF HasShortForm, NibbleForm, HexForm
<1> QED BY Zenon, <1>5, <1>6, <1>7, ShortStarts

\* A string is portable or not.
LEMMA PortableValue ==
  ASSUME NEW s \in Strings
  PROVE  Portable[s] \in BOOLEAN
BY PortableParts

\* How the user of a JID is read, the empty one too.
LEMMA UserReads ==
  ASSUME NEW s \in Strings, JidDecode(s) # NotAJid, NEW buf, NEW c \in Nat, NEW within,
         Correct(within, buf, c, Len(s)), NEW c1 \in Nat, c1 >= c
  PROVE  LET jid == JidDecode(s)
         IN  /\ Reads(buf, c1, UserCells(WriteString, s), within[c1], jid.user, Portable[jid.user])
             /\ Reads(buf, c1, WriteString[jid.user], within[c1], jid.user, Portable[jid.user])
             /\ Reads(buf, c1, WriteString[jid.server], within[c1], jid.server, Portable[jid.server])
<1> DEFINE user == JidDecode(s).user server == JidDecode(s).server
<1>1. user \in Strings /\ Len(user) < Len(s) /\ server \in Strings /\ Len(server) < Len(s)
  BY Zenon, JidParts
<1>2. Portable[user] \in BOOLEAN
  BY <1>1, PortableValue
<1> HIDE DEF user, server
<1>3. /\ Reads(buf, c1, Cell(0), within[c1], << >>, TRUE)
      /\ \A t \in Strings : Len(t) < Len(s) => Reads(buf, c1, WriteString[t], within[c1], t, Portable[t])
  BY Zenon DEF Correct
<1>4. Reads(buf, c1, WriteString[user], within[c1], user, Portable[user])
  BY <1>1, <1>3
<1>5. Reads(buf, c1, WriteString[server], within[c1], server, Portable[server])
  BY <1>1, <1>3
<1>6. CASE user = << >>
  <2>1. Reads(buf, c1, Cell(0), within[c1], user, Portable[user])
    BY Zenon, <1>2, <1>3, <1>6, ReadsWeaker
  <2> QED BY <1>4, <1>5, <1>6, <2>1 DEF UserCells, user, server
<1>7. CASE user # << >>
  BY <1>4, <1>5, <1>7 DEF UserCells, user, server
<1> QED BY <1>6, <1>7

\* The first is sure to be read.
LEMMA SurelyFirst ==
  ASSUME NEW S, NEW a \in Seq(S), NEW b \in Seq(S), NEW buf, Len(buf) \in Nat, NEW c,
         NEW first, NEW v1, Reads(buf, c, a, first, v1, TRUE),
         NEW result, NEW v, NEW sure \in BOOLEAN, first = Error => result = Error,
         first = Read(v1, c + Len(a)) => Reads(buf, c + Len(a), b, result, v, sure)
  PROVE  Reads(buf, c, a \o b, result, v, sure)
<1>1. ASSUME NEW sure1, sure1 = TRUE PROVE Reads(buf, c, a \o b, result, v, sure)
  <2>1. Reads(buf, c, a, first, v1, sure1)
    BY <1>1
  <2>2. sure => sure1
    BY <1>1
  <2>3. \A x : first = Read(x, c + Len(a)) /\ (sure1 => x = v1)
              => Reads(buf, c + Len(a), b, result, v, sure)
    BY <1>1
  <2> QED BY <2>1, <2>2, <2>3, ReadsJoined
<1> QED BY Zenon, <1>1

\* How a JID without a device is read.
LEMMA PairStarts ==
  ASSUME NEW s \in Strings, PairForm(WriteString, s, WriteString[s])
  PROVE  \E t \in 0 .. 255, r \in Seq(Cells) : Started(s, t, r)
<1> DEFINE user == JidDecode(s).user server == JidDecode(s).server
           a == UserCells(WriteString, s) b == WriteString[server]
           sure1 == Portable[user] sure2 == Portable[server]
<1>1. JidDecode(s) # NotAJid /\ WriteString[s] = Cell(250) \o (a \o b)
  BY DEF PairForm
<1>2. user \in Strings /\ server \in Strings /\ s = user \o <<"@">> \o server /\ server # << >>
  BY Zenon, <1>1, JidParts DEF PairForm
<1>3. a \in Seq(Cells) /\ b \in Seq(Cells) /\ a \o b \in Seq(Cells)
  <2>1. Cell(0) \in Seq(Cells)
    <3>1. 0 \in 0 .. 255
      OBVIOUS
    <3> QED BY <3>1, ByteCell
  <2>2. WriteString[user] \in Seq(Cells) /\ b \in Seq(Cells)
    BY <1>2, WriteStringUnfolds
  <2>3. a \in Seq(Cells)
    BY <2>1, <2>2 DEF UserCells
  <2> HIDE DEF a, b
  <2> QED BY <2>2, <2>3, CellsAssociative
<1>4. Portable[s] => sure1 /\ sure2
  BY <1>1, PortableParts DEF PairForm
<1>5. Portable[s] \in BOOLEAN /\ sure1 \in BOOLEAN /\ sure2 \in BOOLEAN
  BY <1>2, PortableValue
<1>6. \A buf, within : \A c, c1 \in Nat : Correct(within, buf, c, Len(s)) /\ c1 >= c =>
         /\ Reads(buf, c1, a, within[c1], user, sure1)
         /\ Reads(buf, c1, b, within[c1], server, sure2)
  BY Zenon, <1>1, UserReads
<1> HIDE DEF a, b, sure1, sure2
<1>7. ASSUME NEW buf, NEW c, NEW within, Len(buf) \in Nat, Correct(within, buf, c, Len(s))
      PROVE  Reads(buf, c, a \o b, ReadStringOf(buf, c, 250, within), s, Portable[s])
  <2> DEFINE first == within[c]
             second == within[first.cursor]
             result == ReadStringOf(buf, c, 250, within)
             sure == Portable[s]
  <2>1. CASE c \notin 1 .. Len(buf) + 1
    BY <2>1, ReadsOutside
  <2>2. CASE c \in 1 .. Len(buf) + 1
    <3>0. c \in Nat /\ Len(a) \in Nat
      BY <1>3, <2>2
    <3>1. Reads(buf, c, a, first, user, sure1)
      BY <1>6, <1>7, <3>0
    <3>2. /\ first = Error => result = Error
          /\ first # Error /\ second = Error => result = Error
          /\ first # Error /\ second # Error /\ second.value = << >> => result = Error
          /\ first # Error /\ second # Error /\ second.value # << >> =>
                 result = Read(first.value \o <<"@">> \o second.value, second.cursor)
      BY PairTag
    <3>3. sure \in BOOLEAN /\ (sure => sure1) /\ (sure => sure2)
      BY <1>4, <1>5
    <3> HIDE DEF result, sure, first
    <3>4. ASSUME NEW x, first = Read(x, c + Len(a)) /\ (sure1 => x = user)
          PROVE  Reads(buf, c + Len(a), b, result, s, sure)
      <4> DEFINE c1 == c + Len(a)
      <4>1. first # Error /\ first.value = x /\ first.cursor = c1
        BY <3>4, ReadIsNoError
      <4>2. c1 \in Nat /\ c1 >= c
        BY <3>0
      <4> HIDE DEF c1
      <4>3. Reads(buf, c1, b, second, server, sure2)
        BY <1>6, <1>7, <3>0, <4>1, <4>2
      <4> HIDE DEF second
      <4>4. ASSUME NEW y, second = Read(y, c1 + Len(b)) /\ (sure2 => y = server)
            PROVE  \/ ~sure /\ result = Error
                   \/ \E z : result = Read(z, c1 + Len(b)) /\ (sure => z = s)
        <5>1. second # Error /\ second.value = y /\ second.cursor = c1 + Len(b)
          BY <4>4, ReadIsNoError
        <5>2. CASE y = << >>
          BY <1>2, <3>2, <3>3, <4>1, <4>4, <5>1, <5>2
        <5>3. CASE y # << >>
          <6>1. result = Read(x \o <<"@">> \o y, c1 + Len(b))
            BY <3>2, <4>1, <5>1, <5>3
          <6>2. sure => x \o <<"@">> \o y = s
            BY Zenon, <1>2, <3>3, <3>4, <4>4
          <6> QED BY Zenon, <6>1, <6>2
        <5> QED BY <5>2, <5>3
      <4>5. second = Error => result = Error
        BY <3>2, <4>1
      <4>6. Reads(buf, c1, b, result, s, sure)
        BY <3>3, <4>3, <4>4, <4>5, ReadsMapped
      <4> QED BY <4>6 DEF c1
    <3>5. Reads(buf, c, a \o b, result, s, sure)
      <4>1. first = Error => result = Error
        BY <3>2
      <4> QED BY <1>3, <1>7, <3>1, <3>3, <3>4, <4>1, ReadsJoined
    <3> QED BY <3>5 DEF result, sure
  <2> QED BY <2>1, <2>2
<1>8. 250 \in 0 .. 255 /\ ~IsBinaryTag(250) /\ ~IsListTag(250)
  BY DEF IsBinaryTag, IsListTag, TAGS
<1>9. TextForm(s, 250, a \o b)
  BY <1>1, <1>7, <1>8 DEF TextForm
<1>10. HasShortForm(s)
  BY <1>1 DEF HasShortForm
<1> QED BY Zenon, <1>3, <1>8, <1>9, <1>10, ShortStarts

\* How a JID with a device is read: as the same JID, if it is portable.
LEMMA DeviceStarts ==
  ASSUME NEW s \in Strings, DeviceForm(WriteString, s, WriteString[s])
  PROVE  \E t \in 0 .. 255, r \in Seq(Cells) : Started(s, t, r)
<1> DEFINE jid == JidDecode(s)
           user == jid.user server == jid.server
           type == ServerToDomainType(server)
           device == jid.device % 256
           a == Cell(type) b == Cell(device) g == WriteString[user]
           sure1 == Portable[user]
           ServerOf(t) == DomainServers[IF t \in 1 .. 3 THEN t + 1 ELSE 1]
<1>1. jid # NotAJid /\ "device" \in DOMAIN jid /\ ~HasToken(s) /\ WriteString[s] = Cell(247) \o (a \o (b \o g))
  BY DEF DeviceForm
<1>2. user \in Strings /\ server \in Strings
  BY Zenon, <1>1, JidParts
<1>3. a \in Seq(Cells) /\ b \in Seq(Cells) /\ g \in Seq(Cells)
  <2>1. type \in 0 .. 3
    BY DomainTypes
  <2>2. type \in 0 .. 255
    BY <2>1
  <2>3. g \in Seq(Cells)
    BY <1>2, WriteStringUnfolds
  <2>4. b \in Seq(Cells)
    BY DeviceCell
  <2>5. a \in Seq(Cells)
    BY Zenon, <2>2, ByteCell
  <2> QED BY <2>3, <2>4, <2>5
<1>4. Portable[s] => sure1 /\ s = JidEncode(user, ServerOf(type), device)
  <2> HAVE Portable[s]
  <2>1. sure1 /\ server \in ToSet(DomainServers) /\ jid.device \in 0 .. 255 /\ s = JidEncode(user, server, jid.device)
    BY Zenon, <1>1, PortableParts
  <2>2. device = jid.device
    BY <2>1
  <2>3. ServerOf(type) = server
    BY <2>1, DomainTypes
  <2> QED BY <2>1, <2>2, <2>3
<1>5. Portable[s] \in BOOLEAN /\ sure1 \in BOOLEAN
  BY <1>2, PortableValue
<1>6. \A buf, within : \A c, c1 \in Nat : Correct(within, buf, c, Len(s)) /\ c1 >= c =>
         Reads(buf, c1, g, within[c1], user, sure1)
  BY <1>1, UserReads
<1>0. \A buf, c : Len(buf) \in Nat => Reads(buf, c, a, ReadByte(buf, c), type, TRUE)
                                    /\ Reads(buf, c, b, ReadByte(buf, c), device, TRUE)
  BY Zenon, ByteReads
<1> HIDE DEF a, b, g, sure1, type, device, user, ServerOf
<1>a. b \o g \in Seq(Cells) /\ a \o (b \o g) \in Seq(Cells)
  BY <1>3, CellsAssociative
<1>7. ASSUME NEW buf, NEW c, NEW within, Len(buf) \in Nat, Correct(within, buf, c, Len(s))
      PROVE  Reads(buf, c, a \o (b \o g), ReadStringOf(buf, c, 247, within), s, Portable[s])
  <2> DEFINE first == ReadByte(buf, c)
             second == ReadByte(buf, first.cursor)
             third == within[second.cursor]
             result == ReadStringOf(buf, c, 247, within)
             sure == Portable[s]
  <2>1. CASE c \notin 1 .. Len(buf) + 1
    BY <2>1, ReadsOutside
  <2>2. CASE c \in 1 .. Len(buf) + 1
    <3>0. c \in Nat /\ Len(a) \in Nat /\ Len(b) \in Nat
      BY <1>3, <2>2
    <3>1. Reads(buf, c, a, first, type, TRUE)
      BY Zenon, <1>0, <1>7
    <3>2. /\ first = Error => result = Error
          /\ first # Error /\ second = Error => result = Error
          /\ first # Error /\ second # Error /\ third = Error => result = Error
          /\ first # Error /\ second # Error /\ third # Error =>
                 result = Read(JidEncode(third.value, ServerOf(first.value), second.value), third.cursor)
      BY DeviceTag DEF ServerOf
    <3>3. sure \in BOOLEAN /\ (sure => sure1) /\ (sure => s = JidEncode(user, ServerOf(type), device))
      BY <1>4, <1>5
    <3> HIDE DEF result, sure, first
    <3>4. ASSUME first = Read(type, c + Len(a))
          PROVE  Reads(buf, c + Len(a), b \o g, result, s, sure)
      <4> DEFINE c1 == c + Len(a)
      <4>1. first # Error /\ first.value = type /\ first.cursor = c1
        BY <3>4, ReadIsNoError
      <4>2. c1 \in Nat /\ c1 >= c
        BY <3>0
      <4> HIDE DEF c1
      <4>3. Reads(buf, c1, b, second, device, TRUE)
        BY Zenon, <1>0, <1>7, <4>1
      <4> HIDE DEF second
      <4>4. ASSUME second = Read(device, c1 + Len(b))
            PROVE  Reads(buf, c1 + Len(b), g, result, s, sure)
        <5> DEFINE c2 == c1 + Len(b)
        <5>1. second # Error /\ second.value = device /\ second.cursor = c2
          BY <4>4, ReadIsNoError
        <5>2. c2 \in Nat /\ c2 >= c
          BY <3>0, <4>2
        <5> HIDE DEF c2
        <5>3. Reads(buf, c2, g, third, user, sure1)
          BY <1>6, <1>7, <3>0, <5>1, <5>2
        <5> HIDE DEF third
        <5>4. ASSUME NEW z, third = Read(z, c2 + Len(g)) /\ (sure1 => z = user)
              PROVE  \/ ~sure /\ result = Error
                     \/ \E w : result = Read(w, c2 + Len(g)) /\ (sure => w = s)
          <6>1. third # Error /\ third.value = z /\ third.cursor = c2 + Len(g)
            BY <5>4, ReadIsNoError
          <6>2. result = Read(JidEncode(z, ServerOf(type), device), c2 + Len(g))
            BY <3>2, <4>1, <5>1, <6>1
          <6>3. sure => JidEncode(z, ServerOf(type), device) = s
            BY <3>3, <5>4
          <6> QED BY <6>2, <6>3
        <5>5. third = Error => result = Error
          BY <3>2, <4>1, <5>1
        <5>6. Reads(buf, c2, g, result, s, sure)
          BY <3>3, <5>3, <5>4, <5>5, ReadsMapped
        <5> QED BY <5>6 DEF c2
      <4>5. second = Error => result = Error
        BY <3>2, <4>1
      <4>6. Reads(buf, c1, b \o g, result, s, sure)
        BY Zenon, <1>3, <1>7, <3>3, <4>3, <4>4, <4>5, SurelyFirst
      <4> QED BY <4>6 DEF c1
    <3>5. Reads(buf, c, a \o (b \o g), result, s, sure)
      <4>1. first = Error => result = Error
        BY <3>2
      <4> QED BY Zenon, <1>3, <1>a, <1>7, <3>1, <3>3, <3>4, <4>1, SurelyFirst
    <3> QED BY <3>5 DEF result, sure
  <2> QED BY <2>1, <2>2
<1>8. 247 \in 0 .. 255 /\ ~IsBinaryTag(247) /\ ~IsListTag(247)
  BY DEF IsBinaryTag, IsListTag, TAGS
<1>9. TextForm(s, 247, a \o (b \o g))
  BY <1>1, <1>7, <1>8 DEF TextForm
<1>10. HasShortForm(s)
  BY <1>1 DEF HasShortForm
<1> QED BY Zenon, <1>a, <1>8, <1>9, <1>10, ShortStarts
\* How a string of any form is read.
LEMMA StringStarts ==
  ASSUME NEW s \in Strings
  PROVE  \E tag \in 0 .. 255, rest \in Seq(Cells) : Started(s, tag, rest)
<1> DEFINE cells == WriteString[s]
<1>0. \/ RawForm(s, cells) \/ InheritedForm(s, cells) \/ SingleForm(s, cells) \/ DoubleForm(s, cells)
      \/ NibbleForm(s, cells) \/ HexForm(s, cells) \/ DeviceForm(WriteString, s, cells) \/ PairForm(WriteString, s, cells)
  <2>1. WriteString \in [Strings -> Seq(Cells)] /\ WriteString[s] = StringBody(WriteString, s)
    BY WriteStringUnfolds
  <2>2. LET body == StringBody(WriteString, s)
        IN  \/ RawForm(s, body) \/ InheritedForm(s, body) \/ SingleForm(s, body) \/ DoubleForm(s, body)
            \/ NibbleForm(s, body) \/ HexForm(s, body) \/ DeviceForm(WriteString, s, body) \/ PairForm(WriteString, s, body)
    BY <2>1, StringForms
  <2> QED BY <2>1, <2>2
<1>1. CASE RawForm(s, cells)
  <2>1. PICK tag \in 0 .. 255, rest \in Seq(Cells) : Binary(AsBlock(s), tag, rest) /\ WriteRawString(s) = Cell(tag) \o rest
    BY Zenon, RawStarts
  <2>2. Started(s, tag, rest)
    BY <1>1, <2>1 DEF Started, RawForm
  <2> QED BY Zenon, <2>1, <2>2
<1>2. CASE InheritedForm(s, cells)
  <2>1. 0 \in 0 .. 255
    OBVIOUS
  <2>2. Cell(0) = Cell(0) \o << >> /\ << >> \in Seq(Cells)
    BY <2>1, ByteCell, CellsAndNothing
  <2>3. Started(s, 0, << >>)
    BY <1>2, <2>2 DEF Started, InheritedForm
  <2> QED BY Zenon, <2>1, <2>2, <2>3
<1> HIDE DEF cells
<1> QED BY ZenonT(60), <1>0, <1>1, <1>2, SingleStarts, DoubleStarts, PackedStarts, DeviceStarts, PairStarts DEF cells

\* What readString() makes of a string, in any form.
LEMMA StringReads ==
  ASSUME NEW s \in Strings, NEW tag, NEW rest, Started(s, tag, rest),
         NEW buf, Len(buf) \in Nat, NEW c, NEW within, Correct(within, buf, c, Len(s))
  PROVE  Reads(buf, c, rest, ReadStringOf(buf, c, tag, within), s, Portable[s])
<1>0. Portable[s] \in BOOLEAN
  BY PortableValue
<1>1. CASE s \in InheritedNames /\ tag = 0 /\ rest = << >>
  <2>1. ReadStringOf(buf, c, tag, within) = Read(<< >>, c)
    BY <1>1, EmptyTag
  <2>2. Reads(buf, c, rest, Read(<< >>, c), << >>, TRUE)
    BY Zenon, <1>1, NothingReads
  <2>3. ~Portable[s]
    BY PortableParts, <1>1
  <2> QED BY <1>0, <2>1, <2>2, <2>3 DEF Reads
<1>2. CASE Binary(AsBlock(s), tag, rest)
  <2> DEFINE first == ReadBinary(buf, c, tag)
             result == ReadStringOf(buf, c, tag, within)
             block == AsBlock(s)
  <2>1. Reads(buf, c, rest, first, block, TRUE) /\ IsBinaryTag(tag)
    BY Zenon, <1>2 DEF Binary
  <2>2. /\ first = Error => result = Error
        /\ first # Error => result = Read(first.value.data, first.cursor)
    BY <2>1, BinaryTag
  <2>3. block.data = s
    BY DEF AsBlock
  <2> HIDE DEF first, result, block
  <2>4. ASSUME first = Read(block, c + Len(rest)) PROVE result = Read(s, c + Len(rest))
    <3>1. first # Error /\ first.value = block /\ first.cursor = c + Len(rest)
      BY <2>4, ReadIsNoError
    <3> QED BY <2>2, <2>3, <3>1
  <2>5. Reads(buf, c, rest, result, s, TRUE)
    BY Zenon, <2>1, <2>2, <2>4, SurelyMapped
  <2>6. Reads(buf, c, rest, result, s, Portable[s])
    BY Zenon, <1>0, <2>5, ReadsWeaker
  <2> QED BY <2>6 DEF result
<1>3. CASE TextForm(s, tag, rest)
  BY <1>3 DEF TextForm
<1> QED BY <1>1, <1>2, <1>3 DEF Started

-----------------------------------------------------------------------------
(* Recursion over the calls that are left and over the items of a list.     *)

\* A string from its tag on, with a reader for the strings in a JID.
TakeString(buf, c, within) ==
    Then(ReadByte(buf, c), LAMBDA tag, c1 : ReadStringOf(buf, c1, tag, within))

\* One attribute more, and one node more.
TakeAttr(buf, before) ==
    Then(before, LAMBDA attrs, c1 :
    Then(ReadString(buf, c1), LAMBDA key, c2 :
    Then(ReadString(buf, c2), LAMBDA value, c3 : Read(SetAttr(attrs, key, value), c3))))

TakeNode(within, before) ==
    Then(before, LAMBDA nodes, c1 :
    Then(within[c1], LAMBDA n, c2 : Read(Append(nodes, n), c2)))

\* The steps of the recursive functions over numbers.
Again(kind, p, i, x) ==
    CASE kind = "pieces" -> x \o p[i]
      [] kind = "strings" -> [c \in Cursors(p) |-> TakeString(p, c, x)]
      [] kind = "attrs" -> TakeAttr(p, x)
      [] kind = "children" -> TakeNode(p, x)
      [] kind = "nodes" -> [c \in Cursors(p) |-> ReadNode(p, c, x)]

\* One value more.
LEMMA Lengthened ==
  ASSUME NEW n \in Nat, NEW f, NEW x
  PROVE  LET g == [i \in 0 .. n + 1 |-> IF i \in 0 .. n THEN f[i] ELSE x]
         IN  /\ DOMAIN g = 0 .. n + 1 /\ g = [i \in 0 .. n + 1 |-> g[i]]
             /\ \A i \in 0 .. n : g[i] = f[i]
             /\ g[n + 1] = x
OBVIOUS

Recursive(f, kind, p, first, N) ==
    f = [i \in 0 .. N |-> IF i = 0 THEN first ELSE Again(kind, p, i, f[i - 1])]

\* A recursive function over numbers is unfolded.
LEMMA AgainAndAgain ==
  ASSUME NEW kind, NEW p, NEW first, NEW N \in Nat
  PROVE  \E f : Recursive(f, kind, p, first, N)
<1> DEFINE Step(i, x) == Again(kind, p, i, x)
           Fun(f, n) == f = [i \in 0 .. n |-> f[i]]
           P(f, n) == /\ Fun(f, n) /\ f[0] = first
                      /\ \A i \in 0 .. n - 1 : f[i + 1] = Step(i + 1, f[i])
           T == {n \in Nat : \E f : P(f, n)}
           Q(f) == f = [i \in 0 .. N |-> IF i = 0 THEN first ELSE Step(i, f[i - 1])]
<1> HIDE DEF Step
<1>1. 0 \in T
  <2> DEFINE f == [i \in 0 .. 0 |-> first]
  <2>1. P(f, 0)
    OBVIOUS
  <2> HIDE DEF P
  <2> QED BY <2>1
<1>2. ASSUME NEW n \in T PROVE n + 1 \in T
  <2>1. n \in Nat /\ \E f : P(f, n)
    <3> HIDE DEF P
    <3> QED BY <1>2
  <2>2. PICK f : P(f, n)
    BY <2>1
  <2> DEFINE x == Step(n + 1, f[n])
             g == [i \in 0 .. n + 1 |-> IF i \in 0 .. n THEN f[i] ELSE x]
  <2>3. g = [i \in 0 .. n + 1 |-> g[i]] /\ (\A i \in 0 .. n : g[i] = f[i]) /\ g[n + 1] = x
    <3> HIDE DEF x
    <3> QED BY <2>1, Lengthened
  <2> HIDE DEF g
  <2>4. g[0] = first
    <3>1. 0 \in 0 .. n
      BY <2>1
    <3> QED BY Zenon, <2>2, <2>3, <3>1
  <2>5. ASSUME NEW i \in 0 .. n PROVE g[i + 1] = Step(i + 1, g[i])
    <3>1. CASE i = n
      BY Zenon, <2>1, <2>3, <3>1
    <3>2. CASE i \in 0 .. n - 1
      <4>1. i + 1 \in 0 .. n
        BY <2>1, <3>2
      <4>2. f[i + 1] = Step(i + 1, f[i])
        BY Zenon, <2>2, <3>2
      <4> QED BY Zenon, <2>3, <4>1, <4>2
    <3> QED BY <2>1, <3>1, <3>2
  <2>6. n + 1 \in Nat /\ n + 1 - 1 = n
    BY <2>1
  <2>7. P(g, n + 1)
    <3>1. \A i \in 0 .. n + 1 - 1 : g[i + 1] = Step(i + 1, g[i])
      BY <2>5, <2>6
    <3>2. Fun(g, n + 1)
      BY <2>3
    <3> HIDE DEF Fun
    <3> QED BY <2>4, <3>1, <3>2
  <2> HIDE DEF P
  <2> QED BY <2>6, <2>7
<1>3. \E f : P(f, N)
  <2>1. T \in SUBSET Nat
    OBVIOUS
  <2> HIDE DEF P
  <2>2. N \in T
    <3> HIDE DEF T
    <3>1. T = Nat
      BY <1>1, <1>2, <2>1, Ind
    <3> QED BY <3>1
  <2> QED BY <2>2
<1>4. PICK f : P(f, N)
  BY Zenon, <1>3
<1>5. Q(f)
  <2>1. ASSUME NEW i \in 0 .. N PROVE f[i] = IF i = 0 THEN first ELSE Step(i, f[i - 1])
    <3>1. CASE i # 0
      <4>1. i - 1 \in 0 .. N - 1 /\ i - 1 + 1 = i
        BY <3>1
      <4> QED BY Zenon, <1>4, <3>1, <4>1
    <3> QED BY <1>4, <3>1
  <2>2. f = [i \in 0 .. N |-> f[i]]
    BY <1>4
  <2> QED BY Zenon, <2>1, <2>2
<1>6. Recursive(f, kind, p, first, N)
  BY <1>5 DEF Step, Recursive
<1> QED BY <1>6

StringCalls(buf, calls) ==
    \A left \in 0 .. Len(buf), c \in 1 .. Len(buf) + 1 :
        calls[left][c] = IF left = 0 THEN Error ELSE TakeString(buf, c, calls[left - 1])

\* Each call of readString() leaves one call fewer.
LEMMA StringReaderUnfolds ==
  ASSUME NEW buf, Len(buf) \in Nat
  PROVE  \E calls : StringCalls(buf, calls) /\ StringReader(buf) = calls[Len(buf)]
<1> DEFINE N == Len(buf)
           first == [c \in Cursors(buf) |-> Error]
           Body(f, left) == [c \in Cursors(buf) |-> IF left = 0 THEN Error ELSE TakeString(buf, c, f[left - 1])]
           Q(f) == f = [left \in 0 .. N |-> Body(f, left)]
           calls == CHOOSE f : Q(f)
<1>1. Q(calls)
  <2>1. PICK f : Recursive(f, "strings", buf, first, N)
    <3> HIDE DEF first
    <3> QED BY AgainAndAgain
  <2>2. \A left \in 0 .. N :
          (IF left = 0 THEN first ELSE Again("strings", buf, left, f[left - 1])) = Body(f, left)
    BY DEF Again
  <2>3. Q(f)
    <3> HIDE DEF Body, first
    <3> QED BY Zenon, <2>1, <2>2 DEF Recursive
  <2> HIDE DEF Q
  <2> QED BY <2>3
<1>2. StringReader(buf) = calls[N]
  BY DEF StringReader, TakeString
<1> HIDE DEF calls
<1>3. StringCalls(buf, calls)
  <2>1. ASSUME NEW left \in 0 .. Len(buf), NEW c \in 1 .. Len(buf) + 1
        PROVE  calls[left][c] = IF left = 0 THEN Error ELSE TakeString(buf, c, calls[left - 1])
    <3>1. calls[left] = Body(calls, left)
      <4> HIDE DEF Body
      <4> QED BY <1>1
    <3>2. c \in Cursors(buf)
      BY DEF Cursors
    <3> QED BY <3>1, <3>2
  <2> QED BY <2>1 DEF StringCalls
<1> QED BY <1>2, <1>3

LEMMA StringTaken ==
  ASSUME NEW buf, NEW c, NEW within
  PROVE  LET first == ReadByte(buf, c)
             result == TakeString(buf, c, within)
         IN  /\ first = Error => result = Error
             /\ first # Error => result = ReadStringOf(buf, first.cursor, first.value, within)
BY DEF TakeString, Then

\* Past the end there is nothing to read.
LEMMA NothingLeft ==
  ASSUME NEW buf, Len(buf) \in Nat, NEW c, ~(c <= Len(buf)) \/ c \notin 1 .. Len(buf) + 1,
         NEW cells, Len(cells) \in Nat \ {0}, NEW v, NEW sure
  PROVE  Reads(buf, c, cells, Error, v, sure)
<1>1. ~Stands(buf, c, cells)
  BY DEF Stands
<1> QED BY <1>1 DEF Reads

\* The tag of an empty list, as the empty user of a JID, takes one call.
LEMMA ReadersTakeEmpty ==
  ASSUME NEW buf, Len(buf) \in Nat, NEW calls, StringCalls(buf, calls),
         NEW left \in 0 .. Len(buf), NEW c \in Nat, left + c >= Len(buf) + 1
  PROVE  Reads(buf, c, Cell(0), calls[left][c], << >>, TRUE)
<1> DEFINE result == calls[left][c] cells == Cell(0) first == ReadByte(buf, c)
<1>0. Len(cells) = 1 /\ cells \in Seq(Cells)
  <2>1. 0 \in 0 .. 255
    OBVIOUS
  <2> QED BY <2>1, ByteCell
<1>1. CASE c \notin 1 .. Len(buf) + 1
  BY Zenon, <1>1, ReadsOutside
<1>2. CASE c \in 1 .. Len(buf) + 1 /\ left = 0
  <2>1. result = Error
    BY <1>2 DEF StringCalls
  <2>2. ~(c <= Len(buf))
    BY <1>2
  <2>3. Reads(buf, c, cells, Error, << >>, TRUE)
    <3>1. Len(cells) \in Nat \ {0}
      <4>1. 1 \in Nat \ {0}
        OBVIOUS
      <4> HIDE DEF cells
      <4> QED BY <1>0, <4>1
    <3> HIDE DEF cells
    <3> QED BY Zenon, <2>2, <3>1, NothingLeft
  <2> QED BY Zenon, <2>1, <2>3
<1>3. CASE c \in 1 .. Len(buf) + 1 /\ left # 0
  <2>1. result = TakeString(buf, c, calls[left - 1])
    BY <1>3 DEF StringCalls
  <2>2. Reads(buf, c, cells, first, 0, TRUE)
    BY Zenon, ByteReads
  <2> HIDE DEF result
  <2>3. /\ first = Error => result = Error
        /\ first # Error => result = ReadStringOf(buf, first.cursor, first.value, calls[left - 1])
    BY <2>1, StringTaken
  <2> HIDE DEF first, cells
  <2>4. ASSUME first = Read(0, c + Len(cells)) PROVE result = Read(<< >>, c + Len(cells))
    <3>1. first # Error /\ first.value = 0 /\ first.cursor = c + Len(cells)
      BY <2>4, ReadIsNoError
    <3>2. result = ReadStringOf(buf, c + Len(cells), 0, calls[left - 1])
      BY <2>3, <3>1
    <3> QED BY <3>2, EmptyTag
  <2>5. Reads(buf, c, cells, result, << >>, TRUE)
    BY Zenon, <2>2, <2>3, <2>4, SurelyMapped
  <2> QED BY Zenon, <2>5 DEF result, cells
<1> QED BY Zenon, <1>1, <1>2, <1>3

\* As many calls as cells are enough for every string that is there.
LEMMA ReadersTakeStrings ==
  ASSUME NEW buf, Len(buf) \in Nat, NEW calls, StringCalls(buf, calls)
  PROVE  \A s \in Strings, left \in 0 .. Len(buf), c \in Nat : left + c >= Len(buf) + 1 =>
            Reads(buf, c, WriteString[s], calls[left][c], s, Portable[s])
<1> DEFINE T == {s \in Strings : \A left \in 0 .. Len(buf), c \in Nat : left + c >= Len(buf) + 1 =>
                    Reads(buf, c, WriteString[s], calls[left][c], s, Portable[s])}
<1>1. ASSUME NEW s \in Strings, \A t \in Strings : Len(t) < Len(s) => t \in T,
             NEW left \in 0 .. Len(buf), NEW c \in Nat, left + c >= Len(buf) + 1
      PROVE  Reads(buf, c, WriteString[s], calls[left][c], s, Portable[s])
  <2> DEFINE sure == Portable[s] result == calls[left][c]
  <2>1. PICK tag \in 0 .. 255, rest \in Seq(Cells) : Started(s, tag, rest)
    BY Zenon, StringStarts
  <2>2. WriteString[s] = Cell(tag) \o rest
    BY Zenon, <2>1 DEF Started, TextForm
  <2>3. Cell(tag) \in Seq(Cells) /\ Len(Cell(tag)) = 1
    BY Zenon, ByteCell
  <2>4. sure \in BOOLEAN
    BY PortableValue
  <2>5. CASE c \notin 1 .. Len(buf) + 1
    BY Zenon, <2>5, ReadsOutside
  <2>6. CASE c \in 1 .. Len(buf) + 1 /\ left = 0
    <3>1. result = Error
      BY <2>6 DEF StringCalls
    <3>2. ~(c <= Len(buf))
      BY <1>1, <2>6
    <3>3. Len(WriteString[s]) \in Nat \ {0}
      <4> DEFINE a == Cell(tag)
      <4> HIDE DEF a
      <4>1. a \in Seq(Cells) /\ Len(a) = 1 /\ WriteString[s] = a \o rest
        BY <2>2, <2>3 DEF a
      <4>0. a \in Seq(Cells)
        BY <4>1
      <4>2. Len(a \o rest) = Len(a) + Len(rest) /\ Len(rest) \in Nat
        BY <4>0, ConcatProperties
      <4> QED BY <4>1, <4>2
    <3>4. Reads(buf, c, WriteString[s], Error, s, sure)
      BY <3>2, <3>3, NothingLeft
    <3> QED BY <3>1, <3>4
  <2>7. CASE c \in 1 .. Len(buf) + 1 /\ left # 0
    <3> DEFINE within == calls[left - 1] first == ReadByte(buf, c) a == Cell(tag)
    <3>1. result = TakeString(buf, c, within)
      BY <2>7 DEF StringCalls
    <3>2. Reads(buf, c, a, first, tag, TRUE)
      BY Zenon, ByteReads
    <3>3. a \in Seq(Cells) /\ Len(a) = 1 /\ WriteString[s] = a \o rest
      BY <2>2, <2>3
    <3>4. left - 1 \in 0 .. Len(buf) /\ \A c1 \in Nat : c1 >= c + 1 => (left - 1) + c1 >= Len(buf) + 1
      BY <1>1, <2>7
    <3>5. Correct(within, buf, c + 1, Len(s))
      <4>1. \A k \in 0 .. Len(buf), c1 \in Nat : k + c1 >= Len(buf) + 1 =>
                 Reads(buf, c1, Cell(0), calls[k][c1], << >>, TRUE)
        BY Zenon, ReadersTakeEmpty
      <4>2. \A t \in Strings : Len(t) < Len(s) =>
              \A k \in 0 .. Len(buf), c1 \in Nat : k + c1 >= Len(buf) + 1 =>
                 Reads(buf, c1, WriteString[t], calls[k][c1], t, Portable[t])
        BY <1>1
      <4> DEFINE k == left - 1
      <4>3. k \in 0 .. Len(buf) /\ \A c1 \in Nat : c1 >= c + 1 => k + c1 >= Len(buf) + 1
        BY <3>4
      <4> HIDE DEF k
      <4>4. ASSUME NEW c1 \in Nat, c1 >= c + 1
            PROVE  /\ Reads(buf, c1, Cell(0), calls[k][c1], << >>, TRUE)
                   /\ \A t \in Strings : Len(t) < Len(s) => Reads(buf, c1, WriteString[t], calls[k][c1], t, Portable[t])
        <5>1. k + c1 >= Len(buf) + 1
          BY <4>3, <4>4
        <5>2. Reads(buf, c1, Cell(0), calls[k][c1], << >>, TRUE)
          BY Zenon, <4>1, <4>3, <5>1
        <5>3. \A t \in Strings : Len(t) < Len(s) => Reads(buf, c1, WriteString[t], calls[k][c1], t, Portable[t])
          BY <4>2, <4>3, <5>1
        <5> QED BY Zenon, <5>2, <5>3
      <4>5. Correct(calls[k], buf, c + 1, Len(s))
        BY Zenon, <4>4 DEF Correct
      <4> QED BY <4>5 DEF k
    <3> HIDE DEF result, within, sure
    <3>6. /\ first = Error => result = Error
          /\ first # Error => result = ReadStringOf(buf, first.cursor, first.value, within)
      BY <3>1, StringTaken
    <3> HIDE DEF first, a
    <3>7. ASSUME first = Read(tag, c + Len(a)) PROVE Reads(buf, c + Len(a), rest, result, s, sure)
      <4>1. first # Error /\ first.value = tag /\ first.cursor = c + Len(a)
        BY <3>7, ReadIsNoError
      <4>2. result = ReadStringOf(buf, c + 1, tag, within)
        BY <3>3, <3>6, <4>1
      <4>3. Reads(buf, c + 1, rest, ReadStringOf(buf, c + 1, tag, within), s, sure)
        BY <2>1, <3>5, StringReads DEF sure
      <4> QED BY <3>3, <4>2, <4>3
    <3>8. Reads(buf, c, a \o rest, result, s, sure)
      BY Zenon, <2>4, <3>2, <3>3, <3>6, <3>7, SurelyFirst DEF sure
    <3> QED BY <3>3, <3>8 DEF result, sure
  <2> QED BY <2>5, <2>6, <2>7
<1>2. \A s \in Strings : s \in T
  <2>1. ASSUME NEW s \in Strings, \A t \in Strings : Len(t) < Len(s) => t \in T PROVE s \in T
    BY Zenon, <1>1, <2>1
  <2> HIDE DEF T
  <2> QED BY <2>1, StringInduction
<1> QED BY <1>2

\* readString() reads what writeString() has written.
LEMMA ReadStringReads ==
  ASSUME NEW buf, Len(buf) \in Nat
  PROVE  \A c \in Nat \ {0} :
           /\ Reads(buf, c, Cell(0), ReadString(buf, c), << >>, TRUE)
           /\ \A s \in Strings : Reads(buf, c, WriteString[s], ReadString(buf, c), s, Portable[s])
<1>1. PICK calls : StringCalls(buf, calls) /\ StringReader(buf) = calls[Len(buf)]
  BY StringReaderUnfolds
<1>2. ASSUME NEW c \in Nat \ {0}
      PROVE  /\ Reads(buf, c, Cell(0), ReadString(buf, c), << >>, TRUE)
             /\ \A s \in Strings : Reads(buf, c, WriteString[s], ReadString(buf, c), s, Portable[s])
  <2> DEFINE left == Len(buf)
  <2>1. left \in 0 .. Len(buf) /\ left + c >= Len(buf) + 1
    BY <1>2
  <2>2. ReadString(buf, c) = calls[left][c]
    BY <1>1 DEF ReadString
  <2> HIDE DEF left
  <2>3. Reads(buf, c, Cell(0), calls[left][c], << >>, TRUE)
    BY Zenon, <1>1, <2>1, ReadersTakeEmpty
  <2>4. \A s \in Strings : Reads(buf, c, WriteString[s], calls[left][c], s, Portable[s])
    BY <1>1, <2>1, ReadersTakeStrings
  <2> QED BY Zenon, <2>2, <2>3, <2>4
<1> QED BY Zenon, <1>2

\* readString() is a reader of strings of any length.
LEMMA StringReaderCorrect ==
  ASSUME NEW buf, Len(buf) \in Nat, NEW c \in Nat \ {0}, NEW l
  PROVE  Correct(StringReader(buf), buf, c, l)
<1>1. ASSUME NEW c1 \in Nat, c1 >= c
      PROVE  /\ Reads(buf, c1, Cell(0), StringReader(buf)[c1], << >>, TRUE)
             /\ \A t \in Strings : Len(t) < l => Reads(buf, c1, WriteString[t], StringReader(buf)[c1], t, Portable[t])
  <2>1. c1 \in Nat \ {0}
    BY <1>1
  <2> QED BY Zenon, <2>1, ReadStringReads DEF ReadString
<1> QED BY Zenon, <1>1 DEF Correct

-----------------------------------------------------------------------------
(* Lists.                                                                   *)

JoinedCalls(pieces, upTo) ==
    /\ upTo[0] = << >>
    /\ \A i \in 0 .. Len(pieces) - 1 : upTo[i + 1] = upTo[i] \o pieces[i + 1]

\* One piece more.
LEMMA JoinedUnfolds ==
  ASSUME NEW pieces, Len(pieces) \in Nat
  PROVE  \E upTo : JoinedCalls(pieces, upTo) /\ Joined(pieces) = upTo[Len(pieces)]
<1> DEFINE N == Len(pieces)
           Q(f) == f = [i \in 0 .. N |-> IF i = 0 THEN << >> ELSE f[i - 1] \o pieces[i]]
           upTo == CHOOSE f : Q(f)
<1>1. Q(upTo)
  <2>1. PICK f : Recursive(f, "pieces", pieces, << >>, N)
    BY AgainAndAgain
  <2>2. Q(f)
    BY <2>1 DEF Again, Recursive
  <2> HIDE DEF Q
  <2> QED BY <2>2
<1>2. Joined(pieces) = upTo[N]
  BY DEF Joined
<1> HIDE DEF upTo
<1>3. JoinedCalls(pieces, upTo)
  <2>1. upTo[0] = << >>
    BY <1>1
  <2>2. ASSUME NEW i \in 0 .. N - 1 PROVE upTo[i + 1] = upTo[i] \o pieces[i + 1]
    <3> DEFINE k == i + 1
    <3>1. k \in 0 .. N /\ k # 0 /\ k - 1 = i
      OBVIOUS
    <3> HIDE DEF k
    <3>2. upTo[k] = IF k = 0 THEN << >> ELSE upTo[k - 1] \o pieces[k]
      BY Zenon, <1>1, <3>1
    <3>3. upTo[k] = upTo[i] \o pieces[k]
      BY Zenon, <3>1, <3>2
    <3> QED BY <3>3 DEF k
  <2> QED BY Zenon, <2>1, <2>2 DEF JoinedCalls
<1> QED BY <1>2, <1>3

\* A loop that reads one piece after the other.
LEMMA LoopReads ==
  ASSUME NEW pieces, Len(pieces) \in Nat, \A i \in 1 .. Len(pieces) : pieces[i] \in Seq(Cells),
         NEW upTo, JoinedCalls(pieces, upTo),
         NEW buf, Len(buf) \in Nat, NEW c \in Nat, NEW results, NEW values, NEW sure \in BOOLEAN,
         results[0] = Read(values[0], c),
         \A i \in 0 .. Len(pieces) - 1 : results[i] = Error => results[i + 1] = Error,
         \A i \in 0 .. Len(pieces) - 1, c1 \in Nat : \A x :
            c1 >= c /\ results[i] = Read(x, c1) /\ (sure => x = values[i]) =>
            Reads(buf, c1, pieces[i + 1], results[i + 1], values[i + 1], sure)
  PROVE  /\ upTo[Len(pieces)] \in Seq(Cells)
         /\ Reads(buf, c, upTo[Len(pieces)], results[Len(pieces)], values[Len(pieces)], sure)
<1> DEFINE N == Len(pieces)
           T == {n \in Nat : n <= N => upTo[n] \in Seq(Cells) /\ Reads(buf, c, upTo[n], results[n], values[n], sure)}
<1>1. 0 \in T
  <2>1. upTo[0] = << >> /\ << >> \in Seq(Cells)
    BY CellsAndNothing DEF JoinedCalls
  <2>2. Reads(buf, c, << >>, Read(values[0], c), values[0], TRUE)
    BY Zenon, NothingReads
  <2>3. Reads(buf, c, << >>, Read(values[0], c), values[0], sure)
    BY Zenon, <2>2, ReadsWeaker
  <2> QED BY Zenon, <2>1, <2>3
<1>2. ASSUME NEW n \in T PROVE n + 1 \in T
  <2> SUFFICES ASSUME n + 1 <= N
               PROVE  upTo[n + 1] \in Seq(Cells) /\ Reads(buf, c, upTo[n + 1], results[n + 1], values[n + 1], sure)
    OBVIOUS
  <2>1. n \in 0 .. N - 1 /\ n + 1 \in 1 .. N
    OBVIOUS
  <2>2. upTo[n] \in Seq(Cells) /\ Reads(buf, c, upTo[n], results[n], values[n], sure)
    BY <2>1
  <2>3. upTo[n + 1] = upTo[n] \o pieces[n + 1] /\ pieces[n + 1] \in Seq(Cells)
    BY Zenon, <2>1 DEF JoinedCalls
  <2> DEFINE a == upTo[n] b == pieces[n + 1] first == results[n] result == results[n + 1] v1 == values[n] v == values[n + 1]
  <2>4. ASSUME NEW x, first = Read(x, c + Len(a)) /\ (sure => x = v1)
        PROVE  Reads(buf, c + Len(a), b, result, v, sure)
    <3> DEFINE c1 == c + Len(a)
    <3>1. Len(a) \in Nat
      BY <2>2
    <3>2. c1 \in Nat /\ c1 >= c
      BY <3>1
    <3>3. first = Read(x, c1) /\ (sure => x = v1)
      BY <2>4
    <3> HIDE DEF c1
    <3>4. Reads(buf, c1, b, result, v, sure)
      BY <2>1, <3>2, <3>3
    <3> QED BY <3>4 DEF c1
  <2>5. first = Error => result = Error
    BY <2>1
  <2>6. a \in Seq(Cells) /\ b \in Seq(Cells) /\ Reads(buf, c, a, first, v1, sure)
    BY <2>2, <2>3
  <2> HIDE DEF a, b, first, result, v1, v
  <2>7. Reads(buf, c, a \o b, result, v, sure)
    BY <2>4, <2>5, <2>6, ReadsJoined
  <2>8. a \o b \in Seq(Cells)
    BY <2>6, CellsAssociative
  <2> QED BY <2>3, <2>7, <2>8 DEF a, b, result, v
<1>3. N \in T
  <2>1. T \in SUBSET Nat
    OBVIOUS
  <2> HIDE DEF T, N
  <2>2. T = Nat
    BY Zenon, <1>1, <1>2, <2>1, Ind
  <2> QED BY <2>2 DEF N
<1> QED BY <1>3

LEMMA ReadsLessSure ==
  ASSUME NEW buf, NEW c, NEW cells, NEW result, NEW v, NEW sure1, NEW sure, sure => sure1,
         Reads(buf, c, cells, result, v, sure1)
  PROVE  Reads(buf, c, cells, result, v, sure)
BY DEF Reads

\* What one more attribute does to those read.
LEMMA AttrTaken ==
  ASSUME NEW buf, NEW before
  PROVE  LET key == ReadString(buf, before.cursor)
             value == ReadString(buf, key.cursor)
             result == TakeAttr(buf, before)
         IN  /\ before = Error => result = Error
             /\ before # Error /\ key = Error => result = Error
             /\ before # Error /\ key # Error /\ value = Error => result = Error
             /\ before # Error /\ key # Error /\ value # Error =>
                    result = Read(SetAttr(before.value, key.value, value.value), value.cursor)
BY DEF TakeAttr, Then

AttrCalls(buf, c, count, upTo) ==
    /\ upTo[0] = Read(<< >>, c)
    /\ \A i \in 0 .. count - 1 : upTo[i + 1] = TakeAttr(buf, upTo[i])

\* The loop over the attributes, turn by turn.
LEMMA ReadAttrsUnfolds ==
  ASSUME NEW buf, NEW c, NEW count \in Nat
  PROVE  \E upTo : AttrCalls(buf, c, count, upTo) /\ ReadAttrs(buf, c, count) = upTo[count]
<1> DEFINE Q(f) == f = [i \in 0 .. count |-> IF i = 0 THEN Read(<< >>, c) ELSE TakeAttr(buf, f[i - 1])]
           upTo == CHOOSE f : Q(f)
<1>1. Q(upTo)
  <2> DEFINE first == Read(<< >>, c)
  <2>1. PICK f : Recursive(f, "attrs", buf, first, count)
    <3> HIDE DEF first
    <3> QED BY AgainAndAgain
  <2>2. Q(f)
    BY <2>1 DEF Again, Recursive
  <2> HIDE DEF Q
  <2> QED BY <2>2
<1>2. ReadAttrs(buf, c, count) = upTo[count]
  BY DEF ReadAttrs, TakeAttr
<1> HIDE DEF upTo
<1>3. AttrCalls(buf, c, count, upTo)
  <2>1. upTo[0] = Read(<< >>, c)
    BY <1>1
  <2>2. ASSUME NEW i \in 0 .. count - 1 PROVE upTo[i + 1] = TakeAttr(buf, upTo[i])
    <3> DEFINE k == i + 1
    <3>1. k \in 0 .. count /\ k # 0 /\ k - 1 = i
      OBVIOUS
    <3> HIDE DEF k
    <3>2. upTo[k] = IF k = 0 THEN Read(<< >>, c) ELSE TakeAttr(buf, upTo[k - 1])
      BY <1>1, <3>1
    <3>3. upTo[k] = TakeAttr(buf, upTo[i])
      BY <3>1, <3>2
    <3> QED BY <3>3 DEF k
  <2> QED BY <2>1, <2>2 DEF AttrCalls
<1> QED BY <1>2, <1>3

LEMMA OneTaken ==
  ASSUME NEW S, NEW s \in Seq(S), NEW i \in 0 .. Len(s) - 1
  PROVE  Append(SubSeq(s, 1, i), s[i + 1]) = SubSeq(s, 1, i + 1)
<1> DEFINE a == SubSeq(s, 1, i) b == SubSeq(s, 1, i + 1) x == s[i + 1]
<1>0. Len(s) \in Nat /\ 1 \in 1 .. Len(s) + 1 /\ i \in 1 - 1 .. Len(s) /\ i + 1 \in 1 - 1 .. Len(s)
  OBVIOUS
<1>1. a \in Seq(S) /\ Len(a) = i - 1 + 1 /\ \A k \in 1 .. i - 1 + 1 : a[k] = s[1 + k - 1]
  BY <1>0, Part
<1>2. b \in Seq(S) /\ Len(b) = i + 1 - 1 + 1 /\ \A k \in 1 .. i + 1 - 1 + 1 : b[k] = s[1 + k - 1]
  <2> DEFINE n == i + 1
  <2>1. n \in 1 - 1 .. Len(s)
    BY <1>0
  <2> HIDE DEF n
  <2>2. SubSeq(s, 1, n) \in Seq(S) /\ Len(SubSeq(s, 1, n)) = n - 1 + 1 /\ \A k \in 1 .. n - 1 + 1 : SubSeq(s, 1, n)[k] = s[1 + k - 1]
    BY <1>0, <2>1, Part
  <2> QED BY <2>2 DEF n
<1>3. Len(a) = i /\ (\A k \in 1 .. i : a[k] = s[k]) /\ Len(b) = i + 1 /\ (\A k \in 1 .. i + 1 : b[k] = s[k])
  BY <1>1, <1>2
<1>4. x \in S
  BY <1>0
<1> HIDE DEF a, b, x
<1>5. Len(Append(a, x)) = i + 1 /\ Append(a, x) \in Seq(S) /\ (\A k \in 1 .. i : Append(a, x)[k] = a[k]) /\ Append(a, x)[i + 1] = x
  BY <1>1, <1>3, <1>4, AppendProperties
<1>6. \A k \in 1 .. i + 1 : Append(a, x)[k] = b[k]
  BY <1>3, <1>5 DEF x
<1>7. Append(a, x) = b
  BY <1>2, <1>3, <1>5, <1>6, SeqEqual
<1> QED BY <1>7 DEF a, b, x

\* attrs[key] = value of a new key.
LEMMA NewAttr ==
  ASSUME NEW attrs \in Seq(Strings \X Strings), NEW i \in 0 .. Len(attrs) - 1,
         \A j, k \in DOMAIN attrs : attrs[j][1] = attrs[k][1] => j = k
  PROVE  SetAttr(SubSeq(attrs, 1, i), attrs[i + 1][1], attrs[i + 1][2]) = SubSeq(attrs, 1, i + 1)
<1> DEFINE a == SubSeq(attrs, 1, i) x == attrs[i + 1]
<1>0. Len(attrs) \in Nat /\ DOMAIN attrs = 1 .. Len(attrs) /\ 1 \in 1 .. Len(attrs) + 1 /\ i \in 1 - 1 .. Len(attrs)
      /\ i + 1 \in 1 .. Len(attrs)
  OBVIOUS
<1>1. a \in Seq(Strings \X Strings) /\ Len(a) = i - 1 + 1 /\ \A k \in 1 .. i - 1 + 1 : a[k] = attrs[1 + k - 1]
  BY <1>0, Part
<1>2. DOMAIN a = 1 .. i /\ \A k \in 1 .. i : a[k] = attrs[k]
  BY <1>1
<1>3. ~ \E k \in DOMAIN a : a[k][1] = x[1]
  <2> SUFFICES ASSUME NEW k \in DOMAIN a, a[k][1] = x[1] PROVE FALSE
    OBVIOUS
  <2>1. k \in 1 .. Len(attrs) /\ k # i + 1 /\ attrs[k][1] = x[1]
    BY <1>0, <1>2
  <2> QED BY Zenon, <1>0, <2>1
<1>4. x = <<x[1], x[2]>>
  <2>1. x \in Strings \X Strings
    BY <1>0
  <2> HIDE DEF x
  <2> QED BY <2>1
<1> HIDE DEF a, x
<1>5. SetAttr(a, x[1], x[2]) = Append(a, x)
  BY <1>3, <1>4 DEF SetAttr
<1>6. Append(a, x) = SubSeq(attrs, 1, i + 1)
  BY OneTaken DEF a, x
<1> QED BY Zenon, <1>5, <1>6 DEF a, x

AttrPieces(attrs) == [i \in DOMAIN attrs |-> WriteString[attrs[i][1]] \o WriteString[attrs[i][2]]]

\* The attributes are read as written: with different keys, none replaces another.
LEMMA AttrsRead ==
  ASSUME NEW attrs \in Seq(Strings \X Strings),
         \A j, k \in DOMAIN attrs : attrs[j][1] = attrs[k][1] => j = k,
         NEW buf, Len(buf) \in Nat, NEW c \in Nat \ {0}, NEW sure \in BOOLEAN,
         sure => \A i \in DOMAIN attrs : Portable[attrs[i][1]] /\ Portable[attrs[i][2]]
  PROVE  /\ WriteAttrs(attrs) \in Seq(Cells)
         /\ Reads(buf, c, WriteAttrs(attrs), ReadAttrs(buf, c, Len(attrs)), attrs, sure)
<1> DEFINE N == Len(attrs)
           pieces == AttrPieces(attrs)
           values == [i \in 0 .. N |-> SubSeq(attrs, 1, i)]
<1>0. N \in Nat /\ DOMAIN attrs = 1 .. N /\ Len(pieces) = N /\ DOMAIN pieces = 1 .. N
  BY DEF AttrPieces
<1>1. ASSUME NEW i \in 1 .. N
      PROVE  /\ attrs[i][1] \in Strings /\ attrs[i][2] \in Strings
             /\ WriteString[attrs[i][1]] \in Seq(Cells) /\ WriteString[attrs[i][2]] \in Seq(Cells)
             /\ pieces[i] = WriteString[attrs[i][1]] \o WriteString[attrs[i][2]]
             /\ pieces[i] \in Seq(Cells)
  <2>1. attrs[i][1] \in Strings /\ attrs[i][2] \in Strings
    BY <1>0
  <2> DEFINE a == WriteString[attrs[i][1]] b == WriteString[attrs[i][2]]
  <2>2. a \in Seq(Cells) /\ b \in Seq(Cells)
    BY <2>1, WriteStringUnfolds
  <2>3. pieces[i] = a \o b
    BY Zenon, <1>0 DEF AttrPieces
  <2> HIDE DEF pieces
  <2>4. pieces[i] \in Seq(Cells)
    <3> HIDE DEF a, b
    <3> QED BY <2>2, <2>3, CellsAssociative
  <2> QED BY <2>1, <2>2, <2>3, <2>4
<1>2. WriteAttrs(attrs) = Joined(pieces)
  BY DEF WriteAttrs, AttrPieces
<1> HIDE DEF pieces, values
<1>3. PICK upTo : JoinedCalls(pieces, upTo) /\ Joined(pieces) = upTo[N]
  BY <1>0, JoinedUnfolds
<1>4. PICK results : AttrCalls(buf, c, N, results) /\ ReadAttrs(buf, c, N) = results[N]
  BY SMTT(30), <1>0, ReadAttrsUnfolds
<1>5. values[0] = << >> /\ values[N] = attrs
  <2>1. SubSeq(attrs, 1, 0) = << >>
    OBVIOUS
  <2>2. SubSeq(attrs, 1, N) = attrs
    OBVIOUS
  <2>3. 0 \in 0 .. N /\ N \in 0 .. N
    BY <1>0
  <2> QED BY <2>1, <2>2, <2>3 DEF values
<1>6. results[0] = Read(values[0], c)
  BY <1>4, <1>5 DEF AttrCalls
<1>7. ASSUME NEW i \in 0 .. N - 1 PROVE results[i] = Error => results[i + 1] = Error
  <2>1. results[i + 1] = TakeAttr(buf, results[i])
    BY <1>4 DEF AttrCalls
  <2> QED BY <2>1, AttrTaken
<1>8. ASSUME NEW i \in 0 .. N - 1, NEW c1 \in Nat, NEW x,
             c1 >= c /\ results[i] = Read(x, c1) /\ (sure => x = values[i])
      PROVE  Reads(buf, c1, pieces[i + 1], results[i + 1], values[i + 1], sure)
  <2> DEFINE k == attrs[i + 1][1] v == attrs[i + 1][2]
             before == results[i] key == ReadString(buf, before.cursor)
             value == ReadString(buf, key.cursor) result == results[i + 1]
             a == WriteString[k] b == WriteString[v]
  <2>1. result = TakeAttr(buf, before)
    BY <1>4 DEF AttrCalls
  <2>2. /\ before = Error => result = Error
        /\ before # Error /\ key = Error => result = Error
        /\ before # Error /\ key # Error /\ value = Error => result = Error
        /\ before # Error /\ key # Error /\ value # Error =>
               result = Read(SetAttr(before.value, key.value, value.value), value.cursor)
    BY <2>1, AttrTaken
  <2>3. i + 1 \in 1 .. N /\ c1 \in Nat \ {0}
    BY <1>0, <1>8
  <2>4. k \in Strings /\ v \in Strings /\ a \in Seq(Cells) /\ b \in Seq(Cells) /\ pieces[i + 1] = a \o b
    BY Zenon, <1>1, <2>3
  <2>5. (sure => Portable[k]) /\ (sure => Portable[v])
    BY <1>0, <2>3
  <2>6. before # Error /\ before.value = x /\ before.cursor = c1
    BY <1>8, ReadIsNoError
  <2>7. \A c2 \in Nat \ {0} : Reads(buf, c2, a, ReadString(buf, c2), k, Portable[k])
                           /\ Reads(buf, c2, b, ReadString(buf, c2), v, Portable[v])
    BY Zenon, <2>4, ReadStringReads
  <2>8. values[i] = SubSeq(attrs, 1, i) /\ values[i + 1] = SubSeq(attrs, 1, i + 1)
    <3>1. i \in 0 .. N /\ i + 1 \in 0 .. N
      BY <1>0
    <3> QED BY <3>1 DEF values
  <2>9. SetAttr(values[i], k, v) = values[i + 1]
    BY Zenon, <2>8, NewAttr
  <2> HIDE DEF k, v, before, a, b, result
  <2>10. Reads(buf, c1, a, key, k, sure)
    <3>1. Reads(buf, c1, a, key, k, Portable[k])
      BY <2>3, <2>6, <2>7
    <3> HIDE DEF key
    <3> QED BY <2>5, <3>1, ReadsLessSure
  <2> HIDE DEF key
  <2>11. ASSUME NEW y, key = Read(y, c1 + Len(a)) /\ (sure => y = k)
         PROVE  Reads(buf, c1 + Len(a), b, result, values[i + 1], sure)
    <3> DEFINE c2 == c1 + Len(a)
    <3>1. key # Error /\ key.value = y /\ key.cursor = c2
      BY <2>11, ReadIsNoError
    <3>2. c2 \in Nat \ {0}
      <4>1. Len(a) \in Nat
        BY <2>4
      <4> QED BY <2>3, <4>1
    <3> HIDE DEF c2
    <3>3. Reads(buf, c2, b, value, v, sure)
      <4>1. Reads(buf, c2, b, value, v, Portable[v])
        BY <2>7, <3>1, <3>2
      <4> HIDE DEF value
      <4> QED BY <2>5, <4>1, ReadsLessSure
    <3> HIDE DEF value
    <3>4. value = Error => result = Error
      BY <2>2, <2>6, <3>1
    <3>5. ASSUME NEW z, value = Read(z, c2 + Len(b)) /\ (sure => z = v)
          PROVE  \/ ~sure /\ result = Error
                 \/ \E w : result = Read(w, c2 + Len(b)) /\ (sure => w = values[i + 1])
      <4>1. value # Error /\ value.value = z /\ value.cursor = c2 + Len(b)
        BY <3>5, ReadIsNoError
      <4>2. result = Read(SetAttr(x, y, z), c2 + Len(b))
        BY <2>2, <2>6, <3>1, <4>1
      <4>3. sure => SetAttr(x, y, z) = values[i + 1]
        BY <1>8, <2>9, <2>11, <3>5
      <4> QED BY <4>2, <4>3
    <3>6. Reads(buf, c2, b, result, values[i + 1], sure)
      BY <3>3, <3>4, <3>5, ReadsMapped
    <3> QED BY <3>6 DEF c2
  <2>12. key = Error => result = Error
    BY <2>2, <2>6
  <2>13. Reads(buf, c1, a \o b, result, values[i + 1], sure)
    BY <2>4, <2>10, <2>11, <2>12, ReadsJoined
  <2> QED BY <2>4, <2>13 DEF result
<1>9. upTo[N] \in Seq(Cells) /\ Reads(buf, c, upTo[N], results[N], values[N], sure)
  <2>1. c \in Nat /\ Len(pieces) = N /\ N \in Nat /\ \A i \in 1 .. Len(pieces) : pieces[i] \in Seq(Cells)
    BY Zenon, <1>0, <1>1
  <2>2. \A i \in 0 .. Len(pieces) - 1 : results[i] = Error => results[i + 1] = Error
    BY <1>7, <2>1
  <2>3. \A i \in 0 .. Len(pieces) - 1, c1 \in Nat : \A x :
            c1 >= c /\ results[i] = Read(x, c1) /\ (sure => x = values[i]) =>
            Reads(buf, c1, pieces[i + 1], results[i + 1], values[i + 1], sure)
    BY <1>8, <2>1
  <2>4. upTo[Len(pieces)] \in Seq(Cells) /\ Reads(buf, c, upTo[Len(pieces)], results[Len(pieces)], values[Len(pieces)], sure)
    <3> HIDE DEF N
    <3>1. Len(pieces) \in Nat
      BY <2>1
    <3> QED BY Zenon, <1>3, <1>6, <2>1, <2>2, <2>3, <3>1, LoopReads
  <2> QED BY <2>1, <2>4
<1> QED BY <1>2, <1>3, <1>4, <1>5, <1>9

\* Pieces of cells make cells.
LEMMA JoinedType ==
  ASSUME NEW pieces, Len(pieces) \in Nat, \A i \in 1 .. Len(pieces) : pieces[i] \in Seq(Cells)
  PROVE  Joined(pieces) \in Seq(Cells)
<1> DEFINE N == Len(pieces)
<1>1. PICK upTo : JoinedCalls(pieces, upTo) /\ Joined(pieces) = upTo[N]
  BY JoinedUnfolds
<1> DEFINE T == {n \in Nat : n <= N => upTo[n] \in Seq(Cells)}
<1>2. 0 \in T
  <2>1. upTo[0] = << >>
    BY <1>1 DEF JoinedCalls
  <2>2. << >> \in Seq(Cells)
    OBVIOUS
  <2> QED BY Zenon, <2>1, <2>2
<1>3. ASSUME NEW n \in T PROVE n + 1 \in T
  <2> SUFFICES ASSUME n + 1 <= N PROVE upTo[n + 1] \in Seq(Cells)
    OBVIOUS
  <2>1. n \in 0 .. N - 1 /\ n + 1 \in 1 .. N /\ n <= N
    OBVIOUS
  <2>2. upTo[n] \in Seq(Cells) /\ pieces[n + 1] \in Seq(Cells)
    BY <2>1
  <2>3. upTo[n + 1] = upTo[n] \o pieces[n + 1]
    BY Zenon, <1>1, <2>1 DEF JoinedCalls
  <2> DEFINE a == upTo[n] b == pieces[n + 1]
  <2>4. a \o b \in Seq(Cells)
    <3> HIDE DEF a, b
    <3>1. a \in Seq(Cells) /\ b \in Seq(Cells)
      BY <2>2 DEF a, b
    <3> QED BY <3>1, CellsAssociative
  <2> QED BY <2>3, <2>4
<1>4. N \in T
  <2>1. T \in SUBSET Nat
    OBVIOUS
  <2> HIDE DEF T, N
  <2>2. T = Nat
    BY Zenon, <1>2, <1>3, <2>1, Ind
  <2> QED BY <2>2 DEF N
<1> QED BY <1>1, <1>4

LEMMA NodeTaken ==
  ASSUME NEW within, NEW before
  PROVE  LET n == within[before.cursor]
             result == TakeNode(within, before)
         IN  /\ before = Error => result = Error
             /\ before # Error /\ n = Error => result = Error
             /\ before # Error /\ n # Error => result = Read(Append(before.value, n.value), n.cursor)
BY DEF TakeNode, Then

NodeCalls(c, count, within, upTo) ==
    /\ upTo[0] = Read(<< >>, c)
    /\ \A i \in 0 .. count - 1 : upTo[i + 1] = TakeNode(within, upTo[i])

\* The loop of readNodeList(), turn by turn.
LEMMA ReadNodesUnfolds ==
  ASSUME NEW c, NEW count \in Nat, NEW within
  PROVE  \E upTo : NodeCalls(c, count, within, upTo) /\ ReadNodes(c, count, within) = upTo[count]
<1> DEFINE Q(f) == f = [i \in 0 .. count |-> IF i = 0 THEN Read(<< >>, c) ELSE TakeNode(within, f[i - 1])]
           upTo == CHOOSE f : Q(f)
<1>1. Q(upTo)
  <2> DEFINE first == Read(<< >>, c)
  <2>1. PICK f : Recursive(f, "children", within, first, count)
    <3> HIDE DEF first
    <3> QED BY AgainAndAgain
  <2>2. Q(f)
    BY <2>1 DEF Again, Recursive
  <2> HIDE DEF Q
  <2> QED BY <2>2
<1>2. ReadNodes(c, count, within) = upTo[count]
  BY DEF ReadNodes, TakeNode
<1> HIDE DEF upTo
<1>3. NodeCalls(c, count, within, upTo)
  <2>1. upTo[0] = Read(<< >>, c)
    BY <1>1
  <2>2. ASSUME NEW i \in 0 .. count - 1 PROVE upTo[i + 1] = TakeNode(within, upTo[i])
    <3> DEFINE k == i + 1
    <3>1. k \in 0 .. count /\ k # 0 /\ k - 1 = i
      OBVIOUS
    <3> HIDE DEF k
    <3>2. upTo[k] = IF k = 0 THEN Read(<< >>, c) ELSE TakeNode(within, upTo[k - 1])
      BY <1>1, <3>1
    <3>3. upTo[k] = TakeNode(within, upTo[i])
      BY <3>1, <3>2
    <3> QED BY <3>3 DEF k
  <2> QED BY <2>1, <2>2 DEF NodeCalls
<1> QED BY <1>2, <1>3

\* The nodes of a list are read as written, if each of them is.
LEMMA NodesRead ==
  ASSUME NEW S, NEW nodes \in Seq(S), NEW pieces, Len(pieces) = Len(nodes),
         \A i \in 1 .. Len(nodes) : pieces[i] \in Seq(Cells),
         NEW buf, Len(buf) \in Nat, NEW c \in Nat, NEW within, NEW sure \in BOOLEAN,
         \A i \in 1 .. Len(nodes), c1 \in Nat : c1 >= c => Reads(buf, c1, pieces[i], within[c1], nodes[i], sure)
  PROVE  Reads(buf, c, Joined(pieces), ReadNodes(c, Len(nodes), within), nodes, sure)
<1> DEFINE N == Len(nodes)
           values == [i \in 0 .. N |-> SubSeq(nodes, 1, i)]
<1>0. N \in Nat /\ Len(pieces) = N /\ Len(pieces) \in Nat
  OBVIOUS
<1> HIDE DEF values
<1>3. PICK upTo : JoinedCalls(pieces, upTo) /\ Joined(pieces) = upTo[N]
  BY <1>0, JoinedUnfolds
<1>4. PICK results : NodeCalls(c, N, within, results) /\ ReadNodes(c, N, within) = results[N]
  BY <1>0, ReadNodesUnfolds
<1>5. values[0] = << >> /\ values[N] = nodes
  <2>1. SubSeq(nodes, 1, 0) = << >>
    OBVIOUS
  <2>2. SubSeq(nodes, 1, N) = nodes
    OBVIOUS
  <2>3. 0 \in 0 .. N /\ N \in 0 .. N
    BY <1>0
  <2> QED BY <2>1, <2>2, <2>3 DEF values
<1>6. results[0] = Read(values[0], c)
  BY <1>4, <1>5 DEF NodeCalls
<1>7. ASSUME NEW i \in 0 .. N - 1 PROVE results[i] = Error => results[i + 1] = Error
  <2>1. results[i + 1] = TakeNode(within, results[i])
    BY <1>4 DEF NodeCalls
  <2> QED BY <2>1, NodeTaken
<1>8. ASSUME NEW i \in 0 .. N - 1, NEW c1 \in Nat, NEW x,
             c1 >= c /\ results[i] = Read(x, c1) /\ (sure => x = values[i])
      PROVE  Reads(buf, c1, pieces[i + 1], results[i + 1], values[i + 1], sure)
  <2> DEFINE before == results[i] n == within[before.cursor] result == results[i + 1] a == pieces[i + 1] v == nodes[i + 1]
  <2>1. result = TakeNode(within, before)
    BY <1>4 DEF NodeCalls
  <2>2. /\ before = Error => result = Error
        /\ before # Error /\ n = Error => result = Error
        /\ before # Error /\ n # Error => result = Read(Append(before.value, n.value), n.cursor)
    BY <2>1, NodeTaken
  <2>3. i + 1 \in 1 .. N
    BY <1>0
  <2>4. Reads(buf, c1, a, within[c1], v, sure)
    BY <1>8, <2>3
  <2>5. before # Error /\ before.value = x /\ before.cursor = c1
    BY <1>8, ReadIsNoError
  <2>6. values[i] = SubSeq(nodes, 1, i) /\ values[i + 1] = SubSeq(nodes, 1, i + 1)
    <3>1. i \in 0 .. N /\ i + 1 \in 0 .. N
      BY <1>0
    <3> QED BY <3>1 DEF values
  <2>7. Append(values[i], v) = values[i + 1]
    BY <2>6, OneTaken
  <2> HIDE DEF v, before, a, result
  <2>8. Reads(buf, c1, a, n, v, sure)
    BY <2>4, <2>5
  <2> HIDE DEF n
  <2>9. n = Error => result = Error
    BY <2>2, <2>5
  <2>10. ASSUME NEW z, n = Read(z, c1 + Len(a)) /\ (sure => z = v)
         PROVE  \/ ~sure /\ result = Error
                \/ \E w : result = Read(w, c1 + Len(a)) /\ (sure => w = values[i + 1])
    <3>1. n # Error /\ n.value = z /\ n.cursor = c1 + Len(a)
      BY <2>10, ReadIsNoError
    <3>2. result = Read(Append(x, z), c1 + Len(a))
      BY <2>2, <2>5, <3>1
    <3>3. sure => Append(x, z) = values[i + 1]
      BY Zenon, <1>8, <2>7, <2>10
    <3> QED BY Zenon, <3>2, <3>3
  <2>11. Reads(buf, c1, a, result, values[i + 1], sure)
    BY <2>8, <2>9, <2>10, ReadsMapped
  <2> QED BY <2>11 DEF result, a
<1>9. upTo[N] \in Seq(Cells) /\ Reads(buf, c, upTo[N], results[N], values[N], sure)
  <2>1. Len(pieces) = N /\ N \in Nat /\ \A i \in 1 .. Len(pieces) : pieces[i] \in Seq(Cells)
    BY <1>0
  <2>2. \A i \in 0 .. Len(pieces) - 1 : results[i] = Error => results[i + 1] = Error
    BY <1>7, <2>1
  <2>3. \A i \in 0 .. Len(pieces) - 1, c1 \in Nat : \A x :
            c1 >= c /\ results[i] = Read(x, c1) /\ (sure => x = values[i]) =>
            Reads(buf, c1, pieces[i + 1], results[i + 1], values[i + 1], sure)
    BY <1>8, <2>1
  <2>4. upTo[Len(pieces)] \in Seq(Cells) /\ Reads(buf, c, upTo[Len(pieces)], results[Len(pieces)], values[Len(pieces)], sure)
    <3> HIDE DEF N
    <3>1. Len(pieces) \in Nat
      BY <2>1
    <3> QED BY Zenon, <1>3, <1>6, <2>1, <2>2, <2>3, <3>1, LoopReads
  <2> QED BY <2>1, <2>4
<1> QED BY <1>3, <1>4, <1>5, <1>9

-----------------------------------------------------------------------------
(* Nodes.                                                                   *)

\* What a node is made of.
LEMMA NodeParts ==
  ASSUME NEW n \in Nodes
  PROVE  /\ n.tag \in Strings /\ n.attrs \in Seq(Strings \X Strings)
         /\ \A i, j \in DOMAIN n.attrs : n.attrs[i][1] = n.attrs[j][1] => i = j
         /\ Children(n) \in Seq(Nodes) /\ Len(Children(n)) \in Nat /\ Len(Children(n)) <= MaxListSize
         /\ DOMAIN Children(n) = 1 .. Len(Children(n))
         /\ \A i \in DOMAIN Children(n) : Children(n)[i] \in Nodes /\ Depth[Children(n)[i]] < Depth[n]
         /\ Depth[n] \in 0 .. MaxDepth
         /\ 2 * Len(n.attrs) + 2 <= MaxListSize
<1>1. /\ n \in [tag : Strings, attrs : Seq(Strings \X Strings),
                content : {NoContent} \cup [string : Strings] \cup [bytes : Blocks] \cup [nodes : Seq(Nodes)]]
      /\ 2 * Len(n.attrs) + 2 <= MaxListSize /\ Len(Children(n)) <= MaxListSize
      /\ \A i, j \in DOMAIN n.attrs : n.attrs[i][1] = n.attrs[j][1] => i = j
      /\ \A i \in DOMAIN Children(n) : Depth[Children(n)[i]] < Depth[n]
  BY NodesAssumption
<1>2. n.tag \in Strings /\ n.attrs \in Seq(Strings \X Strings)
  BY <1>1
<1>3. n.content \in {NoContent} \cup [string : Strings] \cup [bytes : Blocks] \cup [nodes : Seq(Nodes)]
  BY <1>1
<1>4. Children(n) \in Seq(Nodes)
  <2>1. CASE n.content \in [nodes : Seq(Nodes)]
    BY <2>1 DEF Children
  <2>2. CASE n.content \notin [nodes : Seq(Nodes)]
    <3>1. "nodes" \notin DOMAIN n.content
      BY <1>3, <2>2 DEF NoContent
    <3> QED BY <3>1 DEF Children
  <2> QED BY <2>1, <2>2
<1> HIDE DEF Children
<1>5. Len(Children(n)) \in Nat /\ DOMAIN Children(n) = 1 .. Len(Children(n)) /\ \A i \in DOMAIN Children(n) : Children(n)[i] \in Nodes
  BY <1>4
<1>6. Depth[n] \in 0 .. MaxDepth
  BY NodesAssumption
<1> QED BY <1>1, <1>2, <1>4, <1>5, <1>6

\* One kind of content each.
LEMMA ContentKinds ==
  ASSUME NEW n \in Nodes
  PROVE  LET content == n.content
         IN  \/ /\ content = NoContent /\ "string" \notin DOMAIN content /\ "bytes" \notin DOMAIN content
                /\ "nodes" \notin DOMAIN content
             \/ /\ content # NoContent /\ "string" \in DOMAIN content /\ "bytes" \notin DOMAIN content
                /\ "nodes" \notin DOMAIN content
                /\ content.string \in Strings /\ content = [string |-> content.string]
             \/ /\ content # NoContent /\ "string" \notin DOMAIN content /\ "bytes" \in DOMAIN content
                /\ "nodes" \notin DOMAIN content
                /\ content.bytes \in Blocks /\ content = [bytes |-> content.bytes]
             \/ /\ content # NoContent /\ "string" \notin DOMAIN content /\ "bytes" \notin DOMAIN content
                /\ "nodes" \in DOMAIN content
                /\ content.nodes = Children(n)
<1> DEFINE content == n.content
<1>1. content \in {NoContent} \cup [string : Strings] \cup [bytes : Blocks] \cup [nodes : Seq(Nodes)]
  BY NodesAssumption
<1>0. "nodes" \in DOMAIN content => content.nodes = Children(n)
  BY DEF Children
<1> HIDE DEF content
<1>2. CASE content \in [string : Strings]
  <2>1. DOMAIN content = {"string"} /\ content.string \in Strings /\ content = [string |-> content.string]
    BY <1>2
  <2>2. content # NoContent
    <3>1. DOMAIN NoContent = {"undefined"}
      BY DEF NoContent
    <3> QED BY <2>1, <3>1
  <2> QED BY <2>1, <2>2 DEF content
<1>3. CASE content \in [bytes : Blocks]
  <2>1. DOMAIN content = {"bytes"} /\ content.bytes \in Blocks /\ content = [bytes |-> content.bytes]
    BY <1>3
  <2>2. content # NoContent
    <3>1. DOMAIN NoContent = {"undefined"}
      BY DEF NoContent
    <3> QED BY <2>1, <3>1
  <2> QED BY <2>1, <2>2 DEF content
<1>4. CASE content \in [nodes : Seq(Nodes)]
  <2>1. DOMAIN content = {"nodes"}
    BY <1>4
  <2>2. content # NoContent
    <3>1. DOMAIN NoContent = {"undefined"}
      BY DEF NoContent
    <3> QED BY <2>1, <3>1
  <2> QED BY <1>0, <2>1, <2>2 DEF content
<1>5. CASE content = NoContent
  BY <1>5 DEF NoContent, content
<1> QED BY <1>1, <1>2, <1>3, <1>4, <1>5 DEF content

ContentCells(f, n) ==
    LET content == n.content
    IN  IF content = NoContent THEN << >>
        ELSE IF "string" \in DOMAIN content THEN WriteString[content.string]
        ELSE IF "bytes" \in DOMAIN content THEN WriteBytes(content.bytes)
        ELSE WriteListStart(Len(content.nodes)) \o Joined([i \in DOMAIN content.nodes |-> f[content.nodes[i]]])

SizeOf(n) == 2 * Len(n.attrs) + 1 + IF n.content = NoContent THEN 0 ELSE 1

NodeBody(f, n) == WriteListStart(SizeOf(n)) \o WriteString[n.tag] \o WriteAttrs(n.attrs) \o ContentCells(f, n)

\* Attributes make cells.
LEMMA WrittenAttrs ==
  ASSUME NEW n \in Nodes
  PROVE  WriteAttrs(n.attrs) \in Seq(Cells)
<1> DEFINE attrs == n.attrs pieces == AttrPieces(attrs)
<1>1. attrs \in Seq(Strings \X Strings)
  BY NodeParts
<1> HIDE DEF attrs
<1>2. ASSUME NEW i \in 1 .. Len(pieces) PROVE pieces[i] \in Seq(Cells)
  <2> DEFINE a == WriteString[attrs[i][1]] b == WriteString[attrs[i][2]]
  <2>0. i \in DOMAIN attrs /\ i \in 1 .. Len(attrs)
    BY <1>1 DEF AttrPieces
  <2>1. attrs[i][1] \in Strings /\ attrs[i][2] \in Strings
    BY <1>1, <2>0
  <2>2. a \in Seq(Cells) /\ b \in Seq(Cells)
    BY <2>1, WriteStringUnfolds
  <2>3. pieces[i] = a \o b
    BY Zenon, <2>0 DEF AttrPieces
  <2> HIDE DEF a, b, pieces
  <2> QED BY <2>2, <2>3, CellsAssociative
<1>3. Len(pieces) \in Nat
  BY <1>1 DEF AttrPieces
<1> HIDE DEF pieces
<1>4. Joined(pieces) \in Seq(Cells)
  BY <1>2, <1>3, JoinedType
<1> QED BY <1>4 DEF WriteAttrs, AttrPieces, pieces, attrs

\* The content of a node makes cells.
LEMMA ContentCellsType ==
  ASSUME NEW f \in [Nodes -> Seq(Cells)], NEW n \in Nodes
  PROVE  ContentCells(f, n) \in Seq(Cells)
<1> DEFINE content == n.content N == Len(Children(n)) pieces == [i \in DOMAIN Children(n) |-> f[Children(n)[i]]]
<1>1. CASE content = NoContent /\ "string" \notin DOMAIN content /\ "bytes" \notin DOMAIN content
           /\ "nodes" \notin DOMAIN content
  <2>1. ContentCells(f, n) = << >>
    BY <1>1 DEF ContentCells
  <2>2. << >> \in Seq(Cells)
    OBVIOUS
  <2> QED BY <2>1, <2>2
<1>2. CASE /\ content # NoContent /\ "string" \in DOMAIN content /\ "bytes" \notin DOMAIN content
           /\ "nodes" \notin DOMAIN content /\ content.string \in Strings
  <2>1. WriteString[content.string] \in Seq(Cells)
    BY <1>2, WriteStringUnfolds
  <2>2. ContentCells(f, n) = WriteString[content.string]
    BY <1>2 DEF ContentCells
  <2> QED BY <2>1, <2>2
<1>3. CASE /\ content # NoContent /\ "string" \notin DOMAIN content /\ "bytes" \in DOMAIN content
           /\ "nodes" \notin DOMAIN content /\ content.bytes \in Blocks
  <2> DEFINE block == content.bytes
  <2>1. PICK tag \in 0 .. 255, rest \in Seq(Cells) : Binary(block, tag, rest)
    BY Zenon, <1>3, BytesRead
  <2>2. WriteBytes(block) \in Seq(Cells)
    BY Zenon, <2>1, ByteThen DEF Binary
  <2>3. ContentCells(f, n) = WriteBytes(block)
    BY <1>3 DEF ContentCells
  <2> QED BY <2>2, <2>3
<1>4. CASE /\ content # NoContent /\ "string" \notin DOMAIN content /\ "bytes" \notin DOMAIN content
           /\ "nodes" \in DOMAIN content /\ content.nodes = Children(n)
  <2>1. N \in Nat /\ N <= MaxListSize /\ DOMAIN Children(n) = 1 .. N /\ \A i \in 1 .. N : Children(n)[i] \in Nodes
    BY NodeParts
  <2>2. Len(pieces) = N /\ \A i \in 1 .. N : pieces[i] \in Seq(Cells)
    BY <2>1
  <2>3. ContentCells(f, n) = WriteListStart(N) \o Joined(pieces)
    BY <1>4 DEF ContentCells
  <2> HIDE DEF N, pieces
  <2>4. Joined(pieces) \in Seq(Cells)
    BY <2>1, <2>2, JoinedType
  <2>5. PICK tag \in 0 .. 255, rest \in Seq(Cells) : ListStart(N, tag, rest)
    BY Zenon, <2>1, ListStartReads
  <2>6. WriteListStart(N) \in Seq(Cells)
    BY Zenon, <2>5, ByteThen DEF ListStart
  <2> QED BY <2>3, <2>4, <2>6, CellsAssociative
<1> QED BY Zenon, <1>1, <1>2, <1>3, <1>4, ContentKinds

\* The size of the list of a node: odd without content, and the number of attributes from it.
LEMMA ListSizes ==
  ASSUME NEW n \in Nodes
  PROVE  /\ SizeOf(n) \in Nat /\ SizeOf(n) <= MaxListSize /\ SizeOf(n) # 0
         /\ (SizeOf(n) - 1) \div 2 = Len(n.attrs)
         /\ SizeOf(n) % 2 = 0 <=> n.content # NoContent
<1> DEFINE N == Len(n.attrs)
<1>1. N \in Nat /\ 2 * N + 2 <= MaxListSize
  BY NodeParts
<1>2. MaxListSize \in Nat
  BY DEF MaxListSize
<1> HIDE DEF N
<1> DEFINE size == SizeOf(n)
<1>3. \/ n.content = NoContent /\ size = 2 * N + 1
      \/ n.content # NoContent /\ size = 2 * N + 2
  <2>1. CASE n.content = NoContent
    BY <1>1, <2>1 DEF SizeOf, N
  <2>2. CASE n.content # NoContent
    BY <1>1, <2>2 DEF SizeOf, N
  <2> QED BY <2>1, <2>2
<1> DEFINE max == MaxListSize
<1> HIDE DEF size, max
<1>4. size \in Nat /\ size <= max /\ size # 0 /\ (size - 1) \div 2 = N
  BY <1>1, <1>2, <1>3 DEF max
<1>5. size % 2 = 0 <=> n.content # NoContent
  <2>1. CASE size = 2 * N + 1
    <3>1. (2 * N + 1) % 2 = 1 /\ size # 2 * N + 2
      BY <1>1, <2>1
    <3> QED BY <1>3, <2>1, <3>1
  <2>2. CASE size = 2 * N + 2
    <3>1. (2 * N + 2) % 2 = 0 /\ size # 2 * N + 1
      BY <1>1, <2>2
    <3> QED BY <1>3, <2>2, <3>1
  <2> QED BY <1>3, <2>1, <2>2
<1> QED BY <1>4, <1>5 DEF size, max, N

LEMMA TwoJoined ==
  ASSUME NEW a \in Seq(Cells), NEW b \in Seq(Cells)
  PROVE  a \o b \in Seq(Cells)
BY CellsAssociative

LEMMA ThreeJoined ==
  ASSUME NEW a \in Seq(Cells), NEW b \in Seq(Cells), NEW d \in Seq(Cells)
  PROVE  (a \o b) \o d = a \o (b \o d)
BY CellsAssociative

\* A node is a list, and how it starts.
LEMMA NodeBodyStarts ==
  ASSUME NEW f \in [Nodes -> Seq(Cells)], NEW n \in Nodes
  PROVE  \E tag \in 0 .. 255, rest \in Seq(Cells) :
            /\ ListStart(SizeOf(n), tag, rest)
            /\ NodeBody(f, n) = Cell(tag) \o (rest \o (WriteString[n.tag] \o (WriteAttrs(n.attrs) \o ContentCells(f, n))))
            /\ NodeBody(f, n) \in Seq(Cells)
<1> DEFINE a == WriteString[n.tag] b == WriteAttrs(n.attrs) d == ContentCells(f, n)
<1>1. a \in Seq(Cells) /\ b \in Seq(Cells) /\ d \in Seq(Cells)
  <2>1. n.tag \in Strings
    BY NodeParts
  <2>2. a \in Seq(Cells)
    BY <2>1, WriteStringUnfolds
  <2> QED BY Zenon, <2>2, WrittenAttrs, ContentCellsType
<1>0. ASSUME NEW st \in Seq(Cells)
      PROVE  ((st \o a) \o b) \o d = st \o (a \o (b \o d)) /\ st \o (a \o (b \o d)) \in Seq(Cells)
  <2> HIDE DEF a, b, d
  <2>0. a \in Seq(Cells) /\ b \in Seq(Cells) /\ d \in Seq(Cells)
    BY <1>1
  <2> DEFINE x == st \o a p == b \o d q == a \o p
  <2>1. x \in Seq(Cells)
    BY <2>0, TwoJoined
  <2>2. p \in Seq(Cells)
    BY <2>0, TwoJoined
  <2>3. (x \o b) \o d = x \o p
    <3> HIDE DEF x
    <3> QED BY Zenon, <2>0, <2>1, ThreeJoined
  <2>4. x \o p = st \o q
    <3> HIDE DEF p
    <3> QED BY Zenon, <2>0, <2>2, ThreeJoined
  <2>5. q \in Seq(Cells)
    <3> HIDE DEF p
    <3> QED BY <2>0, <2>2, TwoJoined
  <2>6. st \o q \in Seq(Cells)
    <3> HIDE DEF q
    <3> QED BY <2>5, TwoJoined
  <2> QED BY <2>3, <2>4, <2>6
<1>2. PICK tag \in 0 .. 255, rest \in Seq(Cells) : ListStart(SizeOf(n), tag, rest)
  BY Zenon, ListSizes, ListStartReads
<1> DEFINE e == Cell(tag) start == WriteListStart(SizeOf(n)) z == a \o (b \o d)
<1>3. e \in Seq(Cells) /\ start = e \o rest
  BY Zenon, <1>2, ByteCell DEF ListStart
<1>4. NodeBody(f, n) = ((start \o a) \o b) \o d
  BY DEF NodeBody
<1>5. start \in Seq(Cells)
  BY Zenon, <1>2, ByteThen DEF ListStart
<1> HIDE DEF a, b, d, e, start
<1>6. ((start \o a) \o b) \o d = start \o (a \o (b \o d)) /\ start \o z \in Seq(Cells)
  BY Zenon, <1>0, <1>5
<1>7. z \in Seq(Cells)
  <2> DEFINE p == b \o d
  <2>1. p \in Seq(Cells)
    BY <1>1, TwoJoined
  <2> HIDE DEF p
  <2>2. a \o p \in Seq(Cells)
    BY <1>1, <2>1, TwoJoined
  <2> QED BY <2>2 DEF p
<1>8. start \o z = e \o (rest \o z)
  <2> HIDE DEF z
  <2>1. (e \o rest) \o z = e \o (rest \o z)
    BY Zenon, <1>3, <1>7, ThreeJoined
  <2> QED BY <1>3, <2>1
<1>9. NodeBody(f, n) = e \o (rest \o z) /\ NodeBody(f, n) \in Seq(Cells)
  <2>1. NodeBody(f, n) = start \o z
    BY <1>4, <1>6
  <2> HIDE DEF z
  <2> QED BY <1>6, <1>8, <2>1
<1> QED BY Zenon, <1>2, <1>9 DEF a, b, d, e

\* Induction over the depth of a node.
LEMMA NodeInduction ==
  ASSUME NEW T, \A n \in Nodes : (\A m \in Nodes : Depth[m] < Depth[n] => m \in T) => n \in T
  PROVE  \A n \in Nodes : n \in T
<1> DEFINE S == {k \in Nat : \A n \in Nodes : Depth[n] < k => n \in T}
<1>0. MaxDepth \in Nat /\ \A n \in Nodes : Depth[n] \in 0 .. MaxDepth
  BY NodesAssumption, NodeParts
<1>1. 0 \in S
  BY <1>0
<1>2. ASSUME NEW k \in S PROVE k + 1 \in S
  <2>1. ASSUME NEW n \in Nodes, Depth[n] < k + 1 PROVE n \in T
    <3>1. \A m \in Nodes : Depth[m] < Depth[n] => Depth[m] < k
      BY <2>1, <1>0
    <3> QED BY <3>1
  <2> QED BY <2>1
<1>3. S = Nat
  <2>1. S \in SUBSET Nat /\ (\A k \in S : k + 1 \in S)
    BY <1>2
  <2> HIDE DEF S
  <2> QED BY <1>1, <2>1, Ind
<1>4. MaxDepth + 1 \in S
  <2>1. MaxDepth + 1 \in Nat
    BY <1>0
  <2> QED BY <1>3, <2>1
<1> QED BY <1>4, <1>0

\* A recursive function over nodes exists.
LEMMA NodeFixpoint ==
  ASSUME NEW V, V # {}, NEW F, F = [Nodes -> V], NEW Step \in [F -> F],
         Descends(Nodes, F, Depth, Step)
  PROVE  \E f \in F : f = Step[f]
<1>1. MaxDepth \in Nat /\ \A n \in Nodes : Depth[n] \in 0 .. MaxDepth
  BY NodesAssumption, NodeParts
<1> QED BY <1>1, Fixpoint

\* encodeBinaryNodeInto() calls itself on the nodes within only.
LEMMA NodeBodyDescends ==
  ASSUME NEW n \in Nodes, NEW f, NEW g, \A m \in Nodes : Depth[m] < Depth[n] => f[m] = g[m]
  PROVE  NodeBody(f, n) = NodeBody(g, n)
<1> DEFINE content == n.content
<1>1. \A i \in DOMAIN Children(n) : f[Children(n)[i]] = g[Children(n)[i]]
  BY NodeParts
<1>2. "nodes" \in DOMAIN content => [i \in DOMAIN content.nodes |-> f[content.nodes[i]]]
                                      = [i \in DOMAIN content.nodes |-> g[content.nodes[i]]]
  BY <1>1 DEF Children
<1>3. ContentCells(f, n) = ContentCells(g, n)
  BY Zenon, <1>2, ContentKinds DEF ContentCells
<1> QED BY <1>3 DEF NodeBody

\* encodeBinaryNodeInto() as the code defines it, by itself.
LEMMA EncodeNodeUnfolds ==
  /\ EncodeNode \in [Nodes -> Seq(Cells)]
  /\ EncodeNode = [n \in Nodes |-> NodeBody(EncodeNode, n)]
<1> DEFINE V == Seq(Cells)
           F == [Nodes -> V]
           Step == [f \in F |-> [n \in Nodes |-> NodeBody(f, n)]]
           P(f) == f = [n \in Nodes |-> NodeBody(f, n)]
<1>1. Step \in [F -> F]
  <2>1. ASSUME NEW f \in F, NEW n \in Nodes PROVE NodeBody(f, n) \in Seq(Cells)
    BY Zenon, NodeBodyStarts
  <2> QED BY <2>1
<1>2. Descends(Nodes, F, Depth, Step)
  <2> SUFFICES ASSUME NEW f \in F, NEW g \in F, NEW n \in Nodes,
                      \A m \in Nodes : Depth[m] < Depth[n] => f[m] = g[m]
               PROVE  Step[f][n] = Step[g][n]
    BY Zenon DEF Descends
  <2>2. NodeBody(f, n) = NodeBody(g, n)
    BY NodeBodyDescends
  <2> QED BY <2>2
<1>3. PICK f \in F : f = Step[f]
  <2>1. F = [Nodes -> V] /\ V # {}
    <3>1. << >> \in V
      OBVIOUS
    <3> QED BY Zenon, <3>1
  <2> HIDE DEF Step, F, V
  <2> QED BY <1>1, <1>2, <2>1, NodeFixpoint
<1>4. P(f)
  BY <1>3
<1>5. EncodeNode = CHOOSE fun : P(fun)
  BY DEF EncodeNode, NodeBody, SizeOf, ContentCells
<1>6. P(EncodeNode)
  <2> HIDE DEF P
  <2> QED BY <1>4, <1>5
<1>7. EncodeNode \in [Nodes -> Seq(Cells)]
  <2> DEFINE W == EncodeNode T == {n \in Nodes : W[n] = f[n]}
  <2>1. ASSUME NEW n \in Nodes, \A m \in Nodes : Depth[m] < Depth[n] => m \in T PROVE n \in T
    <3>1. NodeBody(W, n) = NodeBody(f, n)
      <4>1. \A m \in Nodes : Depth[m] < Depth[n] => W[m] = f[m]
        BY <2>1
      <4> HIDE DEF W
      <4> QED BY Zenon, <4>1, NodeBodyDescends
    <3> QED BY Zenon, <1>4, <1>6, <3>1
  <2>2. \A n \in Nodes : n \in T
    <3> HIDE DEF T
    <3> QED BY <2>1, NodeInduction
  <2>3. W = f
    BY <1>4, <1>6, <2>2
  <2> QED BY <2>3
<1> QED BY <1>6, <1>7

WithinBody(f, n) == {n} \cup UNION {f[Children(n)[i]] : i \in DOMAIN Children(n)}

\* The nodes within, by themselves.
LEMMA WithinUnfolds ==
  Within = [n \in Nodes |-> WithinBody(Within, n)]
<1> DEFINE V == SUBSET Nodes
           F == [Nodes -> V]
           Step == [f \in F |-> [n \in Nodes |-> WithinBody(f, n)]]
           P(f) == f = [n \in Nodes |-> WithinBody(f, n)]
<1>1. Step \in [F -> F]
  <2>1. ASSUME NEW f \in F, NEW n \in Nodes PROVE WithinBody(f, n) \in SUBSET Nodes
    <3>1. \A i \in DOMAIN Children(n) : f[Children(n)[i]] \in SUBSET Nodes
      BY NodeParts
    <3> QED BY <3>1 DEF WithinBody
  <2> QED BY <2>1
<1>2. Descends(Nodes, F, Depth, Step)
  <2> SUFFICES ASSUME NEW f \in F, NEW g \in F, NEW n \in Nodes,
                      \A m \in Nodes : Depth[m] < Depth[n] => f[m] = g[m]
               PROVE  Step[f][n] = Step[g][n]
    BY Zenon DEF Descends
  <2>1. \A i \in DOMAIN Children(n) : f[Children(n)[i]] = g[Children(n)[i]]
    BY NodeParts
  <2>2. WithinBody(f, n) = WithinBody(g, n)
    BY <2>1 DEF WithinBody
  <2> QED BY <2>2
<1>3. PICK f \in F : f = Step[f]
  <2>1. F = [Nodes -> V] /\ V # {}
    OBVIOUS
  <2> HIDE DEF Step, F, V
  <2> QED BY <1>1, <1>2, <2>1, NodeFixpoint
<1>4. P(f)
  BY <1>3
<1>5. Within = CHOOSE fun : P(fun)
  BY DEF Within, WithinBody
<1>6. P(Within)
  <2> HIDE DEF P
  <2> QED BY <1>4, <1>5
<1> QED BY <1>6

ReceivedContent(f, n) ==
    LET content == n.content
    IN  IF "string" \in DOMAIN content /\ ~HasShortForm(content.string)
        THEN [bytes |-> AsBlock(content.string)]
        ELSE IF "nodes" \in DOMAIN content
        THEN [nodes |-> [i \in DOMAIN content.nodes |-> f[content.nodes[i]]]]
        ELSE content

ReceivedBody(f, n) == [n EXCEPT !.content = ReceivedContent(f, n)]

\* What arrives of a node, by what arrives of those within.
LEMMA AsReceivedUnfolds ==
  AsReceived = [n \in Nodes |-> ReceivedBody(AsReceived, n)]
<1> DEFINE D(k) == {n \in Nodes : Depth[n] < k}
           P(f, k) == f = [n \in D(k) |-> ReceivedBody(f, n)]
           T == {k \in Nat : \E f : P(f, k)}
           Q(f) == f = [n \in Nodes |-> ReceivedBody(f, n)]
<1>0. MaxDepth \in Nat /\ \A n \in Nodes : Depth[n] \in 0 .. MaxDepth
  BY NodesAssumption, NodeParts
<1>a. ASSUME NEW n \in Nodes, NEW f, NEW g, \A m \in Nodes : Depth[m] < Depth[n] => f[m] = g[m]
      PROVE  ReceivedBody(f, n) = ReceivedBody(g, n)
  <2>1. \A i \in DOMAIN Children(n) : f[Children(n)[i]] = g[Children(n)[i]]
    BY <1>a, NodeParts
  <2>2. "nodes" \in DOMAIN n.content => [i \in DOMAIN n.content.nodes |-> f[n.content.nodes[i]]]
                                      = [i \in DOMAIN n.content.nodes |-> g[n.content.nodes[i]]]
    BY <2>1 DEF Children
  <2>3. ReceivedContent(f, n) = ReceivedContent(g, n)
    BY <2>2 DEF ReceivedContent
  <2> QED BY <2>3 DEF ReceivedBody
<1>1. 0 \in T
  <2> DEFINE f == [n \in D(0) |-> n]
  <2>1. D(0) = {}
    BY <1>0
  <2>2. P(f, 0)
    BY <2>1
  <2> HIDE DEF P, f
  <2> QED BY <2>2
<1>2. ASSUME NEW k \in T PROVE k + 1 \in T
  <2>1. k \in Nat /\ \E f : P(f, k)
    <3> HIDE DEF P
    <3> QED BY <1>2
  <2>2. PICK f : P(f, k)
    BY <2>1
  <2> DEFINE g == [n \in D(k + 1) |-> ReceivedBody(f, n)]
  <2>3. \A n \in D(k) : n \in D(k + 1) /\ g[n] = f[n]
    <3>1. \A n \in D(k) : n \in D(k + 1)
      BY <2>1, <1>0
    <3>2. \A n \in D(k) : f[n] = ReceivedBody(f, n)
      <4> HIDE DEF D
      <4> QED BY <2>2
    <3> HIDE DEF D
    <3> QED BY <3>1, <3>2
  <2>4. ASSUME NEW n \in D(k + 1) PROVE ReceivedBody(f, n) = ReceivedBody(g, n)
    <3>1. \A m \in Nodes : Depth[m] < Depth[n] => m \in D(k)
      BY <1>0, <2>1
    <3>2. \A m \in Nodes : Depth[m] < Depth[n] => f[m] = g[m]
      <4> HIDE DEF g, D
      <4> QED BY <3>1, <2>3
    <3>3. n \in Nodes
      OBVIOUS
    <3> HIDE DEF g, D
    <3> QED BY <3>2, <3>3, <1>a
  <2>5. P(g, k + 1)
    <3> HIDE DEF D
    <3> QED BY <2>4
  <2> HIDE DEF P, g
  <2> QED BY <2>1, <2>5
<1>3. \E f : P(f, MaxDepth + 1)
  <2>1. T \in SUBSET Nat
    OBVIOUS
  <2>2. MaxDepth + 1 \in Nat
    BY <1>0
  <2> HIDE DEF P
  <2>3. MaxDepth + 1 \in T
    <3> HIDE DEF T
    <3>1. T = Nat
      BY <1>1, <1>2, <2>1, Ind
    <3> QED BY <2>2, <3>1
  <2> QED BY <2>3
<1>4. D(MaxDepth + 1) = Nodes
  BY <1>0
<1>5. \E f : Q(f)
  <2> HIDE DEF D
  <2> QED BY <1>3, <1>4
<1>6. AsReceived = CHOOSE fun : Q(fun)
  BY DEF AsReceived, ReceivedBody, ReceivedContent
<1>7. Q(AsReceived)
  <2> HIDE DEF Q
  <2> QED BY <1>5, <1>6
<1> QED BY <1>7

\* The content is read by its tag.
LEMMA ContentStarts ==
  ASSUME NEW buf, Len(buf) \in Nat, NEW c, NEW within, NEW tag \in 0 .. 255, NEW rest \in Seq(Cells),
         NEW v, NEW sure \in BOOLEAN,
         ReadByte(buf, c) = Read(tag, c + 1) => Reads(buf, c + 1, rest, ReadContent(buf, c, within), v, sure)
  PROVE  Reads(buf, c, Cell(tag) \o rest, ReadContent(buf, c, within), v, sure)
<1> DEFINE first == ReadByte(buf, c) result == ReadContent(buf, c, within) a == Cell(tag)
<1>1. Reads(buf, c, a, first, tag, TRUE)
  BY Zenon, ByteReads
<1>2. a \in Seq(Cells) /\ Len(a) = 1
  BY Zenon, ByteCell
<1>3. first = Error => result = Error
  BY DEF ReadContent, Then
<1> HIDE DEF first, result, a
<1>4. first = Read(tag, c + Len(a)) => Reads(buf, c + Len(a), rest, result, v, sure)
  BY <1>2 DEF first, result
<1>5. Reads(buf, c, a \o rest, result, v, sure)
  BY Zenon, <1>1, <1>2, <1>3, <1>4, SurelyFirst
<1> QED BY <1>5 DEF a, result

\* At the tag of a list, content is nodes.
LEMMA ListContent ==
  ASSUME NEW buf, NEW c, NEW within, NEW tag, NEW c1, ReadByte(buf, c) = Read(tag, c1), IsListTag(tag)
  PROVE  LET size == ReadListSize(buf, c1, tag)
             nodes == ReadNodes(size.cursor, size.value, within)
             result == ReadContent(buf, c, within)
         IN  /\ size = Error => result = Error
             /\ size # Error /\ nodes = Error => result = Error
             /\ size # Error /\ nodes # Error => result = Read([nodes |-> nodes.value], nodes.cursor)
<1> DEFINE first == ReadByte(buf, c)
<1>1. first # Error /\ first.value = tag /\ first.cursor = c1
  BY ReadIsNoError
<1> HIDE DEF first
<1> QED BY <1>1 DEF ReadContent, Then, first

\* At the tag of bytes, content is bytes.
LEMMA BinaryContent ==
  ASSUME NEW buf, NEW c, NEW within, NEW tag, NEW c1, ReadByte(buf, c) = Read(tag, c1), IsBinaryTag(tag)
  PROVE  LET b == ReadBinary(buf, c1, tag)
             result == ReadContent(buf, c, within)
         IN  /\ b = Error => result = Error
             /\ b # Error => result = Read([bytes |-> b.value], b.cursor)
<1> DEFINE first == ReadByte(buf, c)
<1>1. first # Error /\ first.value = tag /\ first.cursor = c1
  BY ReadIsNoError
<1>2. ~IsListTag(tag)
  BY DEF IsListTag, IsBinaryTag, TAGS
<1> HIDE DEF first
<1> QED BY <1>1, <1>2 DEF ReadContent, Then, first

\* At any other tag, content is a string.
LEMMA StringContent ==
  ASSUME NEW buf, NEW c, NEW within, NEW tag, NEW c1, ReadByte(buf, c) = Read(tag, c1),
         ~IsListTag(tag), ~IsBinaryTag(tag)
  PROVE  LET s == ReadStringOf(buf, c1, tag, StringReader(buf))
             result == ReadContent(buf, c, within)
         IN  /\ s = Error => result = Error
             /\ s # Error => result = Read([string |-> s.value], s.cursor)
<1> DEFINE first == ReadByte(buf, c)
<1>1. first # Error /\ first.value = tag /\ first.cursor = c1
  BY ReadIsNoError
<1> HIDE DEF first
<1> QED BY <1>1 DEF ReadContent, Then, first

\* Bytes, of a buffer or of a string.
LEMMA BlockContentReads ==
  ASSUME NEW block, NEW tag \in 0 .. 255, NEW rest \in Seq(Cells), Binary(block, tag, rest),
         NEW buf, Len(buf) \in Nat, NEW c, NEW within, NEW sure \in BOOLEAN
  PROVE  Reads(buf, c, Cell(tag) \o rest, ReadContent(buf, c, within), [bytes |-> block], sure)
<1> DEFINE result == ReadContent(buf, c, within) v == [bytes |-> block]
<1>1. ASSUME ReadByte(buf, c) = Read(tag, c + 1) PROVE Reads(buf, c + 1, rest, result, v, sure)
  <2> DEFINE c1 == c + 1 b == ReadBinary(buf, c1, tag)
  <2>1. Reads(buf, c1, rest, b, block, TRUE) /\ IsBinaryTag(tag)
    BY Zenon DEF Binary
  <2>2. /\ b = Error => result = Error
        /\ b # Error => result = Read([bytes |-> b.value], b.cursor)
    BY <1>1, <2>1, BinaryContent
  <2> HIDE DEF b, result, c1
  <2>3. ASSUME b = Read(block, c1 + Len(rest)) PROVE result = Read(v, c1 + Len(rest))
    BY <2>2, <2>3, ReadIsNoError
  <2> HIDE DEF v
  <2>4. Reads(buf, c1, rest, result, v, TRUE)
    BY Zenon, <2>1, <2>2, <2>3, SurelyMapped
  <2>5. Reads(buf, c1, rest, result, v, sure)
    BY Zenon, <2>4, ReadsWeaker
  <2> QED BY <2>5 DEF c1
<1> HIDE DEF v
<1>2. Reads(buf, c, Cell(tag) \o rest, result, v, sure)
  BY Zenon, <1>1, ContentStarts
<1> QED BY <1>2 DEF v

\* A string.
LEMMA StringContentReads ==
  ASSUME NEW s \in Strings, NEW buf, Len(buf) \in Nat, NEW c \in Nat \ {0}, NEW within, NEW sure \in BOOLEAN,
         sure => Portable[s]
  PROVE  Reads(buf, c, WriteString[s], ReadContent(buf, c, within),
               IF HasShortForm(s) THEN [string |-> s] ELSE [bytes |-> AsBlock(s)], sure)
<1> DEFINE result == ReadContent(buf, c, within)
           v == IF HasShortForm(s) THEN [string |-> s] ELSE [bytes |-> AsBlock(s)]
<1>0. PICK tag \in 0 .. 255, rest \in Seq(Cells) : Started(s, tag, rest)
  BY Zenon, StringStarts
<1>1. CASE s \in InheritedNames /\ WriteString[s] = Cell(tag) \o rest /\ tag = 0 /\ rest = << >>
  <2>1. ~sure
    BY <1>1, PortableParts
  <2>2. ASSUME ReadByte(buf, c) = Read(tag, c + 1) PROVE Reads(buf, c + 1, rest, result, v, sure)
    <3> DEFINE c1 == c + 1
               size == ReadListSize(buf, c1, tag)
               nodes == ReadNodes(size.cursor, size.value, within)
    <3>1. IsListTag(tag)
      BY <1>1 DEF IsListTag, TAGS
    <3>2. size = Read(0, c1)
      BY <1>1 DEF ReadListSize, TAGS
    <3>3. /\ size = Error => result = Error
          /\ size # Error /\ nodes = Error => result = Error
          /\ size # Error /\ nodes # Error => result = Read([nodes |-> nodes.value], nodes.cursor)
      BY <2>2, <3>1, ListContent
    <3>4. size # Error /\ size.value = 0 /\ size.cursor = c1
      BY <3>2, ReadIsNoError
    <3>5. nodes = Read(<< >>, c1)
      <4>1. PICK upTo : NodeCalls(c1, 0, within, upTo) /\ ReadNodes(c1, 0, within) = upTo[0]
        BY ReadNodesUnfolds
      <4> QED BY <3>4, <4>1 DEF NodeCalls
    <3>6. result = Read([nodes |-> << >>], c1)
      <4> HIDE DEF nodes, size, result, c1
      <4>1. nodes # Error /\ nodes.value = << >> /\ nodes.cursor = c1
        BY <3>5, ReadIsNoError
      <4> QED BY <3>3, <3>4, <4>1
    <3> HIDE DEF result, v
    <3>7. Reads(buf, c1, << >>, Read([nodes |-> << >>], c1), [nodes |-> << >>], TRUE)
      BY Zenon, NothingReads
    <3> QED BY <1>1, <2>1, <3>6, <3>7 DEF Reads
  <2> HIDE DEF v
  <2>3. Reads(buf, c, Cell(tag) \o rest, result, v, sure)
    BY Zenon, <2>2, ContentStarts
  <2> QED BY <1>1, <2>3 DEF v
<1>2. CASE ~HasShortForm(s) /\ WriteString[s] = Cell(tag) \o rest /\ Binary(AsBlock(s), tag, rest)
  <2>1. Reads(buf, c, Cell(tag) \o rest, result, [bytes |-> AsBlock(s)], sure)
    BY Zenon, <1>2, BlockContentReads
  <2> QED BY <1>2, <2>1
<1>3. CASE HasShortForm(s) /\ TextForm(s, tag, rest)
  <2>0. WriteString[s] = Cell(tag) \o rest /\ ~IsBinaryTag(tag) /\ ~IsListTag(tag)
    BY <1>3 DEF TextForm
  <2>1. ASSUME ReadByte(buf, c) = Read(tag, c + 1) PROVE Reads(buf, c + 1, rest, result, [string |-> s], sure)
    <3> DEFINE c1 == c + 1 first == ReadStringOf(buf, c1, tag, StringReader(buf))
    <3>1. c1 \in Nat \ {0}
      OBVIOUS
    <3>2. Correct(StringReader(buf), buf, c1, Len(s))
      BY <3>1, StringReaderCorrect
    <3>3. Reads(buf, c1, rest, first, s, Portable[s])
      BY <1>0, <3>2, StringReads
    <3>4. /\ first = Error => result = Error
          /\ first # Error => result = Read([string |-> first.value], first.cursor)
      BY <2>0, <2>1, StringContent
    <3> DEFINE w == [string |-> s]
    <3> HIDE DEF first, result, c1
    <3>5. ASSUME NEW x, first = Read(x, c1 + Len(rest)) /\ (Portable[s] => x = s)
          PROVE  \/ ~sure /\ result = Error
                 \/ \E y : result = Read(y, c1 + Len(rest)) /\ (sure => y = w)
      <4>1. first # Error /\ first.value = x /\ first.cursor = c1 + Len(rest)
        BY <3>5, ReadIsNoError
      <4>2. result = Read([string |-> x], c1 + Len(rest))
        BY <3>4, <4>1
      <4>3. sure => [string |-> x] = w
        BY <3>5
      <4> QED BY <4>2, <4>3
    <3> HIDE DEF w
    <3>6. Reads(buf, c1, rest, result, w, sure)
      BY <3>3, <3>4, <3>5, ReadsMapped
    <3> QED BY <3>6 DEF c1, w
  <2>2. Reads(buf, c, Cell(tag) \o rest, result, [string |-> s], sure)
    BY Zenon, <2>1, ContentStarts
  <2> QED BY <1>3, <2>0, <2>2
<1> QED BY Zenon, <1>0, <1>1, <1>2, <1>3 DEF Started

\* The nodes within.
LEMMA NodesContentReads ==
  ASSUME NEW S, NEW nodes \in Seq(S), Len(nodes) <= MaxListSize, NEW pieces, Len(pieces) = Len(nodes),
         \A i \in 1 .. Len(nodes) : pieces[i] \in Seq(Cells),
         NEW buf, Len(buf) \in Nat, NEW c \in Nat \ {0}, NEW within, NEW sure \in BOOLEAN,
         \A i \in 1 .. Len(nodes), c1 \in Nat : c1 > c => Reads(buf, c1, pieces[i], within[c1], nodes[i], sure)
  PROVE  Reads(buf, c, WriteListStart(Len(nodes)) \o Joined(pieces), ReadContent(buf, c, within),
               [nodes |-> nodes], sure)
<1> DEFINE result == ReadContent(buf, c, within) v == [nodes |-> nodes] N == Len(nodes) j == Joined(pieces)
<1>1. N \in Nat /\ Len(pieces) = N /\ Len(pieces) \in Nat
  OBVIOUS
<1>2. PICK tag \in 0 .. 255, start \in Seq(Cells) : ListStart(N, tag, start)
  BY Zenon, <1>1, ListStartReads
<1>3. j \in Seq(Cells)
  BY <1>1, JoinedType
<1> DEFINE rest == start \o j
<1>4. rest \in Seq(Cells) /\ WriteListStart(N) \o j = Cell(tag) \o rest
  <2> DEFINE e == Cell(tag)
  <2>1. e \in Seq(Cells) /\ WriteListStart(N) = e \o start
    BY Zenon, <1>2, ByteCell DEF ListStart
  <2> HIDE DEF e, j, N
  <2>2. start \o j \in Seq(Cells)
    BY <1>3, TwoJoined
  <2>3. (e \o start) \o j = e \o (start \o j)
    BY Zenon, <1>3, <2>1, ThreeJoined
  <2> QED BY <2>1, <2>2, <2>3 DEF e
<1>5. ASSUME ReadByte(buf, c) = Read(tag, c + 1) PROVE Reads(buf, c + 1, rest, result, v, sure)
  <2> DEFINE c1 == c + 1
             size == ReadListSize(buf, c1, tag)
             list == ReadNodes(size.cursor, size.value, within)
  <2>1. IsListTag(tag) /\ Reads(buf, c1, start, size, N, TRUE)
    BY Zenon, <1>2 DEF ListStart
  <2>2. /\ size = Error => result = Error
        /\ size # Error /\ list = Error => result = Error
        /\ size # Error /\ list # Error => result = Read([nodes |-> list.value], list.cursor)
    BY <1>5, <2>1, ListContent
  <2>3. ASSUME size = Read(N, c1 + Len(start)) PROVE Reads(buf, c1 + Len(start), j, result, v, sure)
    <3> DEFINE c2 == c1 + Len(start)
    <3>1. size # Error /\ size.value = N /\ size.cursor = c2
      BY <2>3, ReadIsNoError
    <3>2. c2 \in Nat /\ c2 > c
      OBVIOUS
    <3>3. list = ReadNodes(c2, N, within)
      BY <3>1
    <3> HIDE DEF c2
    <3>4. \A i \in 1 .. Len(nodes), c3 \in Nat : c3 >= c2 => Reads(buf, c3, pieces[i], within[c3], nodes[i], sure)
      BY <3>2
    <3>5. Reads(buf, c2, j, ReadNodes(c2, N, within), nodes, sure)
      BY Zenon, <1>1, <3>2, <3>4, NodesRead
    <3>6. Reads(buf, c2, j, list, nodes, sure)
      BY <3>3, <3>5
    <3>a. /\ list = Error => result = Error
          /\ list # Error => result = Read([nodes |-> list.value], list.cursor)
      BY <2>2, <3>1
    <3> HIDE DEF list, result, j, c1, size
    <3>7. ASSUME NEW x, list = Read(x, c2 + Len(j)) /\ (sure => x = nodes)
          PROVE  \/ ~sure /\ result = Error
                 \/ \E y : result = Read(y, c2 + Len(j)) /\ (sure => y = v)
      <4>1. list # Error /\ list.value = x /\ list.cursor = c2 + Len(j)
        BY <3>7, ReadIsNoError
      <4>2. result = Read([nodes |-> x], c2 + Len(j))
        BY <3>a, <4>1
      <4>3. sure => [nodes |-> x] = v
        BY <3>7
      <4> QED BY <4>2, <4>3
    <3> HIDE DEF v
    <3>8. Reads(buf, c2, j, result, v, sure)
      BY <3>6, <3>7, <3>a, ReadsMapped
    <3> QED BY <3>8 DEF c2
  <2> HIDE DEF size, result, j, c1, v, list
  <2>4. Reads(buf, c1, start \o j, result, v, sure)
    BY Zenon, <1>3, <2>1, <2>2, <2>3, SurelyFirst
  <2> QED BY <2>4 DEF c1
<1> HIDE DEF v, rest
<1>6. Reads(buf, c, Cell(tag) \o rest, result, v, sure)
  BY Zenon, <1>4, <1>5, ContentStarts
<1> QED BY <1>4, <1>6 DEF v

\* The content of a node, if those within are read where they can be.
LEMMA ContentReads ==
  ASSUME NEW n \in Nodes, n.content # NoContent, NEW buf, Len(buf) \in Nat, NEW c \in Nat \ {0}, NEW within,
         NEW sure \in BOOLEAN, sure /\ "string" \in DOMAIN n.content => Portable[n.content.string],
         \A i \in DOMAIN Children(n), c1 \in Nat : c1 > c =>
            Reads(buf, c1, EncodeNode[Children(n)[i]], within[c1], AsReceived[Children(n)[i]], sure)
  PROVE  Reads(buf, c, ContentCells(EncodeNode, n), ReadContent(buf, c, within),
               ReceivedContent(AsReceived, n), sure)
<1> DEFINE content == n.content result == ReadContent(buf, c, within)
           cells == ContentCells(EncodeNode, n) v == ReceivedContent(AsReceived, n)
<1>1. CASE /\ "string" \in DOMAIN content /\ "bytes" \notin DOMAIN content
           /\ "nodes" \notin DOMAIN content /\ content.string \in Strings /\ content = [string |-> content.string]
  <2> DEFINE s == content.string
  <2>1. cells = WriteString[s]
    BY <1>1 DEF ContentCells
  <2>2. v = IF HasShortForm(s) THEN [string |-> s] ELSE [bytes |-> AsBlock(s)]
    BY <1>1 DEF ReceivedContent
  <2>3. sure => Portable[s]
    BY <1>1
  <2>4. s \in Strings
    BY <1>1
  <2> HIDE DEF s
  <2>5. Reads(buf, c, WriteString[s], result,
              IF HasShortForm(s) THEN [string |-> s] ELSE [bytes |-> AsBlock(s)], sure)
    BY <2>3, <2>4, StringContentReads
  <2> QED BY <2>1, <2>2, <2>5
<1>2. CASE /\ "string" \notin DOMAIN content /\ "bytes" \in DOMAIN content
           /\ "nodes" \notin DOMAIN content /\ content.bytes \in Blocks /\ content = [bytes |-> content.bytes]
  <2> DEFINE block == content.bytes
  <2>1. cells = WriteBytes(block)
    BY <1>2 DEF ContentCells
  <2>2. v = [bytes |-> block]
    BY <1>2 DEF ReceivedContent
  <2>3. PICK tag \in 0 .. 255, rest \in Seq(Cells) : Binary(block, tag, rest)
    BY <1>2, BytesRead
  <2> HIDE DEF block
  <2>4. Reads(buf, c, Cell(tag) \o rest, result, [bytes |-> block], sure)
    BY Zenon, <2>3, BlockContentReads
  <2> QED BY <2>1, <2>2, <2>3, <2>4 DEF Binary
<1>3. CASE /\ "string" \notin DOMAIN content /\ "bytes" \notin DOMAIN content
           /\ "nodes" \in DOMAIN content /\ content.nodes = Children(n)
  <2> DEFINE children == Children(n) N == Len(children)
             pieces == [i \in DOMAIN children |-> EncodeNode[children[i]]]
             nodes == [i \in DOMAIN children |-> AsReceived[children[i]]]
             S == {AsReceived[m] : m \in Nodes}
  <2>1. N \in Nat /\ N <= MaxListSize /\ DOMAIN children = 1 .. N /\ \A i \in 1 .. N : children[i] \in Nodes
    BY NodeParts
  <2>2. cells = WriteListStart(N) \o Joined(pieces)
    BY <1>3 DEF ContentCells
  <2>3. v = [nodes |-> nodes]
    BY <1>3 DEF ReceivedContent
  <2>4. \A i \in 1 .. N, c1 \in Nat : c1 > c =>
            Reads(buf, c1, EncodeNode[children[i]], within[c1], AsReceived[children[i]], sure)
    BY <2>1
  <2> HIDE DEF children, result
  <2>5. Len(pieces) = N /\ Len(nodes) = N /\ nodes \in Seq(S)
    BY <2>1
  <2>6. \A i \in 1 .. N : pieces[i] = EncodeNode[children[i]] /\ nodes[i] = AsReceived[children[i]]
                            /\ pieces[i] \in Seq(Cells)
    BY <2>1, EncodeNodeUnfolds
  <2> HIDE DEF pieces, nodes, N
  <2>7. \A i \in 1 .. Len(nodes) : pieces[i] \in Seq(Cells)
    BY <2>5, <2>6
  <2>8. \A i \in 1 .. Len(nodes), c1 \in Nat : c1 > c => Reads(buf, c1, pieces[i], within[c1], nodes[i], sure)
    BY Zenon, <2>4, <2>5, <2>6
  <2> HIDE DEF S
  <2>9. Len(nodes) <= MaxListSize /\ Len(pieces) = Len(nodes)
    BY <2>1, <2>5
  <2>10. Reads(buf, c, WriteListStart(Len(nodes)) \o Joined(pieces), ReadContent(buf, c, within), [nodes |-> nodes], sure)
    BY Zenon, <2>5, <2>7, <2>8, <2>9, NodesContentReads
  <2> QED BY <2>2, <2>3, <2>5, <2>10 DEF result
<1> QED BY <1>1, <1>2, <1>3, ContentKinds

\* What decodeNodeFromBuffer() reads, one after the other.
LEMMA NodeSteps ==
  ASSUME NEW buf, NEW c, NEW within
  PROVE  LET first == ReadByte(buf, c)
             size == ReadListSize(buf, first.cursor, first.value)
             tag == ReadString(buf, size.cursor)
             attrs == ReadAttrs(buf, tag.cursor, (size.value - 1) \div 2)
             content == IF size.value % 2 = 0 THEN ReadContent(buf, attrs.cursor, within)
                                              ELSE Read(NoContent, attrs.cursor)
             result == ReadNode(buf, c, within)
         IN  /\ first = Error => result = Error
             /\ first # Error /\ size = Error => result = Error
             /\ first # Error /\ size # Error /\ size.value # 0 /\ tag = Error => result = Error
             /\ first # Error /\ size # Error /\ size.value # 0 /\ tag # Error /\ tag.value = << >> => result = Error
             /\ first # Error /\ size # Error /\ size.value # 0 /\ tag # Error /\ tag.value # << >> /\ attrs = Error =>
                    result = Error
             /\ first # Error /\ size # Error /\ size.value # 0 /\ tag # Error /\ tag.value # << >> /\ attrs # Error
                  /\ content = Error => result = Error
             /\ first # Error /\ size # Error /\ size.value # 0 /\ tag # Error /\ tag.value # << >> /\ attrs # Error
                  /\ content # Error =>
                    result = Read([tag |-> tag.value, attrs |-> attrs.value, content |-> content.value], content.cursor)
BY Zenon DEF ReadNode, Then

ReadRest(buf, c, N, within) == IF N % 2 = 0 THEN ReadContent(buf, c, within) ELSE Read(NoContent, c)

AttrCount(N) == (N - 1) \div 2

\* A node in pieces: the start of the list, the tag, the attributes, the content.
InPieces(N, tag, start, s, b, d, attrs, content, buf, c, within, sure) ==
    /\ N \in Nat /\ N # 0 /\ tag \in 0 .. 255 /\ start \in Seq(Cells) /\ ListStart(N, tag, start)
    /\ s \in Strings /\ b \in Seq(Cells) /\ d \in Seq(Cells) /\ Len(buf) \in Nat /\ c \in Nat \ {0}
    /\ sure \in BOOLEAN /\ (sure => Portable[s] /\ s # << >>)
    /\ \A c1 \in Nat : c1 > c => Reads(buf, c1, b, ReadAttrs(buf, c1, AttrCount(N)), attrs, sure)
    /\ \A c1 \in Nat : c1 > c => Reads(buf, c1, d, ReadRest(buf, c1, N, within), content, sure)

LEMMA FrameReads ==
  ASSUME NEW N, NEW tag, NEW start, NEW s, NEW b, NEW d, NEW attrs, NEW content, NEW buf, NEW c, NEW within, NEW sure,
         InPieces(N, tag, start, s, b, d, attrs, content, buf, c, within, sure)
  PROVE  Reads(buf, c, Cell(tag) \o (start \o (WriteString[s] \o (b \o d))), ReadNode(buf, c, within),
               [tag |-> s, attrs |-> attrs, content |-> content], sure)
<1>a. /\ N \in Nat /\ N # 0 /\ tag \in 0 .. 255 /\ start \in Seq(Cells) /\ ListStart(N, tag, start)
      /\ s \in Strings /\ b \in Seq(Cells) /\ d \in Seq(Cells) /\ Len(buf) \in Nat /\ c \in Nat \ {0}
      /\ sure \in BOOLEAN
  BY DEF InPieces
<1>b. sure => Portable[s] /\ s # << >>
  BY DEF InPieces
<1>c. \A c1 \in Nat : c1 > c => Reads(buf, c1, b, ReadAttrs(buf, c1, AttrCount(N)), attrs, sure)
  BY DEF InPieces
<1>d. \A c1 \in Nat : c1 > c => Reads(buf, c1, d, ReadRest(buf, c1, N, within), content, sure)
  BY DEF InPieces
<1> DEFINE result == ReadNode(buf, c, within)
           v == [tag |-> s, attrs |-> attrs, content |-> content]
           e == Cell(tag)
           a == WriteString[s]
           c1 == c + 1
           c2 == c1 + Len(start)
           first == ReadByte(buf, c)
           size == ReadListSize(buf, first.cursor, first.value)
           name == ReadString(buf, size.cursor)
           pairs == ReadAttrs(buf, name.cursor, (size.value - 1) \div 2)
           last == IF size.value % 2 = 0 THEN ReadContent(buf, pairs.cursor, within)
                                         ELSE Read(NoContent, pairs.cursor)
<1>1. e \in Seq(Cells) /\ Len(e) = 1
  BY <1>a, ByteCell
<1>2. a \in Seq(Cells)
  BY <1>a, WriteStringUnfolds
<1>3. /\ first = Error => result = Error
      /\ first # Error /\ size = Error => result = Error
      /\ first # Error /\ size # Error /\ size.value # 0 /\ name = Error => result = Error
      /\ first # Error /\ size # Error /\ size.value # 0 /\ name # Error /\ name.value = << >> => result = Error
      /\ first # Error /\ size # Error /\ size.value # 0 /\ name # Error /\ name.value # << >> /\ pairs = Error =>
             result = Error
  BY Zenon, NodeSteps
<1>4. /\ first # Error /\ size # Error /\ size.value # 0 /\ name # Error /\ name.value # << >> /\ pairs # Error
           /\ last = Error => result = Error
      /\ first # Error /\ size # Error /\ size.value # 0 /\ name # Error /\ name.value # << >> /\ pairs # Error
           /\ last # Error =>
             result = Read([tag |-> name.value, attrs |-> pairs.value, content |-> last.value], last.cursor)
  BY Zenon, NodeSteps
<1>5. c1 \in Nat \ {0} /\ c1 > c /\ c2 \in Nat \ {0} /\ c2 > c /\ Len(a) \in Nat /\ Len(b) \in Nat
  BY <1>a, <1>2
<1>6. Reads(buf, c, e, first, tag, TRUE)
  BY Zenon, <1>a, ByteReads
<1> DEFINE bd == b \o d abd == a \o bd sabd == start \o abd
<1>7. bd \in Seq(Cells)
  BY <1>a, TwoJoined
<1>8. abd \in Seq(Cells)
  <2> HIDE DEF a, bd
  <2> QED BY <1>2, <1>7, TwoJoined
<1>9. sabd \in Seq(Cells)
  <2> HIDE DEF abd
  <2> QED BY <1>a, <1>8, TwoJoined
<1> HIDE DEF result, v, a, e
<1>10. ASSUME first = Read(tag, c1), size = Read(N, c2)
       PROVE  Reads(buf, c2, abd, result, v, sure)
  <2>1. first # Error /\ size # Error /\ size.value = N /\ size.cursor = c2 /\ N # 0
    BY <1>a, <1>10, ReadIsNoError
  <2>2. name = ReadString(buf, c2)
    BY <2>1
  <2>3. Reads(buf, c2, a, name, s, Portable[s])
    BY Zenon, <1>a, <1>5, <2>2, ReadStringReads DEF a
  <2> DEFINE p == Portable[s]
  <2>0. p \in BOOLEAN
    BY <1>a, PortableValue
  <2>4. /\ name = Error => result = Error
        /\ name # Error /\ name.value = << >> => result = Error
        /\ name # Error /\ name.value # << >> /\ pairs = Error => result = Error
    BY <1>3, <2>1
  <2>5. /\ name # Error /\ name.value # << >> /\ pairs # Error /\ last = Error => result = Error
        /\ name # Error /\ name.value # << >> /\ pairs # Error /\ last # Error =>
             result = Read([tag |-> name.value, attrs |-> pairs.value, content |-> last.value], last.cursor)
    BY <1>4, <2>1
  <2>6. pairs = ReadAttrs(buf, name.cursor, AttrCount(N))
    BY <2>1 DEF AttrCount
  <2>7. last = ReadRest(buf, pairs.cursor, N, within)
    BY <2>1 DEF ReadRest
  <2> HIDE DEF name, pairs, last, bd, p
  <2>8. ASSUME NEW x, name = Read(x, c2 + Len(a)) /\ (p => x = s)
        PROVE  Reads(buf, c2 + Len(a), bd, result, v, sure)
    <3> DEFINE c3 == c2 + Len(a)
    <3>1. name # Error /\ name.value = x /\ name.cursor = c3
      BY <2>8, ReadIsNoError
    <3>2. c3 \in Nat /\ c3 > c
      BY <1>a, <1>5
    <3> HIDE DEF c3
    <3>3. CASE x = << >>
      <4>1. ~sure
        BY <1>b, <2>8, <3>3 DEF p
      <4>2. result = Error
        BY <2>4, <3>1, <3>3
      <4>3. Reads(buf, c3, bd, result, v, sure)
        BY <4>1, <4>2 DEF Reads
      <4> QED BY <4>3 DEF c3
    <3>4. CASE x # << >>
      <4>1. Reads(buf, c3, b, pairs, attrs, sure)
        BY <1>c, <2>6, <3>1, <3>2
      <4>2. pairs = Error => result = Error
        BY <2>4, <3>1, <3>4
      <4>3. ASSUME NEW y, pairs = Read(y, c3 + Len(b)) /\ (sure => y = attrs)
            PROVE  Reads(buf, c3 + Len(b), d, result, v, sure)
        <5> DEFINE c4 == c3 + Len(b)
        <5>1. pairs # Error /\ pairs.value = y /\ pairs.cursor = c4
          BY <4>3, ReadIsNoError
        <5>2. c4 \in Nat /\ c4 > c
          BY <1>a, <1>5, <3>2
        <5> HIDE DEF c4
        <5>3. Reads(buf, c4, d, last, content, sure)
          BY <1>d, <2>7, <5>1, <5>2
        <5>4. /\ last = Error => result = Error
              /\ last # Error => result = Read([tag |-> x, attrs |-> y, content |-> last.value], last.cursor)
          BY <2>5, <3>1, <3>4, <5>1
        <5>5. ASSUME NEW z, last = Read(z, c4 + Len(d)) /\ (sure => z = content)
              PROVE  \/ ~sure /\ result = Error
                     \/ \E w : result = Read(w, c4 + Len(d)) /\ (sure => w = v)
          <6>1. last # Error /\ last.value = z /\ last.cursor = c4 + Len(d)
            BY <5>5, ReadIsNoError
          <6> DEFINE w == [tag |-> x, attrs |-> y, content |-> z]
          <6>2. result = Read(w, c4 + Len(d))
            BY <5>4, <6>1
          <6>3. sure => x = s /\ y = attrs /\ z = content
            BY <1>b, <2>8, <4>3, <5>5 DEF p
          <6>4. sure => w = v
            BY <6>3 DEF v
          <6> HIDE DEF w
          <6> QED BY <6>2, <6>4
        <5>6. Reads(buf, c4, d, result, v, sure)
          BY <1>a, <5>3, <5>4, <5>5, ReadsMapped
        <5> QED BY <5>6 DEF c4
      <4>4. Reads(buf, c3, b \o d, result, v, sure)
        BY <1>a, <4>1, <4>2, <4>3, ReadsJoined
      <4> QED BY <4>4 DEF bd, c3
    <3> QED BY <3>3, <3>4
  <2>9. sure => p
    BY <1>b DEF p
  <2>10. Reads(buf, c2, a, name, s, p)
    BY <2>3 DEF p
  <2>11. name = Error => result = Error
    BY <2>4
  <2> HIDE DEF c2
  <2>12. Reads(buf, c2, a \o bd, result, v, sure)
    BY <1>a, <1>2, <1>7, <2>0, <2>8, <2>9, <2>10, <2>11, ReadsJoined
  <2> QED BY <2>12
<1>11. ASSUME first = Read(tag, c1)
       PROVE  Reads(buf, c1, sabd, result, v, sure)
  <2>1. first # Error /\ first.value = tag /\ first.cursor = c1
    BY <1>11, ReadIsNoError
  <2>2. Reads(buf, c1, start, size, N, TRUE)
    <3>1. size = ReadListSize(buf, c1, tag)
      BY <2>1
    <3> HIDE DEF size
    <3> QED BY Zenon, <1>a, <3>1 DEF ListStart
  <2>3. size = Error => result = Error
    BY <1>3, <2>1
  <2>4. size = Read(N, c1 + Len(start)) => Reads(buf, c1 + Len(start), abd, result, v, sure)
    BY <1>10, <1>11
  <2> HIDE DEF size, abd, c1
  <2> QED BY Zenon, <1>a, <1>8, <2>2, <2>3, <2>4, SurelyFirst
<1> HIDE DEF sabd, first, c1
<1>12. first = Read(tag, c + Len(e)) => Reads(buf, c + Len(e), sabd, result, v, sure)
  BY <1>1, <1>11 DEF c1
<1>13. first = Error => result = Error
  BY <1>3
<1>14. Reads(buf, c, e \o sabd, result, v, sure)
  BY Zenon, <1>a, <1>1, <1>6, <1>9, <1>12, <1>13, SurelyFirst
<1> QED BY <1>14 DEF sabd, e, a, v, result

\* A node that is sent, and means the same to both sides.
SureNode(n) == PortableNode(n) /\ \A m \in Within[n] : m.tag # << >>

LEMMA SureParts ==
  ASSUME NEW n \in Nodes, SureNode(n)
  PROVE  /\ n.tag # << >> /\ Portable[n.tag]
         /\ \A i \in DOMAIN n.attrs : Portable[n.attrs[i][1]] /\ Portable[n.attrs[i][2]]
         /\ "string" \in DOMAIN n.content => Portable[n.content.string]
         /\ \A i \in DOMAIN Children(n) : SureNode(Children(n)[i])
<1>1. Within[n] = {n} \cup UNION {Within[Children(n)[i]] : i \in DOMAIN Children(n)}
  BY Zenon, WithinUnfolds DEF WithinBody
<1>2. n \in Within[n] /\ \A i \in DOMAIN Children(n) : Within[Children(n)[i]] \subseteq Within[n]
  BY <1>1
<1>3. \A i \in DOMAIN Children(n) : SureNode(Children(n)[i])
  BY <1>2 DEF SureNode, PortableNode
<1> QED BY <1>2, <1>3 DEF SureNode, PortableNode

\* A node, if those within are read where they can be.
LEMMA NodeReads ==
  ASSUME NEW n \in Nodes, NEW buf, Len(buf) \in Nat, NEW c \in Nat \ {0}, NEW within,
         NEW sure \in BOOLEAN, sure => SureNode(n),
         \A i \in DOMAIN Children(n), c1 \in Nat : c1 > c =>
            Reads(buf, c1, EncodeNode[Children(n)[i]], within[c1], AsReceived[Children(n)[i]], sure)
  PROVE  Reads(buf, c, EncodeNode[n], ReadNode(buf, c, within), AsReceived[n], sure)
<1> DEFINE N == SizeOf(n) s == n.tag attrs == n.attrs content == ReceivedContent(AsReceived, n)
           b == WriteAttrs(attrs) d == ContentCells(EncodeNode, n)
<1>1. EncodeNode[n] = NodeBody(EncodeNode, n) /\ EncodeNode \in [Nodes -> Seq(Cells)]
  BY EncodeNodeUnfolds
<1>2. PICK tag \in 0 .. 255, start \in Seq(Cells) :
         ListStart(N, tag, start) /\ EncodeNode[n] = Cell(tag) \o (start \o (WriteString[s] \o (b \o d)))
  <2> HIDE DEF N, b, d, s
  <2>1. \E tag \in 0 .. 255, start \in Seq(Cells) :
            /\ ListStart(N, tag, start)
            /\ NodeBody(EncodeNode, n) = Cell(tag) \o (start \o (WriteString[s] \o (b \o d)))
    BY Zenon, <1>1, NodeBodyStarts DEF N, b, d, s
  <2> QED BY Zenon, <1>1, <2>1
<1>3. AsReceived[n] = [tag |-> s, attrs |-> attrs, content |-> content]
  <2>1. AsReceived[n] = ReceivedBody(AsReceived, n)
    BY AsReceivedUnfolds
  <2>2. n = [tag |-> s, attrs |-> attrs, content |-> n.content]
    <3>1. n \in [tag : Strings, attrs : Seq(Strings \X Strings),
                   content : {NoContent} \cup [string : Strings] \cup [bytes : Blocks] \cup [nodes : Seq(Nodes)]]
      BY NodesAssumption
    <3> QED BY <3>1
  <2>3. ReceivedBody(AsReceived, n) = [n EXCEPT !.content = content]
    BY DEF ReceivedBody
  <2> HIDE DEF s, attrs, content
  <2>4. [n EXCEPT !.content = content] = [tag |-> s, attrs |-> attrs, content |-> content]
    BY <2>2
  <2> QED BY <2>1, <2>3, <2>4
<1>4. /\ s \in Strings /\ b \in Seq(Cells) /\ d \in Seq(Cells) /\ N \in Nat /\ N # 0
      /\ AttrCount(N) = Len(attrs) /\ (N % 2 = 0 <=> n.content # NoContent)
  BY Zenon, <1>1, NodeParts, WrittenAttrs, ContentCellsType, ListSizes DEF AttrCount
<1>5. ASSUME NEW c1 \in Nat, c1 > c PROVE Reads(buf, c1, b, ReadAttrs(buf, c1, AttrCount(N)), attrs, sure)
  <2>1. sure => \A i \in DOMAIN attrs : Portable[attrs[i][1]] /\ Portable[attrs[i][2]]
    BY SureParts
  <2>2. attrs \in Seq(Strings \X Strings) /\ \A j, k \in DOMAIN attrs : attrs[j][1] = attrs[k][1] => j = k
    BY NodeParts
  <2>3. c1 \in Nat \ {0}
    BY <1>5
  <2> HIDE DEF attrs
  <2>4. Reads(buf, c1, WriteAttrs(attrs), ReadAttrs(buf, c1, Len(attrs)), attrs, sure)
    BY <2>1, <2>2, <2>3, AttrsRead
  <2> HIDE DEF N
  <2> QED BY <1>4, <2>4
<1>6. ASSUME NEW c1 \in Nat, c1 > c
      PROVE  Reads(buf, c1, d, ReadRest(buf, c1, N, within), content, sure)
  <2>1. CASE n.content = NoContent
    <3>1. d = << >>
      BY <2>1 DEF ContentCells
    <3>2. content = NoContent
      BY Zenon, <2>1, ContentKinds DEF ReceivedContent
    <3>3. ~(N % 2 = 0)
      BY <1>4, <2>1
    <3> HIDE DEF N, d, content
    <3>4. Reads(buf, c1, << >>, Read(NoContent, c1), NoContent, TRUE)
      BY Zenon, NothingReads
    <3>5. Reads(buf, c1, << >>, Read(NoContent, c1), NoContent, sure)
      BY Zenon, <3>4, ReadsWeaker
    <3> QED BY <3>1, <3>2, <3>3, <3>5 DEF ReadRest
  <2>2. CASE n.content # NoContent
    <3>1. sure /\ "string" \in DOMAIN n.content => Portable[n.content.string]
      BY SureParts
    <3>2. \A i \in DOMAIN Children(n), c2 \in Nat : c2 > c1 =>
            Reads(buf, c2, EncodeNode[Children(n)[i]], within[c2], AsReceived[Children(n)[i]], sure)
      BY <1>6
    <3>3. c1 \in Nat \ {0}
      BY <1>6
    <3>4. Reads(buf, c1, d, ReadContent(buf, c1, within), content, sure)
      BY <2>2, <3>1, <3>2, <3>3, ContentReads
    <3>5. N % 2 = 0
      BY <1>4, <2>2
    <3> HIDE DEF N, d, content
    <3> QED BY <3>4, <3>5 DEF ReadRest
  <2> QED BY <2>1, <2>2
<1>7. sure => Portable[s] /\ s # << >>
  BY SureParts
<1> HIDE DEF N, s, attrs, content, b, d
<1>8. Reads(buf, c, Cell(tag) \o (start \o (WriteString[s] \o (b \o d))), ReadNode(buf, c, within),
            [tag |-> s, attrs |-> attrs, content |-> content], sure)
  <2>1. InPieces(N, tag, start, s, b, d, attrs, content, buf, c, within, sure)
    BY <1>2, <1>4, <1>5, <1>6, <1>7 DEF InPieces
  <2> QED BY <2>1, FrameReads
<1> QED BY <1>2, <1>3, <1>8

NodeReaders(buf, calls) ==
    \A left \in 0 .. Len(buf), c \in 1 .. Len(buf) + 1 :
        calls[left][c] = IF left = 0 THEN Error ELSE ReadNode(buf, c, calls[left - 1])

\* Each call of decodeNodeFromBuffer() leaves one call fewer.
LEMMA DecodeNodeUnfolds ==
  ASSUME NEW buf, Len(buf) \in Nat
  PROVE  \E calls : NodeReaders(buf, calls) /\ \A c : DecodeNode(buf, c) = calls[Len(buf)][c]
<1> DEFINE N == Len(buf)
           first == [c \in Cursors(buf) |-> Error]
           Body(f, left) == [c \in Cursors(buf) |-> IF left = 0 THEN Error ELSE ReadNode(buf, c, f[left - 1])]
           Q(f) == f = [left \in 0 .. N |-> Body(f, left)]
           calls == CHOOSE f : Q(f)
<1>1. Q(calls)
  <2>1. PICK f : Recursive(f, "nodes", buf, first, N)
    <3> HIDE DEF first
    <3> QED BY AgainAndAgain
  <2>2. \A left \in 0 .. N :
          (IF left = 0 THEN first ELSE Again("nodes", buf, left, f[left - 1])) = Body(f, left)
    BY DEF Again
  <2>3. Q(f)
    <3> HIDE DEF Body, first
    <3> QED BY Zenon, <2>1, <2>2 DEF Recursive
  <2> HIDE DEF Q
  <2> QED BY <2>3
<1>2. \A c : DecodeNode(buf, c) = calls[N][c]
  BY DEF DecodeNode
<1> HIDE DEF calls
<1>3. NodeReaders(buf, calls)
  <2>1. ASSUME NEW left \in 0 .. Len(buf), NEW c \in 1 .. Len(buf) + 1
        PROVE  calls[left][c] = IF left = 0 THEN Error ELSE ReadNode(buf, c, calls[left - 1])
    <3>1. calls[left] = Body(calls, left)
      <4> HIDE DEF Body
      <4> QED BY <1>1
    <3>2. c \in Cursors(buf)
      BY DEF Cursors
    <3> QED BY <3>1, <3>2
  <2> QED BY <2>1 DEF NodeReaders
<1> QED BY <1>2, <1>3

\* A node makes cells, one at least.
LEMMA NodeStarts ==
  ASSUME NEW n \in Nodes
  PROVE  EncodeNode[n] \in Seq(Cells) /\ Len(EncodeNode[n]) \in Nat \ {0}
<1> DEFINE z == WriteString[n.tag] \o (WriteAttrs(n.attrs) \o ContentCells(EncodeNode, n)) cells == EncodeNode[n]
<1>1. EncodeNode[n] = NodeBody(EncodeNode, n) /\ EncodeNode \in [Nodes -> Seq(Cells)]
  BY EncodeNodeUnfolds
<1>2. PICK tag \in 0 .. 255, start \in Seq(Cells) :
         ListStart(SizeOf(n), tag, start) /\ NodeBody(EncodeNode, n) = Cell(tag) \o (start \o z)
  <2> HIDE DEF z
  <2>1. \E tag \in 0 .. 255, start \in Seq(Cells) :
            ListStart(SizeOf(n), tag, start) /\ NodeBody(EncodeNode, n) = Cell(tag) \o (start \o z)
    BY Zenon, <1>1, NodeBodyStarts DEF z
  <2> QED BY Zenon, <2>1
<1>3. WriteString[n.tag] \in Seq(Cells) /\ WriteAttrs(n.attrs) \in Seq(Cells) /\ ContentCells(EncodeNode, n) \in Seq(Cells)
  BY Zenon, <1>1, NodeParts, WriteStringUnfolds, WrittenAttrs, ContentCellsType
<1>4. start \o z \in Seq(Cells)
  <2>1. WriteAttrs(n.attrs) \o ContentCells(EncodeNode, n) \in Seq(Cells)
    BY <1>3, TwoJoined
  <2>2. z \in Seq(Cells)
    BY <1>3, <2>1, TwoJoined
  <2> HIDE DEF z
  <2> QED BY <2>2, TwoJoined
<1> DEFINE rest == start \o z a == Cell(tag)
<1>5. a \in Seq(Cells) /\ Len(a) = 1
  BY Zenon, ByteCell
<1>6. cells = a \o rest /\ cells \in Seq(Cells)
  BY Zenon, <1>1, <1>2
<1> HIDE DEF rest, a, cells
<1>7. rest \in Seq(Cells)
  BY <1>4 DEF rest
<1>8. Len(a \o rest) = Len(a) + Len(rest) /\ Len(rest) \in Nat
  <2>1. a \in Seq(Cells)
    BY <1>5
  <2> QED BY <1>7, <2>1, ConcatProperties
<1>9. cells \in Seq(Cells) /\ Len(cells) \in Nat \ {0}
  BY <1>5, <1>6, <1>8
<1> QED BY <1>9 DEF cells

\* As many calls as cells are enough for every node that is there.
LEMMA ReadersTakeNodes ==
  ASSUME NEW buf, Len(buf) \in Nat, NEW calls, NodeReaders(buf, calls), NEW sure \in BOOLEAN
  PROVE  \A n \in Nodes, left \in 0 .. Len(buf), c \in Nat : (sure => SureNode(n)) /\ left + c >= Len(buf) + 1 =>
            Reads(buf, c, EncodeNode[n], calls[left][c], AsReceived[n], sure)
<1> DEFINE T == {n \in Nodes : (sure => SureNode(n)) =>
                    \A left \in 0 .. Len(buf), c \in Nat : left + c >= Len(buf) + 1 =>
                      Reads(buf, c, EncodeNode[n], calls[left][c], AsReceived[n], sure)}
<1>1. ASSUME NEW n \in Nodes, \A m \in Nodes : Depth[m] < Depth[n] => m \in T,
             sure => SureNode(n), NEW left \in 0 .. Len(buf), NEW c \in Nat, left + c >= Len(buf) + 1
      PROVE  Reads(buf, c, EncodeNode[n], calls[left][c], AsReceived[n], sure)
  <2> DEFINE result == calls[left][c]
  <2>1. CASE c \notin 1 .. Len(buf) + 1
    BY <2>1, ReadsOutside
  <2>2. CASE c \in 1 .. Len(buf) + 1 /\ left = 0
    <3>1. result = Error
      BY <2>2 DEF NodeReaders
    <3>2. ~(c <= Len(buf))
      BY <1>1, <2>2
    <3>3. Len(EncodeNode[n]) \in Nat \ {0}
      BY NodeStarts
    <3>4. Reads(buf, c, EncodeNode[n], Error, AsReceived[n], sure)
      BY <3>2, <3>3, NothingLeft
    <3> QED BY <3>1, <3>4
  <2>3. CASE c \in 1 .. Len(buf) + 1 /\ left # 0
    <3> DEFINE k == left - 1 within == calls[k]
    <3>1. result = ReadNode(buf, c, within)
      BY <2>3 DEF NodeReaders
    <3>2. k \in 0 .. Len(buf) /\ \A c1 \in Nat : c1 > c => k + c1 >= Len(buf) + 1
      BY <1>1, <2>3
    <3> HIDE DEF k
    <3>3. ASSUME NEW i \in DOMAIN Children(n), NEW c1 \in Nat, c1 > c
          PROVE  Reads(buf, c1, EncodeNode[Children(n)[i]], within[c1], AsReceived[Children(n)[i]], sure)
      <4> DEFINE m == Children(n)[i]
      <4>1. m \in Nodes /\ Depth[m] < Depth[n]
        BY NodeParts
      <4>2. sure => SureNode(m)
        BY <1>1, SureParts
      <4> HIDE DEF m
      <4>3. m \in T
        <5> HIDE DEF T
        <5> QED BY <1>1, <4>1
      <4>4. k + c1 >= Len(buf) + 1
        BY <3>2, <3>3
      <4>5. \A l \in 0 .. Len(buf), c2 \in Nat : l + c2 >= Len(buf) + 1 =>
                      Reads(buf, c2, EncodeNode[m], calls[l][c2], AsReceived[m], sure)
        BY <4>2, <4>3
      <4>6. Reads(buf, c1, EncodeNode[m], calls[k][c1], AsReceived[m], sure)
        BY <3>2, <4>4, <4>5
      <4> QED BY <4>6 DEF m
    <3>4. c \in Nat \ {0}
      BY <2>3
    <3> HIDE DEF within, result, T
    <3>5. Reads(buf, c, EncodeNode[n], ReadNode(buf, c, within), AsReceived[n], sure)
      BY Zenon, <1>1, <3>3, <3>4, NodeReads
    <3> QED BY <3>1, <3>5 DEF result
  <2> QED BY <2>1, <2>2, <2>3
<1>2. \A n \in Nodes : n \in T
  <2>1. ASSUME NEW n \in Nodes, \A m \in Nodes : Depth[m] < Depth[n] => m \in T PROVE n \in T
    BY <1>1, <2>1
  <2> HIDE DEF T
  <2> QED BY <2>1, NodeInduction
<1> QED BY <1>2

\* decodeNodeFromBuffer() reads what encodeNode() has written, and nothing less.
LEMMA DecodeNodeReads ==
  ASSUME NEW n \in Nodes, NEW buf, Len(buf) \in Nat, NEW c \in Nat \ {0}, NEW sure \in BOOLEAN, sure => SureNode(n)
  PROVE  Reads(buf, c, EncodeNode[n], DecodeNode(buf, c), AsReceived[n], sure)
<1>1. PICK calls : NodeReaders(buf, calls) /\ \A c1 : DecodeNode(buf, c1) = calls[Len(buf)][c1]
  BY DecodeNodeUnfolds
<1> DEFINE left == Len(buf)
<1>2. left \in 0 .. Len(buf) /\ left + c >= Len(buf) + 1
  OBVIOUS
<1> HIDE DEF left
<1>3. Reads(buf, c, EncodeNode[n], calls[left][c], AsReceived[n], sure)
  BY <1>1, <1>2, ReadersTakeNodes
<1> QED BY <1>1, <1>3 DEF left

\* The JID of another network, by its tag.
LEMMA FbStringReads ==
  ASSUME NEW user \in Strings, NEW server \in Strings, Portable[user], Portable[server],
         NEW h \in 0 .. 255, NEW l \in 0 .. 255, NEW buf, Len(buf) \in Nat, NEW c \in Nat \ {0}
  PROVE  /\ Cell(245) \o (WriteString[user] \o ((Cell(h) \o Cell(l)) \o WriteString[server])) \in Seq(Cells)
         /\ Reads(buf, c, Cell(245) \o (WriteString[user] \o ((Cell(h) \o Cell(l)) \o WriteString[server])),
                  ReadString(buf, c), JidEncode(user, server, 256 * h + l), TRUE)
<1> DEFINE t == 245 a == Cell(t) u == WriteString[user] d == Cell(h) \o Cell(l) w == WriteString[server]
           dw == d \o w udw == u \o dw n == 256 * h + l v == JidEncode(user, server, n)
           result == ReadString(buf, c) c1 == c + 1 c2 == c1 + Len(u) c3 == c2 + Len(d)
<1>1. t \in 0 .. 255
  OBVIOUS
<1>2. \A b1, w1 : ReadStringOf(buf, b1, t, w1) = ReadStringOf(buf, b1, 245, w1)
  OBVIOUS
<1> HIDE DEF t
<1>3. a \in Seq(Cells) /\ Len(a) = 1
  BY Zenon, <1>1, ByteCell
<1>4. u \in Seq(Cells) /\ w \in Seq(Cells)
  BY WriteStringUnfolds
<1>5. d \in Seq(Cells)
  BY Zenon, Int2Reads
<1> HIDE DEF a, u, d, w, v
<1>6. dw \in Seq(Cells)
  BY <1>4, <1>5, TwoJoined
<1>7. udw \in Seq(Cells)
  <2> HIDE DEF dw
  <2> QED BY <1>4, <1>6, TwoJoined
<1>8. a \o udw \in Seq(Cells)
  <2> HIDE DEF udw
  <2> QED BY <1>3, <1>7, TwoJoined
<1>9. Len(a \o udw) \in Nat \ {0}
  <2> HIDE DEF udw
  <2>1. a \in Seq(Cells)
    BY <1>3
  <2>2. Len(a \o udw) = Len(a) + Len(udw) /\ Len(udw) \in Nat
    BY <1>7, <2>1, ConcatProperties
  <2> QED BY <1>3, <2>2
<1>10. PICK calls : StringCalls(buf, calls) /\ StringReader(buf) = calls[Len(buf)]
  BY StringReaderUnfolds
<1>11. Reads(buf, c, a \o udw, result, v, TRUE)
  <2>1. CASE c \notin 1 .. Len(buf) + 1
    BY Zenon, <2>1, ReadsOutside
  <2>2. CASE c \in 1 .. Len(buf) + 1 /\ Len(buf) = 0
    <3>1. result = Error
      BY <1>10, <2>2 DEF StringCalls, ReadString
    <3>2. ~(c <= Len(buf))
      BY <2>2
    <3> HIDE DEF udw, result
    <3>3. Reads(buf, c, a \o udw, Error, v, TRUE)
      BY Zenon, <1>9, <3>2, NothingLeft
    <3> QED BY Zenon, <3>1, <3>3
  <2>3. CASE c \in 1 .. Len(buf) + 1 /\ Len(buf) # 0
    <3> DEFINE k == Len(buf) - 1 within == calls[k] first == ReadByte(buf, c)
               reader == within[c1] device == ReadInt2(buf, reader.cursor) last == within[device.cursor]
    <3>1. result = TakeString(buf, c, within)
      <4>1. Len(buf) \in 0 .. Len(buf)
        OBVIOUS
      <4> QED BY <1>10, <2>3, <4>1 DEF StringCalls, ReadString
    <3>2. k \in 0 .. Len(buf) /\ \A c4 \in Nat : c4 > c => k + c4 >= Len(buf) + 1
      BY <2>3
    <3> HIDE DEF k
    <3>3. ASSUME NEW s \in Strings, NEW c4 \in Nat, c4 > c
          PROVE  Reads(buf, c4, WriteString[s], within[c4], s, Portable[s])
      BY <1>10, <3>2, <3>3, ReadersTakeStrings
    <3> HIDE DEF result, within
    <3>4. /\ first = Error => result = Error
          /\ first # Error => result = ReadStringOf(buf, first.cursor, first.value, within)
      BY <3>1, StringTaken
    <3>5. Reads(buf, c, a, first, t, TRUE)
      BY Zenon, ByteReads DEF a
    <3>6. ASSUME first = Read(t, c + Len(a)) PROVE Reads(buf, c + Len(a), udw, result, v, TRUE)
      <4>1. first # Error /\ first.value = t /\ first.cursor = c + Len(a)
        BY <3>6, ReadIsNoError
      <4>2. result = ReadStringOf(buf, c1, 245, within)
        BY <1>2, <1>3, <3>4, <4>1
      <4> HIDE DEF first
      <4>3. /\ reader = Error => result = Error
            /\ reader # Error /\ device = Error => result = Error
            /\ reader # Error /\ device # Error /\ last = Error => result = Error
            /\ reader # Error /\ device # Error /\ last # Error =>
                   result = Read(JidEncode(reader.value, last.value, device.value), last.cursor)
        BY <4>2, FbTag
      <4>4. c1 \in Nat /\ c1 > c /\ c2 \in Nat /\ c2 > c /\ c3 \in Nat /\ c3 > c
        BY <1>4, <1>5
      <4>5. Reads(buf, c1, u, reader, user, TRUE)
        <5>1. Reads(buf, c1, WriteString[user], within[c1], user, Portable[user])
          BY Zenon, <3>3, <4>4
        <5>2. Portable[user] = TRUE
          BY PortableValue
        <5> QED BY Zenon, <5>1, <5>2 DEF u
      <4>6. ASSUME reader = Read(user, c2) PROVE Reads(buf, c2, dw, result, v, TRUE)
        <5>1. reader # Error /\ reader.value = user /\ reader.cursor = c2
          BY <4>6, ReadIsNoError
        <5>2. Reads(buf, c2, d, device, n, TRUE)
          <6>1. device = ReadInt2(buf, c2)
            BY <5>1
          <6>2. Reads(buf, c2, Cell(h) \o Cell(l), ReadInt2(buf, c2), 256 * h + l, TRUE)
            BY Zenon, Int2Reads
          <6> QED BY <6>1, <6>2 DEF d
        <5> HIDE DEF reader
        <5>3. ASSUME device = Read(n, c3) PROVE Reads(buf, c3, w, result, v, TRUE)
          <6>1. device # Error /\ device.value = n /\ device.cursor = c3
            BY <5>3, ReadIsNoError
          <6>2. last = within[c3]
            BY <6>1
          <6>3. Reads(buf, c3, w, last, server, TRUE)
            <7>1. Reads(buf, c3, WriteString[server], within[c3], server, Portable[server])
              BY Zenon, <3>3, <4>4
            <7>2. Portable[server] = TRUE
              BY PortableValue
            <7> HIDE DEF last
            <7> QED BY Zenon, <6>2, <7>1, <7>2 DEF w
          <6> HIDE DEF device, last, c3
          <6>4. last = Error => result = Error
            BY <4>3, <5>1, <6>1
          <6>5. ASSUME last = Read(server, c3 + Len(w)) PROVE result = Read(v, c3 + Len(w))
            <7>1. last # Error /\ last.value = server /\ last.cursor = c3 + Len(w)
              BY <6>5, ReadIsNoError
            <7> QED BY <4>3, <5>1, <6>1, <7>1 DEF v
          <6> QED BY Zenon, <6>3, <6>4, <6>5, SurelyMapped
        <5>4. device = Error => result = Error
          BY <4>3, <5>1
        <5>5. device = Read(n, c2 + Len(d)) => Reads(buf, c2 + Len(d), w, result, v, TRUE)
          BY Zenon, <5>3
        <5> HIDE DEF device, c2, n
        <5> QED BY Zenon, <1>4, <1>5, <5>2, <5>4, <5>5, SurelyJoined
      <4>7. reader = Error => result = Error
        BY <4>3
      <4>8. reader = Read(user, c1 + Len(u)) => Reads(buf, c1 + Len(u), dw, result, v, TRUE)
        BY Zenon, <4>6
      <4> HIDE DEF reader, c1, dw
      <4>9. Reads(buf, c1, u \o dw, result, v, TRUE)
        BY Zenon, <1>4, <1>6, <4>5, <4>7, <4>8, SurelyJoined
      <4> QED BY Zenon, <1>3, <4>9 DEF c1
    <3>7. first = Error => result = Error
      BY <3>4
    <3> HIDE DEF first, udw
    <3>8. Reads(buf, c, a \o udw, result, v, TRUE)
      BY Zenon, <1>3, <1>7, <3>5, <3>6, <3>7, SurelyJoined
    <3> QED BY Zenon, <3>8 DEF udw, result
  <2> QED BY Zenon, <2>1, <2>2, <2>3
<1> QED BY Zenon, <1>8, <1>11 DEF a, t, u, d, w, v

\* One attribute.
LEMMA OneAttrReads ==
  ASSUME NEW key \in Strings, Portable[key], NEW value, NEW w \in Seq(Cells), NEW buf, Len(buf) \in Nat,
         NEW c \in Nat \ {0}, \A c1 \in Nat \ {0} : Reads(buf, c1, w, ReadString(buf, c1), value, TRUE)
  PROVE  Reads(buf, c, WriteString[key] \o w, ReadAttrs(buf, c, 1), << <<key, value>> >>, TRUE)
<1> DEFINE result == ReadAttrs(buf, c, 1) before == Read(<< >>, c) k == WriteString[key]
           first == ReadString(buf, before.cursor) second == ReadString(buf, first.cursor)
           v == << <<key, value>> >> c1 == c + Len(k)
<1>1. PICK upTo : AttrCalls(buf, c, 1, upTo) /\ ReadAttrs(buf, c, 1) = upTo[1]
  BY ReadAttrsUnfolds
<1>2. result = TakeAttr(buf, before)
  <2>1. upTo[0] = before /\ upTo[0 + 1] = TakeAttr(buf, upTo[0])
    BY <1>1 DEF AttrCalls
  <2> QED BY <1>1, <2>1
<1>3. /\ before = Error => result = Error
      /\ before # Error /\ first = Error => result = Error
      /\ before # Error /\ first # Error /\ second = Error => result = Error
      /\ before # Error /\ first # Error /\ second # Error =>
             result = Read(SetAttr(before.value, first.value, second.value), second.cursor)
  BY <1>2, AttrTaken
<1>4. before # Error /\ before.value = << >> /\ before.cursor = c
  BY ReadIsNoError
<1>5. k \in Seq(Cells)
  BY WriteStringUnfolds
<1>6. Reads(buf, c, k, first, key, TRUE)
  <2>1. Portable[key] = TRUE
    BY PortableValue
  <2>2. Reads(buf, c, WriteString[key], ReadString(buf, c), key, Portable[key])
    BY Zenon, ReadStringReads
  <2> QED BY Zenon, <1>4, <2>1, <2>2
<1>7. SetAttr(<< >>, key, value) = v
  <2>1. ~ \E i \in DOMAIN << >> : << >>[i][1] = key
    OBVIOUS
  <2> QED BY <2>1 DEF SetAttr
<1>8. c1 \in Nat \ {0}
  BY <1>5
<1> HIDE DEF result, before, k, v
<1>9. ASSUME first = Read(key, c1) PROVE Reads(buf, c1, w, result, v, TRUE)
  <2>1. first # Error /\ first.value = key /\ first.cursor = c1
    BY <1>9, ReadIsNoError
  <2>2. Reads(buf, c1, w, second, value, TRUE)
    <3>1. second = ReadString(buf, c1)
      BY <2>1
    <3> HIDE DEF second, c1
    <3> QED BY Zenon, <1>8, <3>1
  <2> HIDE DEF first, second, c1
  <2>3. second = Error => result = Error
    BY <1>3, <1>4, <2>1
  <2>4. ASSUME second = Read(value, c1 + Len(w)) PROVE result = Read(v, c1 + Len(w))
    <3>1. second # Error /\ second.value = value /\ second.cursor = c1 + Len(w)
      BY <2>4, ReadIsNoError
    <3> QED BY <1>3, <1>4, <1>7, <2>1, <3>1
  <2> QED BY Zenon, <2>2, <2>3, <2>4, SurelyMapped
<1>10. first = Error => result = Error
  BY <1>3, <1>4
<1>11. first = Read(key, c + Len(k)) => Reads(buf, c + Len(k), w, result, v, TRUE)
  BY Zenon, <1>9
<1> HIDE DEF first, c1
<1>12. Reads(buf, c, k \o w, result, v, TRUE)
  BY Zenon, <1>5, <1>6, <1>10, <1>11, SurelyJoined
<1> QED BY Zenon, <1>12 DEF k, v, result

\* The message from another network: as a node in pieces, and as the server writes it.
FbNode(j) == [tag |-> <<"message">>, content |-> NoContent,
              attrs |-> << <<<<"from">>, JidEncode(j.user, j.server, j.device)>> >>]

FbAttr(j) ==
    WriteString[<<"from">>] \o (Cell(245) \o (WriteString[j.user]
      \o ((Cell(ByteAt(j.device, 256)) \o Cell(ByteAt(j.device, 1))) \o WriteString[j.server])))

FbCells(j) == WriteListStart(3) \o (WriteString[<<"message">>] \o FbAttr(j))

\* The message from another network, in pieces.
LEMMA FbParts ==
  ASSUME NEW j \in FbJids
  PROVE  /\ j.user \in Strings /\ j.server \in Strings /\ <<"message">> \in Strings /\ <<"from">> \in Strings
         /\ Portable[j.user] /\ Portable[j.server] /\ Portable[<<"message">>] /\ Portable[<<"from">>]
         /\ ByteAt(j.device, 256) \in 0 .. 255 /\ ByteAt(j.device, 1) \in 0 .. 255
         /\ 256 * ByteAt(j.device, 256) + ByteAt(j.device, 1) = j.device
<1>1. j.device \in Nat /\ j.device <= 65535
  BY FbJidsAssumption
<1> DEFINE n == j.device
<1> HIDE DEF n
<1>2. ByteAt(n, 256) \in 0 .. 255 /\ ByteAt(n, 1) \in 0 .. 255 /\ 256 * ByteAt(n, 256) + ByteAt(n, 1) = n
  <2>1. n \in Nat /\ n <= 65535
    BY <1>1 DEF n
  <2> QED BY <2>1, SMT DEF ByteAt
<1>3. /\ j.user \in Strings /\ j.server \in Strings /\ <<"message">> \in Strings /\ <<"from">> \in Strings
      /\ Portable[j.user] /\ Portable[j.server] /\ Portable[<<"message">>] /\ Portable[<<"from">>]
  BY FbJidsAssumption
<1> QED BY <1>2, <1>3 DEF n

\* Its attribute is read as the JID.
LEMMA FbAttrReads ==
  ASSUME NEW j \in FbJids, NEW buf, Len(buf) \in Nat, NEW c \in Nat \ {0}
  PROVE  /\ FbAttr(j) \in Seq(Cells)
         /\ Reads(buf, c, FbAttr(j), ReadAttrs(buf, c, 1), FbNode(j).attrs, TRUE)
<1> DEFINE h == ByteAt(j.device, 256) l == ByteAt(j.device, 1) user == j.user server == j.server
           key == <<"from">>
           w == Cell(245) \o (WriteString[user] \o ((Cell(h) \o Cell(l)) \o WriteString[server]))
           value == JidEncode(user, server, j.device)
<1>1. /\ user \in Strings /\ server \in Strings /\ key \in Strings /\ Portable[user] /\ Portable[server]
      /\ Portable[key] /\ h \in 0 .. 255 /\ l \in 0 .. 255 /\ 256 * h + l = j.device
  BY FbParts
<1>2. FbAttr(j) = WriteString[key] \o w
  BY DEF FbAttr
<1>3. FbNode(j).attrs = << <<key, value>> >>
  BY DEF FbNode
<1> HIDE DEF h, l, user, server, key
<1>4. \A c1 \in Nat \ {0} : w \in Seq(Cells) /\ Reads(buf, c1, w, ReadString(buf, c1), JidEncode(user, server, 256 * h + l), TRUE)
  BY ZenonT(60), <1>1, FbStringReads
<1>5. \A c1 \in Nat \ {0} : w \in Seq(Cells) /\ Reads(buf, c1, w, ReadString(buf, c1), value, TRUE)
  BY Zenon, <1>1, <1>4
<1> HIDE DEF w, value
<1>6. w \in Seq(Cells)
  BY Zenon, <1>5
<1>7. Reads(buf, c, WriteString[key] \o w, ReadAttrs(buf, c, 1), << <<key, value>> >>, TRUE)
  BY Zenon, <1>1, <1>5, <1>6, OneAttrReads
<1>8. WriteString[key] \o w \in Seq(Cells)
  <2> DEFINE k == WriteString[key]
  <2>1. k \in Seq(Cells)
    BY <1>1, WriteStringUnfolds
  <2> HIDE DEF k
  <2>2. k \o w \in Seq(Cells)
    BY <1>6, <2>1, TwoJoined
  <2> QED BY <2>2 DEF k
<1> QED BY Zenon, <1>2, <1>3, <1>7, <1>8

\* It is a node in pieces.
LEMMA FbStarts ==
  ASSUME NEW j \in FbJids
  PROVE  \E tag \in 0 .. 255, start \in Seq(Cells) :
            /\ ListStart(3, tag, start)
            /\ FbCells(j) = Cell(tag) \o (start \o (WriteString[<<"message">>] \o (FbAttr(j) \o << >>)))
            /\ FbCells(j) \in Seq(Cells) /\ Len(FbCells(j)) \in Nat \ {0}
<1> DEFINE N == 3 a == WriteString[<<"message">>] b == FbAttr(j) ab == a \o b list == WriteListStart(N)
<1>1. N \in Nat /\ N <= MaxListSize
  BY DEF MaxListSize
<1> HIDE DEF N
<1>2. PICK tag \in 0 .. 255, start \in Seq(Cells) : ListStart(N, tag, start)
  BY Zenon, <1>1, ListStartReads
<1> DEFINE e == Cell(tag)
<1>3. e \in Seq(Cells) /\ Len(e) = 1 /\ list = e \o start
  BY Zenon, <1>2, ByteCell DEF ListStart
<1>4. a \in Seq(Cells)
  BY FbParts, WriteStringUnfolds
<1>5. b \in Seq(Cells)
  <2>1. 1 \in Nat \ {0} /\ Len(<< >>) \in Nat
    OBVIOUS
  <2> QED BY Zenon, <2>1, FbAttrReads
<1>6. FbCells(j) = list \o ab
  BY DEF FbCells, N
<1> HIDE DEF a, b, e, list
<1>7. b \o << >> = b
  BY <1>5, CellsAndNothing
<1>8. ab \in Seq(Cells)
  BY <1>4, <1>5, TwoJoined
<1>9. list \o ab = e \o (start \o ab)
  <2> HIDE DEF ab
  <2> QED BY Zenon, <1>3, <1>8, ThreeJoined
<1>10. start \o ab \in Seq(Cells)
  <2> HIDE DEF ab
  <2> QED BY <1>8, TwoJoined
<1>11. e \o (start \o ab) \in Seq(Cells) /\ Len(e \o (start \o ab)) \in Nat \ {0}
  <2> DEFINE r == start \o ab
  <2>0. r \in Seq(Cells) /\ e \in Seq(Cells)
    BY <1>3, <1>10
  <2> HIDE DEF r
  <2>1. e \o r \in Seq(Cells)
    BY <2>0, TwoJoined
  <2>2. Len(e \o r) = Len(e) + Len(r) /\ Len(r) \in Nat
    BY <2>0, ConcatProperties
  <2>3. Len(e \o r) \in Nat \ {0}
    BY <1>3, <2>2
  <2> QED BY <2>1, <2>3 DEF r
<1>12. FbCells(j) \in Seq(Cells) /\ Len(FbCells(j)) \in Nat \ {0}
  BY <1>6, <1>9, <1>11
<1>13. FbCells(j) = e \o (start \o (a \o (b \o << >>)))
  BY <1>6, <1>7, <1>9
<1> QED BY Zenon, <1>2, <1>12, <1>13 DEF N, a, b, e

\* It is read as the message.
LEMMA FbReads ==
  ASSUME NEW j \in FbJids, NEW buf, Len(buf) \in Nat, NEW c \in Nat \ {0}
  PROVE  Reads(buf, c, FbCells(j), DecodeNode(buf, c), FbNode(j), TRUE)
<1>1. PICK calls : NodeReaders(buf, calls) /\ \A c1 : DecodeNode(buf, c1) = calls[Len(buf)][c1]
  BY DecodeNodeUnfolds
<1> DEFINE result == DecodeNode(buf, c)
<1>2. CASE c \notin 1 .. Len(buf) + 1
  BY Zenon, <1>2, ReadsOutside
<1>3. CASE c \in 1 .. Len(buf) + 1 /\ Len(buf) = 0
  <2>1. result = Error
    BY <1>1, <1>3 DEF NodeReaders
  <2>2. ~(c <= Len(buf))
    BY SMTT(30), <1>3
  <2>3. Len(FbCells(j)) \in Nat \ {0}
    BY FbStarts
  <2>4. Reads(buf, c, FbCells(j), Error, FbNode(j), TRUE)
    BY Zenon, <2>2, <2>3, NothingLeft
  <2> QED BY Zenon, <2>1, <2>4
<1>4. CASE c \in 1 .. Len(buf) + 1 /\ Len(buf) # 0
  <2> DEFINE within == calls[Len(buf) - 1] N == 3 s == <<"message">> b == FbAttr(j) d == << >>
             attrs == FbNode(j).attrs sure == TRUE content == NoContent
  <2>1. result = ReadNode(buf, c, within)
    <3>1. Len(buf) \in 0 .. Len(buf)
      OBVIOUS
    <3> QED BY <1>1, <1>4, <3>1 DEF NodeReaders
  <2>2. PICK tag \in 0 .. 255, start \in Seq(Cells) :
            ListStart(3, tag, start) /\ FbCells(j) = Cell(tag) \o (start \o (WriteString[s] \o (b \o d)))
    BY Zenon, FbStarts
  <2>3. s \in Strings /\ Portable[s] /\ s # << >>
    BY FbParts
  <2>4. ASSUME NEW c1 \in Nat, c1 > c
        PROVE  b \in Seq(Cells) /\ Reads(buf, c1, b, ReadAttrs(buf, c1, AttrCount(N)), attrs, sure)
    <3>1. AttrCount(N) = 1
      BY DEF AttrCount
    <3>2. c1 \in Nat \ {0}
      BY <2>4
    <3> HIDE DEF attrs, b
    <3>3. b \in Seq(Cells) /\ Reads(buf, c1, b, ReadAttrs(buf, c1, 1), attrs, sure)
      BY Zenon, <3>2, FbAttrReads DEF attrs, b
    <3> HIDE DEF N
    <3> QED BY Zenon, <3>1, <3>3
  <2>5. ASSUME NEW c1 \in Nat, c1 > c
        PROVE  Reads(buf, c1, d, ReadRest(buf, c1, N, within), content, sure)
    <3>1. ReadRest(buf, c1, N, within) = Read(content, c1)
      BY DEF ReadRest
    <3> HIDE DEF N, content
    <3>2. Reads(buf, c1, d, Read(content, c1), content, sure)
      BY Zenon, NothingReads
    <3> QED BY Zenon, <3>1, <3>2
  <2>6. b \in Seq(Cells) /\ d \in Seq(Cells) /\ N \in Nat /\ N # 0 /\ sure \in BOOLEAN
    <3>1. c + 1 \in Nat /\ c + 1 > c
      OBVIOUS
    <3>2. b \in Seq(Cells)
      BY Zenon, <2>4, <3>1
    <3> HIDE DEF b
    <3> QED BY <3>2
  <2>7. ListStart(N, tag, start)
    BY <2>2
  <2> HIDE DEF N, b, s, d, attrs, sure, within, content
  <2>8. InPieces(N, tag, start, s, b, d, attrs, content, buf, c, within, sure)
    BY <2>3, <2>4, <2>5, <2>6, <2>7 DEF InPieces
  <2>9. Reads(buf, c, Cell(tag) \o (start \o (WriteString[s] \o (b \o d))), ReadNode(buf, c, within),
              [tag |-> s, attrs |-> attrs, content |-> content], sure)
    BY <2>8, FrameReads
  <2>10. FbNode(j) = [tag |-> s, attrs |-> attrs, content |-> content]
    BY DEF FbNode, s, attrs, content
  <2> HIDE DEF result
  <2>11. Reads(buf, c, FbCells(j), result, FbNode(j), sure)
    BY <2>1, <2>2, <2>9, <2>10
  <2> QED BY Zenon, <2>11 DEF sure, result
<1> QED BY Zenon, <1>2, <1>3, <1>4

-----------------------------------------------------------------------------
(* Frames.                                                                  *)

\* What is written for a node.
CellsOf(n) == {EncodeNode[m] : m \in {k \in Nodes : k = n /\ \A i \in Within[k] : i.tag # << >>}}
                \cup {FbCells(j) : j \in {i \in FbJids : FbNode(i) = n}}

Arrives(n) == IF n \in Nodes THEN AsReceived[n] ELSE n

\* What the sender or the server writes is read as what arrives.
LEMMA WrittenReads ==
  ASSUME NEW n, NEW cells \in CellsOf(n)
  PROVE  /\ cells \in Seq(Cells) /\ Len(cells) \in Nat \ {0} /\ n # NoNode
         /\ \A buf, c, sure : Len(buf) \in Nat /\ c \in Nat \ {0} /\ sure \in BOOLEAN
                              /\ (sure => (n \in Nodes => PortableNode(n))) =>
                Reads(buf, c, cells, DecodeNode(buf, c), Arrives(n), sure)
<1>1. CASE n \in Nodes /\ (\A i \in Within[n] : i.tag # << >>) /\ cells = EncodeNode[n]
  <2>1. cells \in Seq(Cells) /\ Len(cells) \in Nat \ {0}
    BY <1>1, NodeStarts
  <2>2. n # NoNode
    <3>1. n \in Within[n]
      BY <1>1, WithinUnfolds DEF WithinBody
    <3>2. n.tag # << >>
      BY <1>1, <3>1
    <3> QED BY <3>2 DEF NoNode
  <2>3. ASSUME NEW buf, NEW c, NEW sure, Len(buf) \in Nat, c \in Nat \ {0}, sure \in BOOLEAN,
               sure => (n \in Nodes => PortableNode(n))
        PROVE  Reads(buf, c, cells, DecodeNode(buf, c), Arrives(n), sure)
    <3>1. sure => SureNode(n)
      BY <1>1, <2>3 DEF SureNode
    <3>2. Reads(buf, c, EncodeNode[n], DecodeNode(buf, c), AsReceived[n], sure)
      BY <1>1, <2>3, <3>1, DecodeNodeReads
    <3> QED BY <1>1, <3>2 DEF Arrives
  <2> QED BY <2>1, <2>2, <2>3
<1>2. ASSUME NEW j \in FbJids, n = FbNode(j), cells = FbCells(j)
      PROVE  /\ cells \in Seq(Cells) /\ Len(cells) \in Nat \ {0} /\ n # NoNode
             /\ \A buf, c, sure : Len(buf) \in Nat /\ c \in Nat \ {0} /\ sure \in BOOLEAN =>
                    Reads(buf, c, cells, DecodeNode(buf, c), Arrives(n), sure)
  <2>1. cells \in Seq(Cells) /\ Len(cells) \in Nat \ {0}
    BY <1>2, FbStarts
  <2>2. n # NoNode
    <3>1. n.tag # << >>
      BY <1>2 DEF FbNode
    <3> QED BY <3>1 DEF NoNode
  <2>3. Arrives(n) = n
    <3>1. ASSUME n \in Nodes PROVE AsReceived[n] = n
      <4>1. AsReceived[n] = [n EXCEPT !.content = ReceivedContent(AsReceived, n)]
        BY Zenon, <3>1, AsReceivedUnfolds DEF ReceivedBody
      <4>2. n.content = NoContent
        BY <1>2 DEF FbNode
      <4>3. ReceivedContent(AsReceived, n) = n.content
        BY Zenon, <3>1, <4>2, ContentKinds DEF ReceivedContent
      <4>4. [n EXCEPT !.content = n.content] = n
        BY <1>2 DEF FbNode
      <4> QED BY <4>1, <4>3, <4>4
    <3> QED BY <3>1 DEF Arrives
  <2>4. ASSUME NEW buf, NEW c, NEW sure, Len(buf) \in Nat, c \in Nat \ {0}, sure \in BOOLEAN
        PROVE  Reads(buf, c, cells, DecodeNode(buf, c), Arrives(n), sure)
    <3>1. Reads(buf, c, cells, DecodeNode(buf, c), n, TRUE)
      BY Zenon, <1>2, <2>4, FbReads
    <3>2. Reads(buf, c, cells, DecodeNode(buf, c), n, sure)
      BY Zenon, <2>4, <3>1, ReadsWeaker
    <3> QED BY <2>3, <3>2
  <2> QED BY SMTT(30), <2>1, <2>2, <2>4
<1>3. \/ n \in Nodes /\ (\A i \in Within[n] : i.tag # << >>) /\ cells = EncodeNode[n]
      \/ \E j \in FbJids : n = FbNode(j) /\ cells = FbCells(j)
  BY DEF CellsOf
<1> QED BY <1>1, <1>2, <1>3

\* What a cut leaves of the cells.
Pieces == Cells \cup {Shortened(cell) : cell \in Cells}

Compressed(buf) == <<[byte |-> 2], [deflated |-> buf]>>

\* A frame is its flags and the cells.
LEMMA FrameCells ==
  ASSUME NEW cells \in Seq(Cells), Len(cells) \in Nat \ {0}
  PROVE  LET frame == Cell(0) \o cells
         IN  /\ frame \in Seq(Pieces) /\ Len(frame) = Len(cells) + 1 /\ frame[1] = [byte |-> 0]
             /\ \A i \in 1 .. Len(cells) : frame[i + 1] = cells[i]
             /\ Stands(frame, 2, cells) /\ Tail(frame) = cells /\ Last(frame) = cells[Len(cells)]
<1> DEFINE a == Cell(0) frame == a \o cells N == Len(cells)
<1>1. a \in Seq(Cells) /\ Len(a) = 1 /\ a[1] = [byte |-> 0]
  <2>1. 0 \in 0 .. 255
    OBVIOUS
  <2>2. a[1] = [byte |-> 0]
    BY DEF Cell
  <2> QED BY <2>1, <2>2, ByteCell
<1> HIDE DEF a
<1>0. a \in Seq(Cells)
  BY <1>1
<1>2. frame \in Seq(Cells) /\ Len(frame) = N + 1
  <2>1. frame \in Seq(Cells)
    BY <1>0, TwoJoined
  <2>2. Len(frame) = Len(a) + Len(cells)
    BY <1>0, ConcatProperties
  <2>3. Len(frame) = N + 1
    <3> HIDE DEF frame, N
    <3>1. Len(a) = 1 /\ N \in Nat
      BY <1>1 DEF N
    <3> QED BY <2>2, <3>1 DEF N
  <2> QED BY <2>1, <2>3
<1>3. frame[1] = [byte |-> 0] /\ \A i \in 1 .. N : frame[i + 1] = cells[i]
  <2>1. frame[1] = a[1]
    BY SMTT(30), <1>1
  <2>2. \A i \in 1 .. N : frame[i + 1] = cells[i]
    <3>1. \A i \in 1 .. Len(a) + Len(cells) : (a \o cells)[i] = IF i <= Len(a) THEN a[i] ELSE cells[i - Len(a)]
      BY <1>0, ConcatProperties
    <3>2. ASSUME NEW i \in 1 .. N PROVE frame[i + 1] = cells[i]
      <4> DEFINE k == i + 1
      <4>0. Len(a) = 1
        BY <1>1
      <4>1. k \in 1 .. Len(a) + Len(cells) /\ ~(k <= Len(a)) /\ k - Len(a) = i
        BY <4>0
      <4> HIDE DEF k
      <4>2. frame[k] = cells[i]
        BY <3>1, <4>1
      <4> QED BY <4>2 DEF k
    <3> QED BY Zenon, <3>2
  <2> QED BY Zenon, <1>1, <2>1, <2>2
<1>4. N \in Nat \ {0} /\ cells \in Seq(Cells)
  OBVIOUS
<1> HIDE DEF frame
<1>5. frame \in Seq(Pieces)
  BY <1>2 DEF Pieces
<1>6. Stands(frame, 2, cells)
  <2>1. 2 \in 1 .. Len(frame) + 1 /\ 2 + Len(cells) <= Len(frame) + 1
    BY <1>2, <1>4
  <2>2. \A i \in 1 .. Len(cells) : frame[2 + i - 1] = cells[i]
    BY <1>3, <1>4
  <2> QED BY <2>1, <2>2 DEF Stands
<1>7. Tail(frame) = cells
  <2> DEFINE t == Tail(frame)
  <2>1. t \in Seq(Cells) /\ Len(t) = N /\ \A i \in 1 .. N : t[i] = frame[i + 1]
    BY <1>2, <1>4
  <2> HIDE DEF t
  <2>2. \A i \in 1 .. N : t[i] = cells[i]
    BY <1>3, <2>1
  <2>3. t = cells
    BY <2>1, <2>2, <1>4
  <2> QED BY <2>3 DEF t
<1>8. Last(frame) = cells[N]
  <2>1. Last(frame) = frame[Len(frame)]
    BY DEF Last
  <2> QED BY <1>2, <1>3, <1>4, <2>1
<1> QED BY Zenon, <1>2, <1>3, <1>5, <1>6, <1>7, <1>8 DEF frame, a

\* A frame without its end.
LEMMA FrameCut ==
  ASSUME NEW cells \in Seq(Cells), Len(cells) \in Nat \ {0}, NEW n \in 1 .. Len(Cell(0) \o cells) - 1
  PROVE  LET cut == SubSeq(Cell(0) \o cells, 1, n)
         IN  cut \in Seq(Pieces) /\ cut[1] = [byte |-> 0] /\ Broken(cut, 2, cells)
<1> DEFINE frame == Cell(0) \o cells cut == SubSeq(frame, 1, n) N == Len(cells)
<1>1. /\ frame \in Seq(Pieces) /\ Len(frame) = N + 1 /\ frame[1] = [byte |-> 0]
      /\ \A i \in 1 .. N : frame[i + 1] = cells[i]
  BY Zenon, FrameCells
<1>2. N \in Nat \ {0} /\ n \in 1 .. N
  BY <1>1
<1> HIDE DEF frame, N
<1>3. cut \in Seq(Pieces) /\ Len(cut) = n /\ \A i \in 1 .. n : cut[i] = frame[i]
  BY <1>1, <1>2
<1> HIDE DEF cut
<1>4. cut[1] = [byte |-> 0]
  BY <1>1, <1>2, <1>3
<1>5. Broken(cut, 2, cells)
  <2>1. 2 \in 1 .. Len(cut) + 1 /\ Len(cut) + 1 < 2 + N
    BY <1>2, <1>3
  <2>2. ASSUME NEW i \in 1 .. Len(cut) + 1 - 2 PROVE cut[2 + i - 1] = cells[i]
    <3>1. i \in 1 .. N /\ i + 1 \in 1 .. n /\ 2 + i - 1 = i + 1
      BY <1>2, <1>3
    <3> QED BY <1>1, <1>3, <3>1
  <2> QED BY <2>1, <2>2 DEF Broken, N
<1> QED BY <1>3, <1>4, <1>5 DEF cut, frame

\* A frame whose last block has lost its end.
LEMMA FrameClipped ==
  ASSUME NEW cells \in Seq(Cells), Len(cells) \in Nat \ {0}, "len" \in DOMAIN Last(Cell(0) \o cells)
  PROVE  LET frame == Cell(0) \o cells
             cut == Append(Front(frame), [Last(frame) EXCEPT !.len = @ - 1])
         IN  cut \in Seq(Pieces) /\ cut[1] = [byte |-> 0] /\ Broken(cut, 2, cells)
<1> DEFINE frame == Cell(0) \o cells N == Len(cells) last == cells[N] front == Front(frame)
           cut == Append(front, Shortened(last))
<1>1. /\ frame \in Seq(Pieces) /\ Len(frame) = N + 1 /\ frame[1] = [byte |-> 0]
      /\ \A i \in 1 .. N : frame[i + 1] = cells[i]
      /\ Last(frame) = last
  BY FrameCells
<1>2. N \in Nat \ {0} /\ last \in Cells /\ "len" \in DOMAIN last
  BY <1>1
<1>3. Append(front, [Last(frame) EXCEPT !.len = @ - 1]) = cut
  BY Zenon, <1>1 DEF Shortened
<1> HIDE DEF frame
<1>4. front \in Seq(Pieces) /\ Len(front) = N /\ \A i \in 1 .. N : front[i] = frame[i]
  <2>1. front = SubSeq(frame, 1, N)
    BY <1>1, <1>2 DEF Front
  <2> HIDE DEF N, front
  <2> QED BY <1>1, <1>2, <2>1
<1>5. Shortened(last) \in Pieces
  BY <1>2 DEF Pieces
<1> DEFINE short == Shortened(last)
<1> HIDE DEF N, last, front, short
<1>6. cut \in Seq(Pieces) /\ Len(cut) = N + 1 /\ cut[N + 1] = short /\ \A i \in 1 .. N : cut[i] = front[i]
  <2>1. cut = Append(front, short)
    BY DEF short
  <2>2. short \in Pieces
    BY <1>5 DEF short
  <2> HIDE DEF cut
  <2> QED BY <1>2, <1>4, <2>1, <2>2
<1> HIDE DEF cut
<1>7. cut[1] = [byte |-> 0]
  <2>1. 1 \in 1 .. N
    BY <1>2
  <2> QED BY <1>1, <1>4, <1>6, <2>1
<1>8. Broken(cut, 2, cells)
  <2>1. 2 \in 1 .. Len(cut) + 1 /\ Len(cut) + 1 = 2 + N /\ N >= 1
    BY <1>2, <1>6
  <2>2. ASSUME NEW i \in 1 .. N - 1 PROVE cut[2 + i - 1] = cells[i]
    <3>1. i \in 1 .. N /\ i + 1 \in 1 .. N /\ 2 + i - 1 = i + 1
      BY <1>2
    <3> QED BY <1>1, <1>4, <1>6, <3>1
  <2>3. "len" \in DOMAIN cells[N] /\ cut[Len(cut)] = Shortened(cells[N])
    BY <1>2, <1>6 DEF short, last
  <2> QED BY <2>1, <2>2, <2>3 DEF Broken, N
<1> QED BY Zenon, <1>3, <1>6, <1>7, <1>8 DEF frame, front

\* If a frame is broken behind its flags, what is left without them is broken.
LEMMA TailBroken ==
  ASSUME NEW S, NEW w \in Seq(S), NEW cells, Broken(w, 2, cells), Len(cells) \in Nat
  PROVE  Len(Tail(w)) \in Nat /\ Broken(Tail(w), 1, cells)
<1> DEFINE t == Tail(w) N == Len(cells)
<1>1. Len(w) \in Nat \ {0}
  BY DEF Broken
<1>2. Len(t) = Len(w) - 1 /\ \A i \in 1 .. Len(t) : t[i] = w[i + 1]
  BY <1>1
<1> HIDE DEF t
<1>3. Len(t) \in Nat /\ 1 \in 1 .. Len(t) + 1
  BY <1>1, <1>2
<1>4. CASE Len(w) + 1 < 2 + N /\ \A i \in 1 .. Len(w) + 1 - 2 : w[2 + i - 1] = cells[i]
  <2>1. Len(t) + 1 < 1 + N
    BY <1>1, <1>2, <1>4
  <2>2. ASSUME NEW i \in 1 .. Len(t) + 1 - 1 PROVE t[1 + i - 1] = cells[i]
    <3>1. i \in 1 .. Len(t) /\ i \in 1 .. Len(w) + 1 - 2 /\ 1 + i - 1 = i /\ 2 + i - 1 = i + 1
      BY <1>1, <1>2
    <3> QED BY <1>2, <1>4, <3>1
  <2> QED BY <1>3, <2>1, <2>2 DEF Broken, t
<1>5. CASE /\ Len(w) + 1 = 2 + N /\ N >= 1
           /\ \A i \in 1 .. N - 1 : w[2 + i - 1] = cells[i]
           /\ "len" \in DOMAIN cells[N] /\ w[Len(w)] = Shortened(cells[N])
  <2>1. Len(t) + 1 = 1 + N
    BY <1>1, <1>2, <1>5
  <2>2. ASSUME NEW i \in 1 .. N - 1 PROVE t[1 + i - 1] = cells[i]
    <3>1. i \in 1 .. Len(t) /\ 1 + i - 1 = i /\ 2 + i - 1 = i + 1
      BY <1>3, <2>1
    <3> QED BY <1>2, <1>5, <3>1
  <2>3. t[Len(t)] = Shortened(cells[N])
    <3>1. Len(t) \in 1 .. Len(t) /\ Len(t) + 1 = Len(w)
      BY <1>1, <1>2, <1>5, <2>1
    <3> QED BY <1>2, <1>5, <3>1
  <2> QED BY <1>3, <1>5, <2>1, <2>2, <2>3 DEF Broken, t
<1> QED BY Zenon, <1>4, <1>5 DEF Broken

\* The flags of a frame.
LEMMA PlainDecoded ==
  ASSUME NEW frame, Len(frame) \in Nat \ {0}, frame[1] = [byte |-> 0]
  PROVE  DecodeFramed(frame) = DecodeNode(frame, 2)
<1> DEFINE first == ReadByte(frame, 1)
<1>1. first = Read(0, 2)
  BY DEF ReadByte
<1>2. first # Error /\ first.value = 0 /\ first.cursor = 2
  BY <1>1, ReadIsNoError
<1> HIDE DEF first
<1>3. 0 \div 2 % 2 = 0
  OBVIOUS
<1> QED BY <1>2, <1>3 DEF DecodeFramed, Then, first

\* One that is compressed, from its start when inflated.
LEMMA CompressedDecoded ==
  ASSUME NEW buf
  PROVE  DecodeFramed(Compressed(buf)) = DecodeNode(buf, 1)
<1> DEFINE frame == Compressed(buf) first == ReadByte(frame, 1)
<1>1. Len(frame) = 2 /\ frame[1] = [byte |-> 2] /\ frame[2] = [deflated |-> buf]
  BY DEF Compressed
<1> HIDE DEF frame
<1>2. first = Read(2, 2)
  BY <1>1 DEF ReadByte
<1>3. first # Error /\ first.value = 2 /\ first.cursor = 2
  BY <1>2, ReadIsNoError
<1>4. 2 <= Len(frame) /\ "deflated" \in DOMAIN frame[2] /\ frame[2].deflated = buf
  BY <1>1
<1>5. ~(2 \div 2 % 2 = 0)
  OBVIOUS
<1> HIDE DEF first
<1>6. DecodeFramed(frame) = DecodeNode(frame[2].deflated, 1)
  BY <1>3, <1>4, <1>5 DEF DecodeFramed, Then, first
<1> QED BY <1>4, <1>6 DEF frame

LEMMA FlagsDecoded ==
  DecodeFramed(Cell(2)) = Error
<1> DEFINE frame == Cell(2) first == ReadByte(frame, 1)
<1>1. Len(frame) = 1 /\ frame[1] = [byte |-> 2]
  BY DEF Cell
<1> HIDE DEF frame
<1>2. first = Read(2, 2)
  BY <1>1 DEF ReadByte
<1>3. first # Error /\ first.value = 2 /\ first.cursor = 2
  BY <1>2, ReadIsNoError
<1>4. ~(2 \div 2 % 2 = 0) /\ ~(2 <= Len(frame))
  BY <1>1
<1> HIDE DEF first
<1> QED BY <1>3, <1>4 DEF DecodeFramed, Then, first, frame

\* A frame under way is what was written, or what is left of it.
InTransit(cells) ==
    \/ whole /\ wire \in {Cell(0) \o cells, Compressed(cells)}
    \/ ~whole /\ wire \in Seq(Pieces) /\ wire[1] = [byte |-> 0] /\ Broken(wire, 2, cells)
    \/ ~whole /\ wire = Cell(2)
    \/ ~whole /\ \E buf : Len(buf) \in Nat /\ Broken(buf, 1, cells) /\ wire = Compressed(buf)

Outcome(n, result) ==
    /\ whole /\ (n \in Nodes => PortableNode(n)) => result # Error /\ result.value = Arrives(n)
    /\ ~whole => result = Error

CodecInv ==
    /\ whole \in BOOLEAN
    /\ \/ node = NoNode /\ wire = Nothing /\ whole
       \/ \E cells \in CellsOf(node) : wire # Nothing /\ InTransit(cells)
       \/ CellsOf(node) # {} /\ wire = Nothing /\ Outcome(node, received)

\* What the receiver makes of it.
LEMMA TransitDecoded ==
  ASSUME NEW cells \in CellsOf(node), InTransit(cells), whole \in BOOLEAN
  PROVE  Outcome(node, DecodeFramed(wire))
<1> DEFINE portable == node \in Nodes => PortableNode(node) result == DecodeFramed(wire) v == Arrives(node)
<1>1. /\ cells \in Seq(Cells) /\ Len(cells) \in Nat \ {0}
      /\ \A buf, c, sure : Len(buf) \in Nat /\ c \in Nat \ {0} /\ sure \in BOOLEAN /\ (sure => portable) =>
              Reads(buf, c, cells, DecodeNode(buf, c), v, sure)
  BY WrittenReads
<1> HIDE DEF portable, v
<1>2. ASSUME NEW buf, NEW c, Len(buf) \in Nat, c \in Nat \ {0}, Stands(buf, c, cells), portable
      PROVE  DecodeNode(buf, c) # Error /\ DecodeNode(buf, c).value = v
  <2>1. Reads(buf, c, cells, DecodeNode(buf, c), v, TRUE)
    BY Zenon, <1>1, <1>2
  <2>2. DecodeNode(buf, c) = Read(v, c + Len(cells))
    BY <1>2, <2>1 DEF Reads
  <2> QED BY <2>2, ReadIsNoError
<1>3. ASSUME NEW buf, NEW c, Len(buf) \in Nat, c \in Nat \ {0}, Broken(buf, c, cells)
      PROVE  DecodeNode(buf, c) = Error
  <2>1. Reads(buf, c, cells, DecodeNode(buf, c), v, FALSE)
    BY Zenon, <1>1, <1>3
  <2> QED BY <1>3, <2>1 DEF Reads
<1>4. CASE whole /\ wire = Cell(0) \o cells
  <2>1. Len(wire) = Len(cells) + 1 /\ wire[1] = [byte |-> 0] /\ Stands(wire, 2, cells)
    BY <1>1, <1>4, FrameCells
  <2>2. Len(wire) \in Nat \ {0}
    BY <1>1, <2>1
  <2>3. result = DecodeNode(wire, 2)
    BY <2>1, <2>2, PlainDecoded
  <2>4. portable => result # Error /\ result.value = v
    BY <1>2, <2>1, <2>2, <2>3
  <2> QED BY <1>4, <2>4 DEF Outcome, portable, v
<1>5. CASE whole /\ wire = Compressed(cells)
  <2>1. result = DecodeNode(cells, 1)
    BY <1>5, CompressedDecoded
  <2>2. Stands(cells, 1, cells)
    BY <1>1 DEF Stands
  <2>3. portable => result # Error /\ result.value = v
    BY <1>1, <1>2, <2>1, <2>2
  <2> QED BY <1>5, <2>3 DEF Outcome, portable, v
<1>6. CASE ~whole /\ wire \in Seq(Pieces) /\ wire[1] = [byte |-> 0] /\ Broken(wire, 2, cells)
  <2>1. Len(wire) \in Nat \ {0}
    BY <1>6 DEF Broken
  <2>2. result = DecodeNode(wire, 2)
    BY <1>6, <2>1, PlainDecoded
  <2>3. result = Error
    BY <1>3, <1>6, <2>1, <2>2
  <2> QED BY <1>6, <2>3 DEF Outcome
<1>7. CASE ~whole /\ wire = Cell(2)
  BY <1>7, FlagsDecoded DEF Outcome
<1>8. ASSUME ~whole, NEW buf, Len(buf) \in Nat, Broken(buf, 1, cells), wire = Compressed(buf)
      PROVE  Outcome(node, result)
  <2>1. result = DecodeNode(buf, 1)
    BY <1>8, CompressedDecoded
  <2>2. result = Error
    BY <1>3, <1>8, <2>1
  <2> QED BY <1>8, <2>2 DEF Outcome
<1> QED BY <1>4, <1>5, <1>6, <1>7, <1>8 DEF InTransit

\* What the sender and the server put on the wire.
LEMMA SentCells ==
  ASSUME NEW n \in Nodes, \A m \in Within[n] : m.tag # << >>
  PROVE  EncodeNode[n] \in CellsOf(n) /\ AsBytes(<<0>>) \o EncodeNode[n] = Cell(0) \o EncodeNode[n]
<1>1. EncodeNode[n] \in CellsOf(n)
  BY SMTT(30) DEF CellsOf
<1>2. AsBytes(<<0>>) = Cell(0)
  <2>1. 0 \in 0 .. 255
    OBVIOUS
  <2> QED BY <2>1, OneByte
<1> QED BY <1>1, <1>2

\* What ServerSendsFb puts on the wire.
LEMMA FbSentCells ==
  ASSUME NEW j \in FbJids
  PROVE  /\ FbCells(j) \in CellsOf(FbNode(j))
         /\ AsBytes(<<0>>) \o WriteListStart(3) \o WriteString[<<"message">>]
              \o WriteString[<<"from">>] \o AsBytes(<<TAGS.FB_JID>>) \o WriteString[j.user]
              \o AsBytes(<<ByteAt(j.device, 256), ByteAt(j.device, 1)>>) \o WriteString[j.server]
              = Cell(0) \o FbCells(j)
<1> DEFINE z == AsBytes(<<0>>) a == WriteListStart(3) b == WriteString[<<"message">>]
           d == WriteString[<<"from">>] e == AsBytes(<<TAGS.FB_JID>>) f == WriteString[j.user]
           g == AsBytes(<<ByteAt(j.device, 256), ByteAt(j.device, 1)>>) h == WriteString[j.server]
<1>1. FbCells(j) \in CellsOf(FbNode(j))
  BY SMTT(30) DEF CellsOf
<1>2. z = Cell(0) /\ z \in Seq(Cells)
  <2>1. 0 \in 0 .. 255
    OBVIOUS
  <2> QED BY <2>1, OneByte, ByteCell
<1>3. e = Cell(245) /\ e \in Seq(Cells)
  <2> DEFINE t == 245
  <2>1. t \in 0 .. 255 /\ t = TAGS.FB_JID
    BY DEF TAGS
  <2> HIDE DEF t
  <2>2. AsBytes(<<t>>) = Cell(t) /\ Cell(t) \in Seq(Cells)
    BY Zenon, <2>1, OneByte, ByteCell
  <2>3. e = AsBytes(<<t>>)
    BY <2>1
  <2> QED BY <2>2, <2>3 DEF t
<1>4. g = Cell(ByteAt(j.device, 256)) \o Cell(ByteAt(j.device, 1)) /\ g \in Seq(Cells)
  <2> DEFINE k == ByteAt(j.device, 256) l == ByteAt(j.device, 1)
  <2>1. k \in 0 .. 255 /\ l \in 0 .. 255
    BY FbParts
  <2> HIDE DEF k, l
  <2>2. AsBytes(<<k, l>>) = Cell(k) \o Cell(l)
    BY Zenon, <2>1, TwoBytes
  <2>3. Cell(k) \in Seq(Cells) /\ Cell(l) \in Seq(Cells)
    BY Zenon, <2>1, ByteCell
  <2>4. Cell(k) \o Cell(l) \in Seq(Cells)
    BY <2>3, TwoJoined
  <2> QED BY Zenon, <2>2, <2>4 DEF k, l
<1>5. b \in Seq(Cells) /\ d \in Seq(Cells) /\ f \in Seq(Cells) /\ h \in Seq(Cells)
  BY FbParts, WriteStringUnfolds
<1>6. a \in Seq(Cells)
  <2> DEFINE N == 3
  <2>1. N \in Nat /\ N <= MaxListSize
    BY DEF MaxListSize
  <2> HIDE DEF N
  <2>2. PICK tag \in 0 .. 255, start \in Seq(Cells) : ListStart(N, tag, start)
    BY Zenon, <2>1, ListStartReads
  <2>3. WriteListStart(N) \in Seq(Cells)
    BY Zenon, <2>2, ByteThen DEF ListStart
  <2> QED BY <2>3 DEF N
<1>7. FbCells(j) = a \o (b \o (d \o (e \o (f \o (g \o h)))))
  BY Zenon, <1>3, <1>4 DEF FbCells, FbAttr
<1> HIDE DEF z, a, b, d, e, f, g, h
<1> DEFINE z1 == z \o a z2 == z1 \o b z3 == z2 \o d z4 == z3 \o e z5 == z4 \o f
           r1 == g \o h r2 == f \o r1 r3 == e \o r2 r4 == d \o r3 r5 == b \o r4
<1>8. z1 \in Seq(Cells)
  BY <1>2, <1>6, TwoJoined
<1>9. z2 \in Seq(Cells)
  <2> HIDE DEF z1
  <2> QED BY <1>5, <1>8, TwoJoined
<1>10. z3 \in Seq(Cells)
  <2> HIDE DEF z2
  <2> QED BY <1>5, <1>9, TwoJoined
<1>11. z4 \in Seq(Cells)
  <2> HIDE DEF z3
  <2> QED BY <1>3, <1>10, TwoJoined
<1>12. z5 \in Seq(Cells)
  <2> HIDE DEF z4
  <2> QED BY <1>5, <1>11, TwoJoined
<1>13. r1 \in Seq(Cells)
  BY <1>4, <1>5, TwoJoined
<1>14. r2 \in Seq(Cells)
  <2> HIDE DEF r1
  <2> QED BY <1>5, <1>13, TwoJoined
<1>15. r3 \in Seq(Cells)
  <2> HIDE DEF r2
  <2> QED BY <1>3, <1>14, TwoJoined
<1>16. r4 \in Seq(Cells)
  <2> HIDE DEF r3
  <2> QED BY <1>5, <1>15, TwoJoined
<1>17. r5 \in Seq(Cells)
  <2> HIDE DEF r4
  <2> QED BY <1>5, <1>16, TwoJoined
<1>18. (z5 \o g) \o h = z5 \o r1
  <2> HIDE DEF z5
  <2>1. g \in Seq(Cells) /\ h \in Seq(Cells) /\ z5 \in Seq(Cells)
    BY <1>4, <1>5, <1>12
  <2> QED BY Zenon, <2>1, ThreeJoined
<1>19. z5 \o r1 = z4 \o r2
  <2> HIDE DEF z4, r1
  <2> QED BY SMTT(30), <1>5, <1>11, <1>13, ThreeJoined
<1>20. z4 \o r2 = z3 \o r3
  <2> HIDE DEF z3, r2
  <2> QED BY SMTT(30), <1>3, <1>10, <1>14, ThreeJoined
<1>21. z3 \o r3 = z2 \o r4
  <2> HIDE DEF z2, r3
  <2> QED BY ZenonT(60), <1>5, <1>9, <1>15, ThreeJoined
<1>22. z2 \o r4 = z1 \o r5
  <2> HIDE DEF z1, r4
  <2> QED BY SMTT(30), <1>5, <1>8, <1>16, ThreeJoined
<1>23. z1 \o r5 = z \o (a \o r5)
  <2> HIDE DEF r5
  <2> QED BY Zenon, <1>2, <1>6, <1>17, ThreeJoined
<1>24. (z5 \o g) \o h = z \o FbCells(j)
  <2>1. FbCells(j) = a \o r5
    BY <1>7
  <2> HIDE DEF z1, z2, z3, z4, r1, r2, r3, r4, r5, z5
  <2> QED BY <1>18, <1>19, <1>20, <1>21, <1>22, <1>23, <2>1
<1> QED BY Zenon, <1>1, <1>2, <1>24 DEF z, a, b, d, e, f, g, h

\* At first nothing is sent.
LEMMA CodecInvInit ==
  CodecInit => CodecInv
BY DEF CodecInit, CodecInv

\* What a node has on the wire when it has been sent.
LEMMA SentFrame ==
  ASSUME NEW n, NEW cells \in CellsOf(n), CodecInv, node = NoNode, node' = n, wire' = Cell(0) \o cells, whole' = whole
  PROVE  CodecInv'
<1>1. cells \in Seq(Cells) /\ Len(cells) \in Nat \ {0} /\ n # NoNode
  BY WrittenReads
<1>2. whole = TRUE
  <2>1. CellsOf(NoNode) = {}
    <3>1. ASSUME NEW x \in CellsOf(NoNode) PROVE FALSE
      BY WrittenReads
    <3> QED BY <3>1
  <2> QED BY <2>1 DEF CodecInv
<1>3. wire' # Nothing
  <2> DEFINE frame == Cell(0) \o cells
  <2>1. Len(frame) = Len(cells) + 1
    BY <1>1, FrameCells
  <2>2. frame # << >>
    <3> HIDE DEF frame
    <3> QED BY <1>1, <2>1
  <2> QED BY <2>2 DEF Nothing
<1>4. InTransit(cells)'
  BY <1>2 DEF InTransit
<1>5. cells \in CellsOf(node')
  OBVIOUS
<1>6. whole' \in BOOLEAN /\ (\E x \in CellsOf(node') : wire' # Nothing /\ InTransit(x)')
  BY <1>2, <1>3, <1>4, <1>5
<1> QED BY <1>6 DEF CodecInv

\* A compressed frame is still that of its node.
LEMMA CompressedFrame ==
  ASSUME NEW cells \in CellsOf(node), wire # Nothing, InTransit(cells), whole \in BOOLEAN, Compress
  PROVE  CodecInv'
<1>1. cells \in Seq(Cells) /\ Len(cells) \in Nat \ {0}
  BY WrittenReads
<1>2. wire[1] = [byte |-> 0] /\ wire' = Compressed(Tail(wire)) /\ whole' = whole /\ node' = node
  <2>1. AsBytes(<<2>>) = Cell(2)
    <3>1. 2 \in 0 .. 255
      OBVIOUS
    <3> QED BY <3>1, OneByte
  <2> DEFINE t == Tail(wire)
  <2>2. wire[1] = [byte |-> 0] /\ wire' = Cell(2) \o <<[deflated |-> t]>> /\ whole' = whole /\ node' = node
    BY <2>1 DEF Compress
  <2> HIDE DEF t
  <2>3. Cell(2) \o <<[deflated |-> t]>> = Compressed(t)
    <3> DEFINE x == [byte |-> 2] y == [deflated |-> t] S == {x, y}
    <3>1. x \in S /\ y \in S
      OBVIOUS
    <3> HIDE DEF x, y, S
    <3>2. <<x, y>> = <<x>> \o <<y>>
      BY ZenonT(60), <3>1, Tuples
    <3> QED BY Zenon, <3>2 DEF Cell, Compressed, x, y
  <2> QED BY Zenon, <2>2, <2>3 DEF t
<1>3. \A buf : Compressed(buf)[1] = [byte |-> 2] /\ [byte |-> 2] # [byte |-> 0] /\ Compressed(buf) # Nothing
  BY DEF Compressed, Nothing
<1>4. Cell(2)[1] = [byte |-> 2]
  BY DEF Cell
<1>5. InTransit(cells)'
  <2>1. CASE whole /\ wire = Cell(0) \o cells
    <3>1. Tail(wire) = cells
      BY Zenon, <1>1, <2>1, FrameCells
    <3> QED BY Zenon, <1>2, <2>1, <3>1 DEF InTransit
  <2>2. CASE whole /\ wire = Compressed(cells)
    BY <1>2, <1>3, <2>2
  <2>3. CASE ~whole /\ wire \in Seq(Pieces) /\ wire[1] = [byte |-> 0] /\ Broken(wire, 2, cells)
    <3>1. Len(Tail(wire)) \in Nat /\ Broken(Tail(wire), 1, cells)
      BY <1>1, <2>3, TailBroken
    <3>2. \E buf : Len(buf) \in Nat /\ Broken(buf, 1, cells) /\ wire' = Compressed(buf)
      BY <1>2, <3>1
    <3> QED BY <1>2, <2>3, <3>2 DEF InTransit
  <2>4. CASE ~whole /\ wire = Cell(2)
    BY <1>2, <1>3, <1>4, <2>4
  <2>5. CASE ~whole /\ \E buf : Len(buf) \in Nat /\ Broken(buf, 1, cells) /\ wire = Compressed(buf)
    BY <1>2, <1>3, <2>5
  <2> QED BY <2>1, <2>2, <2>3, <2>4, <2>5 DEF InTransit
<1>6. whole' \in BOOLEAN /\ (\E x \in CellsOf(node') : wire' # Nothing /\ InTransit(x)')
  BY <1>2, <1>3, <1>5
<1> QED BY <1>6 DEF CodecInv

\* What is left of a frame is broken cells.
LEMMA CutFrame ==
  ASSUME NEW cells \in CellsOf(node), wire # Nothing, InTransit(cells), whole \in BOOLEAN, Cut
  PROVE  CodecInv'
<1>1. cells \in Seq(Cells) /\ Len(cells) \in Nat \ {0}
  BY WrittenReads
<1>2. /\ whole /\ ~whole' /\ whole' = FALSE /\ node' = node
      /\ \/ \E n \in 1 .. Len(wire) - 1 : wire' = SubSeq(wire, 1, n)
         \/ "len" \in DOMAIN Last(wire) /\ wire' = Append(Front(wire), [Last(wire) EXCEPT !.len = @ - 1])
  BY DEF Cut
<1>3. CASE wire = Cell(0) \o cells
  <2>1. wire' \in Seq(Pieces) /\ wire'[1] = [byte |-> 0] /\ Broken(wire', 2, cells)
    <3>1. ASSUME NEW n \in 1 .. Len(wire) - 1, wire' = SubSeq(wire, 1, n)
          PROVE  wire' \in Seq(Pieces) /\ wire'[1] = [byte |-> 0] /\ Broken(wire', 2, cells)
      BY Zenon, <1>1, <1>3, <3>1, FrameCut
    <3>2. ASSUME "len" \in DOMAIN Last(wire), wire' = Append(Front(wire), [Last(wire) EXCEPT !.len = @ - 1])
          PROVE  wire' \in Seq(Pieces) /\ wire'[1] = [byte |-> 0] /\ Broken(wire', 2, cells)
      BY Zenon, <1>1, <1>3, <3>2, FrameClipped
    <3> QED BY <1>2, <3>1, <3>2
  <2>2. InTransit(cells)'
    BY <1>2, <2>1 DEF InTransit
  <2>3. wire' # Nothing
    <3>1. Len(wire') # 0
      BY <2>1 DEF Broken
    <3> QED BY <3>1 DEF Nothing
  <2>4. whole' \in BOOLEAN /\ (\E x \in CellsOf(node') : wire' # Nothing /\ InTransit(x)')
    BY Zenon, <1>2, <2>2, <2>3
  <2> QED BY <2>4 DEF CodecInv
<1>4. CASE wire = Compressed(cells)
  <2>1. Len(wire) = 2 /\ Last(wire) = [deflated |-> cells] /\ wire[1] = [byte |-> 2]
    BY <1>4 DEF Compressed, Last
  <2>2. "len" \notin DOMAIN Last(wire)
    BY <2>1
  <2>3. PICK n \in 1 .. Len(wire) - 1 : wire' = SubSeq(wire, 1, n)
    BY <1>2, <2>2
  <2>4. n = 1
    BY <2>1
  <2>5. wire' = Cell(2)
    <3>1. SubSeq(wire, 1, 1) = <<wire[1]>>
      <4> DEFINE x == [byte |-> 2] y == [deflated |-> cells] S == {x, y} w == <<x, y>>
      <4>1. wire = w
        BY <1>4 DEF Compressed
      <4>2. w \in Seq(S) /\ Len(w) = 2
        OBVIOUS
      <4> HIDE DEF x, y, S, w
      <4> DEFINE p == SubSeq(w, 1, 1)
      <4>3. p \in Seq(S) /\ Len(p) = 1 /\ p[1] = w[1]
        <5> DEFINE m == 1
        <5>1. m \in 1 .. Len(w) + 1 /\ m \in m - 1 .. Len(w)
          BY <4>2
        <5> HIDE DEF m, p
        <5>2. /\ SubSeq(w, m, m) \in Seq(S) /\ Len(SubSeq(w, m, m)) = m - m + 1
              /\ \A i \in 1 .. m - m + 1 : SubSeq(w, m, m)[i] = w[m + i - 1]
          BY <4>2, <5>1, Part
        <5> QED BY <5>2 DEF m, p
      <4> HIDE DEF p
      <4>4. p = <<w[1]>>
        BY <4>3
      <4> QED BY <4>1, <4>4 DEF p
    <3> QED BY <2>1, <2>3, <2>4, <3>1 DEF Cell
  <2>6. InTransit(cells)'
    BY <1>2, <2>5 DEF InTransit
  <2>7. wire' # Nothing
    BY <2>5 DEF Nothing, Cell
  <2>8. whole' \in BOOLEAN /\ (\E x \in CellsOf(node') : wire' # Nothing /\ InTransit(x)')
    BY Zenon, <1>2, <2>6, <2>7
  <2> QED BY <2>8 DEF CodecInv
<1> QED BY <1>2, <1>3, <1>4 DEF InTransit

\* What the receiver makes of a frame is its outcome.
LEMMA DeliveredFrame ==
  ASSUME NEW cells \in CellsOf(node), wire # Nothing, InTransit(cells), whole \in BOOLEAN, Deliver
  PROVE  CodecInv'
<1>1. Outcome(node, DecodeFramed(wire))
  BY TransitDecoded
<1>2. received' = DecodeFramed(wire) /\ wire' = Nothing /\ node' = node /\ whole' = whole
  BY DEF Deliver
<1>3. Outcome(node, received)'
  BY <1>1, <1>2 DEF Outcome
<1>4. CellsOf(node') # {}
  BY <1>2
<1>5. whole' \in BOOLEAN
  BY <1>2
<1> QED BY <1>2, <1>3, <1>4, <1>5 DEF CodecInv

\* The invariant, action by action.
LEMMA CodecInvNext ==
  CodecInv /\ [CodecNext]_codecVars => CodecInv'
<1> SUFFICES ASSUME CodecInv, [CodecNext]_codecVars
             PROVE  CodecInv'
  OBVIOUS
<1>0. /\ whole \in BOOLEAN
      /\ wire # Nothing => \E cells \in CellsOf(node) : InTransit(cells)
  BY DEF CodecInv
<1>1. ASSUME NEW n \in Nodes, Send(n) PROVE CodecInv'
  <2>1. EncodeNode[n] \in CellsOf(n) /\ wire' = Cell(0) \o EncodeNode[n]
    BY Zenon, <1>1, SentCells DEF Send
  <2>2. node = NoNode /\ node' = n /\ whole' = whole
    BY <1>1 DEF Send
  <2> QED BY Zenon, <2>1, <2>2, SentFrame
<1>2. ASSUME NEW j \in FbJids, ServerSendsFb(j) PROVE CodecInv'
  <2>1. FbCells(j) \in CellsOf(FbNode(j)) /\ wire' = Cell(0) \o FbCells(j)
    BY Zenon, <1>2, FbSentCells DEF ServerSendsFb
  <2>2. node = NoNode /\ node' = FbNode(j) /\ whole' = whole
    BY <1>2 DEF ServerSendsFb, FbNode
  <2> QED BY <2>1, <2>2, SentFrame
<1>3. CASE Compress
  BY <1>0, <1>3, CompressedFrame DEF Compress
<1>4. CASE Cut
  BY Zenon, <1>0, <1>4, CutFrame DEF Cut
<1>5. CASE Deliver
  BY <1>0, <1>5, DeliveredFrame DEF Deliver
<1>6. CASE UNCHANGED codecVars
  BY <1>6 DEF codecVars, CodecInv, InTransit, Outcome
<1> QED BY <1>1, <1>2, <1>3, <1>4, <1>5, <1>6 DEF CodecNext

\* For any nodes, tokens and strings: a frame that arrives whole, compressed or not, is decoded
\* by decodeFramedBinaryNode() to the node that encodeBinaryNode() was given, if its strings
\* mean the same to both sides.
THEOREM CodecRoundTrip ==
  CodecSpec => []RoundTrip
<1>1. CodecInv => RoundTrip
  BY DEF CodecInv, RoundTrip, Delivered, Outcome, Arrives
<1> QED BY <1>1, CodecInvInit, CodecInvNext, PTL DEF CodecSpec

\* decoder.ts:16: for any nodes, tokens and strings, portable or not, a frame that has lost its
\* end is refused by decodeFramedBinaryNode(): no reader takes less for something else.
THEOREM CodecTruncationRefused ==
  CodecSpec => []TruncationRefused
<1>1. CodecInv => TruncationRefused
  BY DEF CodecInv, TruncationRefused, Delivered, Outcome
<1> QED BY <1>1, CodecInvInit, CodecInvNext, PTL DEF CodecSpec

=============================================================================
