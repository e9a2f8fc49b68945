---------------------------- MODULE NoiseTransport ----------------------------
(***************************************************************************)
(* The Noise tunnel of one connection (src/src/core/noise-handler.ts, with *)
(* handleHandshakeFrame() of src/src/socket/engine.ts): the XX handshake,  *)
(* the framing of a byte stream that arrives in arbitrary pieces, and the  *)
(* counters that make the IVs.                                             *)
(*                                                                         *)
(* Cryptography is symbolic: a key is the list of the Diffie-Hellman       *)
(* results mixed into it, the transcript hash the list of what was mixed   *)
(* into it, and a ciphertext opens under the key, IV and hash it was made  *)
(* with.  WebSocket and TCP lose and reorder nothing.  A byte names its    *)
(* frame and its place there; the frames of the client reach the server's  *)
(* parser, which is not this code, whole.                                  *)
(*                                                                         *)
(* An operator whose name ends in Mistake is a variant of the definition   *)
(* after it with a planted error; no specification uses it.                *)
(***************************************************************************)
EXTENDS Integers, Sequences, Functions

CONSTANTS
    CounterBits,  \* the width of the counter in the IV: 32 in the code
    MaxLen,       \* bound: payload bytes of a frame
    MaxToClient,  \* bound: frames that the server sends
    MaxToServer   \* bound: nodes that the client sends before the keys, and after

ASSUME BoundsAssumption == {CounterBits, MaxLen, MaxToClient, MaxToServer} \subseteq Nat

HeaderLen == 3

VARIABLES
    handshake,    \* the client's Noise state: transcript hash, salt, counter
    transport,    \* whether the transport keys are there
    sendCounter, recvCounter, introSent,
    inBuffer,     \* bytes received and not consumed
    looping,      \* processFrameBuffer() is in its loop
    stream,       \* bytes on their way to the client
    toServer,     \* frames on their way to the server
    sent,         \* history: the frames the server has sent, in order
    taken,        \* history: frames that have left the client's buffer
    delivered,    \* history: the frames given to onFrame() as nodes
    ciphers,      \* history: key and IV of every encryption of either side
    early,        \* history: nodes that the client has sent without a key
    serverSide,   \* the server's handshake, phase and counters
    rejected      \* the client could not make sense of a frame

client  == <<handshake, transport, sendCounter, recvCounter, introSent, inBuffer, looping>>
history == <<taken, delivered>>
vars == <<client, stream, toServer, sent, history, ciphers, early, serverSide, rejected>>

-----------------------------------------------------------------------------
(* Symbolic Noise, the same for both sides.                                 *)

Fresh == [hash |-> << >>, salt |-> << >>, counter |-> 0]

MixHash(s, data) == [s EXCEPT !.hash = Append(@, data)]

\* The counter goes on under the new key.
MixDHMistake(s, secret) == [s EXCEPT !.salt = Append(@, secret)]

\* mixDH(): the counter starts again with the new key.
MixDH(s, secret) == [s EXCEPT !.salt = Append(@, secret), !.counter = 0]

Cipher(s, text) == [key |-> s.salt, iv |-> s.counter, hash |-> s.hash, text |-> text]

\* The state after encryptHandshake() or decryptHandshake() of c.
After(s, c) == MixHash([s EXCEPT !.counter = @ + 1], c)

Opens(s, c) == <<c.key, c.iv, c.hash>> = <<s.salt, s.counter, s.hash>>

\* Both sides have mixed in the header and the client's ephemeral key.
Greeted == MixHash(MixHash(Fresh, "header"), "clientEphemeral")

KeyAndIV(c) == <<c.key, c.iv>>

\* finalizeHandshake(): a key for each direction.
SendKey(s) == Append(s.salt, "send")
RecvKey(s) == Append(s.salt, "recv")

\* TransportState.writeCounter(): the low bits of the counter.
IV(counter) == counter % 2 ^ CounterBits

-----------------------------------------------------------------------------
Init ==
    /\ handshake = Greeted
    /\ transport = FALSE
    /\ sendCounter = 0
    /\ recvCounter = 0
    /\ introSent = FALSE
    /\ inBuffer = << >>
    /\ looping = FALSE
    /\ stream = << >>
    /\ toServer = << >>
    /\ sent = << >>
    /\ taken = 0
    /\ delivered = {}
    /\ ciphers = << >>
    /\ early = 0
    /\ serverSide = [phase |-> "start", handshake |-> Greeted,
                     sendCounter |-> 0, recvCounter |-> 0]
    /\ rejected = FALSE

\* The counter of a direction moves on after the first frame only.
EncodeFrameMistake(data) ==
    /\ toServer' = Append(toServer,
                          [intro  |-> ~introSent,
                           key    |-> IF transport THEN SendKey(handshake) ELSE << >>,
                           iv     |-> IF transport THEN IV(sendCounter) ELSE 0,
                           data   |-> data])
    /\ introSent' = TRUE
    /\ sendCounter' = IF transport THEN 1 ELSE sendCounter

\* encodeFrame(): the first frame of all carries the intro header, and a frame is
\* encrypted once there are keys for it.
EncodeFrame(data) ==
    /\ toServer' = Append(toServer,
                          [intro  |-> ~introSent,
                           key    |-> IF transport THEN SendKey(handshake) ELSE << >>,
                           iv     |-> IF transport THEN IV(sendCounter) ELSE 0,
                           data   |-> data])
    /\ introSent' = TRUE
    /\ sendCounter' = IF transport THEN sendCounter + 1 ELSE sendCounter

\* A node of the application, which is no ciphertext of the handshake.
AppNode == [key |-> << >>, iv |-> 0, hash |-> << >>, text |-> "node"]

\* The socket opens: the engine sends its ephemeral key.
ClientHello ==
    /\ ~introSent
    /\ EncodeFrame("clientEphemeral")
    /\ UNCHANGED <<handshake, transport, recvCounter, inBuffer, looping,
                   stream, sent, history, ciphers, early, serverSide, rejected>>

\* sendNode(), by the application or by a handler in the frame loop: it asks for an open
\* socket, not for keys.
ClientSends ==
    /\ introSent
    /\ EncodeFrame(AppNode)
    /\ IF transport
       THEN /\ sendCounter < MaxToServer
            /\ ciphers' = Append(ciphers, <<SendKey(handshake), IV(sendCounter)>>)
            /\ UNCHANGED early
       ELSE /\ early < MaxToServer
            /\ early' = early + 1
            /\ UNCHANGED ciphers
    /\ UNCHANGED <<handshake, transport, recvCounter, inBuffer, looping,
                   stream, sent, history, serverSide, rejected>>

-----------------------------------------------------------------------------
(* The frame loop.                                                          *)

\* A WebSocket message brings the next n bytes: decodeFrame().
Arrive(n) ==
    /\ ~looping
    /\ inBuffer' = inBuffer \o SubSeq(stream, 1, n)
    /\ stream' = SubSeq(stream, n + 1, Len(stream))
    /\ looping' = TRUE
    /\ UNCHANGED <<handshake, transport, sendCounter, recvCounter, introSent,
                   toServer, sent, history, ciphers, early, serverSide, rejected>>

\* The length prefix and all that it announces are in the buffer.
HasFrame ==
    Len(inBuffer) >= HeaderLen /\ Len(inBuffer) >= sent[inBuffer[1].frame].len + HeaderLen

Bytes(n) == [i \in 1 .. HeaderLen + sent[n].len |-> [frame |-> n, byte |-> i]]

\* The frame at the head of the buffer, if its bytes are those of one.
HeadLen == sent[inBuffer[1].frame].len + HeaderLen
Intact  == SubSeq(inBuffer, 1, HeadLen) = Bytes(inBuffer[1].frame)
HeadFrame   == sent[inBuffer[1].frame]

\* The client's key is encrypted under the counter's first value.
ServerHelloMistake(s, f) ==
    LET s1 == MixDH(MixHash(s, "serverEphemeral"), "ee")
        s2 == MixDH(After(s1, f.static), "es")
        s3 == [After(s2, f.payload) EXCEPT !.counter = 0]
        c  == Cipher(s3, "noiseKey")
    IN  [ok |-> Opens(s1, f.static) /\ Opens(s2, f.payload), finish |-> c,
         handshake |-> MixDH(After(s3, c), "se")]

\* processServerHello()
ProcessServerHello(s, f) ==
    LET s1 == MixDH(MixHash(s, "serverEphemeral"), "ee")
        s2 == MixDH(After(s1, f.static), "es")
        s3 == After(s2, f.payload)
        c  == Cipher(s3, "noiseKey")
    IN  [ok |-> Opens(s1, f.static) /\ Opens(s2, f.payload), finish |-> c,
         handshake |-> MixDH(After(s3, c), "se")]

\* handleHandshakeFrame(): the client's key goes out, then the transport keys are
\* derived, in one turn.  A hello that cannot be opened ends the connection.
HandshakeFrame ==
    /\ looping /\ HasFrame /\ ~transport
    /\ LET r == ProcessServerHello(handshake, HeadFrame)
       IN  IF Intact /\ HeadFrame.kind = "hello" /\ r.ok
           THEN /\ handshake' = r.handshake
                /\ transport' = TRUE
                /\ EncodeFrame(r.finish)
                /\ ciphers' = Append(ciphers, KeyAndIV(r.finish))
                /\ UNCHANGED rejected
           ELSE /\ rejected' = TRUE
                /\ UNCHANGED <<handshake, transport, introSent, sendCounter, toServer, ciphers>>
    /\ inBuffer' = SubSeq(inBuffer, HeadLen + 1, Len(inBuffer))
    /\ taken' = taken + 1
    /\ UNCHANGED <<recvCounter, looping, stream, sent, delivered, early, serverSide>>

\* A node that does not decode ends the loop.
TransportFrameMistake ==
    /\ looping /\ HasFrame /\ transport
    /\ recvCounter' = recvCounter + 1
    /\ IF Intact /\ <<HeadFrame.key, HeadFrame.iv>> = <<RecvKey(handshake), IV(recvCounter)>>
       THEN /\ delivered' = IF HeadFrame.kind = "malformed" THEN delivered
                            ELSE delivered \cup {inBuffer[1].frame}
            /\ looping' = (HeadFrame.kind # "malformed")
            /\ UNCHANGED rejected
       ELSE /\ rejected' = TRUE
            /\ looping' = FALSE
            /\ UNCHANGED delivered
    /\ inBuffer' = SubSeq(inBuffer, HeadLen + 1, Len(inBuffer))
    /\ taken' = taken + 1
    /\ UNCHANGED <<handshake, transport, sendCounter, introSent,
                   stream, toServer, sent, ciphers, early, serverSide>>

\* A frame of the transport: the counter moves on before decrypt() may throw out of
\* the loop; a node that does not decode is logged and left out.
TransportFrame ==
    /\ looping /\ HasFrame /\ transport
    /\ recvCounter' = recvCounter + 1
    /\ IF Intact /\ <<HeadFrame.key, HeadFrame.iv>> = <<RecvKey(handshake), IV(recvCounter)>>
       THEN /\ delivered' = IF HeadFrame.kind = "malformed" THEN delivered
                            ELSE delivered \cup {inBuffer[1].frame}
            /\ UNCHANGED <<looping, rejected>>
       ELSE /\ rejected' = TRUE
            /\ looping' = FALSE
            /\ UNCHANGED delivered
    /\ inBuffer' = SubSeq(inBuffer, HeadLen + 1, Len(inBuffer))
    /\ taken' = taken + 1
    /\ UNCHANGED <<handshake, transport, sendCounter, introSent,
                   stream, toServer, sent, ciphers, early, serverSide>>

\* What is left in the buffer is not a frame yet.
LoopEnds ==
    /\ looping /\ ~HasFrame
    /\ looping' = FALSE
    /\ UNCHANGED <<handshake, transport, sendCounter, recvCounter, introSent, inBuffer,
                   stream, toServer, sent, history, ciphers, early, serverSide, rejected>>

-----------------------------------------------------------------------------
(* The server, which mirrors the client, and ends the connection when it    *)
(* cannot make sense of a frame.                                            *)

Put(frame) ==
    /\ sent' = Append(sent, frame)
    /\ stream' = stream \o [i \in 1 .. HeaderLen + frame.len |->
                               [frame |-> Len(sent) + 1, byte |-> i]]

ServerHello ==
    /\ serverSide.phase = "start"
    /\ toServer # << >>
    /\ LET f  == Head(toServer)
           s1 == MixDH(MixHash(serverSide.handshake, "serverEphemeral"), "ee")
           c1 == Cipher(s1, "serverStatic")
           s2 == MixDH(After(s1, c1), "es")
           c2 == Cipher(s2, "certificate")
       IN  IF f.intro /\ f.key = << >> /\ f.data = "clientEphemeral"
           THEN /\ Put([kind |-> "hello", len |-> MaxLen, static |-> c1, payload |-> c2])
                /\ ciphers' = ciphers \o <<KeyAndIV(c1), KeyAndIV(c2)>>
                /\ serverSide' = [serverSide EXCEPT !.phase = "greeted",
                                                    !.handshake = After(s2, c2)]
           ELSE /\ serverSide' = [serverSide EXCEPT !.phase = "refused"]
                /\ UNCHANGED <<sent, stream, ciphers>>
    /\ toServer' = Tail(toServer)
    /\ UNCHANGED <<client, history, early, rejected>>

ServerFinish ==
    /\ serverSide.phase = "greeted"
    /\ toServer # << >>
    /\ LET f == Head(toServer)
       IN  serverSide' =
               IF ~f.intro /\ f.key = << >> /\ Opens(serverSide.handshake, f.data)
               THEN [serverSide EXCEPT !.phase = "transport",
                                       !.handshake = MixDH(After(@, f.data), "se")]
               ELSE [serverSide EXCEPT !.phase = "refused"]
    /\ toServer' = Tail(toServer)
    /\ UNCHANGED <<client, stream, sent, history, ciphers, early, rejected>>

ServerReceives ==
    /\ serverSide.phase = "transport"
    /\ toServer # << >>
    /\ serverSide' =
           IF Head(toServer) = [intro |-> FALSE, key |-> SendKey(serverSide.handshake),
                                iv |-> IV(serverSide.recvCounter), data |-> AppNode]
           THEN [serverSide EXCEPT !.recvCounter = @ + 1]
           ELSE [serverSide EXCEPT !.phase = "refused"]
    /\ toServer' = Tail(toServer)
    /\ UNCHANGED <<client, stream, sent, history, ciphers, early, rejected>>

ServerSends(kind, len) ==
    /\ serverSide.phase = "transport"
    /\ Len(sent) < MaxToClient
    /\ LET key == RecvKey(serverSide.handshake)
           iv  == IV(serverSide.sendCounter)
       IN  /\ Put([kind |-> kind, len |-> len, key |-> key, iv |-> iv])
           /\ ciphers' = Append(ciphers, <<key, iv>>)
    /\ serverSide' = [serverSide EXCEPT !.sendCounter = @ + 1]
    /\ UNCHANGED <<client, toServer, history, early, rejected>>

-----------------------------------------------------------------------------
Receive ==
    \/ \E n \in 1 .. Len(stream) : Arrive(n)
    \/ HandshakeFrame \/ TransportFrame \/ LoopEnds

Next ==
    \/ ClientHello \/ ClientSends \/ Receive
    \/ ServerHello \/ ServerFinish \/ ServerReceives
    \/ \E kind \in {"node", "malformed"}, len \in 0 .. MaxLen : ServerSends(kind, len)

Spec == Init /\ [][Next]_vars

\* The network brings what was sent, and the loop runs to its end.
FairSpec == Spec /\ WF_vars(Receive)

-----------------------------------------------------------------------------
TypeOK ==
    /\ DOMAIN handshake = {"hash", "salt", "counter"} /\ handshake.counter = 0
    /\ transport \in BOOLEAN
    /\ {sendCounter, early, serverSide.recvCounter} \subseteq 0 .. MaxToServer
    /\ {recvCounter, serverSide.sendCounter} \subseteq 0 .. MaxToClient
    /\ introSent \in BOOLEAN
    /\ looping \in BOOLEAN
    /\ \A i \in DOMAIN inBuffer : inBuffer[i].frame \in DOMAIN sent
    /\ \A i \in DOMAIN stream : stream[i].frame \in DOMAIN sent
    /\ \A n \in DOMAIN sent : sent[n].kind \in {"hello", "node", "malformed"}
    /\ taken \in 0 .. Len(sent)
    /\ delivered \subseteq DOMAIN sent
    /\ serverSide.phase \in {"start", "greeted", "transport", "refused"}
    /\ rejected \in BOOLEAN

\* However the stream is cut up and the two directions interleave, the client never meets
\* a frame it cannot make sense of, and the server does only if the application has sent
\* a node before the keys were there, which goes out in the place of the client's finish:
\* intro header, transcript, keys and counters agree.
NothingRejected == ~rejected /\ (serverSide.phase = "refused" => early > 0)

\* noise-handler.ts:30: no two messages are encrypted under the same key and IV.
UniqueIVs == IsInjective(ciphers)

\* The framing implements the channel: frames are taken whole and in order, and
\* every frame sent is taken, no matter how few bytes come at a time.
Channel == INSTANCE FrameChannel WITH sent <- Len(sent), taken <- taken
ImplementsChannel == Channel!Spec

\* engine.ts:128: sendRaw() is to send "through the Noise-encrypted transport": no node
\* goes out in the clear.
NodesAreEncrypted == early = 0

\* decoder.ts:17-19: the caller of the decoder "catches these and triggers a
\* disconnect + reconnect": nothing is delivered after a node that does not decode.
MalformedEndsConnection ==
    \A n \in 1 .. taken : sent[n].kind = "malformed" => \A d \in delivered : d < n

===============================================================================
