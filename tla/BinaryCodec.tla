------------------------------ MODULE BinaryCodec ------------------------------
(***************************************************************************)
(* The binary form of nodes: encodeBinaryNode() and                        *)
(* decodeFramedBinaryNode() of src/src/binary, with the JIDs, between a    *)
(* sender and a receiver of frames.                                        *)
(*                                                                         *)
(* A string is a sequence of symbols: characters, and words that the code  *)
(* only compares as a whole (tokens, names of servers); half of a          *)
(* surrogate pair, for which UTF-8 has no bytes, is none.  A frame is a    *)
(* sequence of cells: a byte, or a block, which stands for the bytes of a  *)
(* buffer or of a string in UTF-8.  A reader that looks for a byte and     *)
(* meets a block is out of step: that counts as an error.                  *)
(*                                                                         *)
(* A node is what its type says: attributes are strings, content is a      *)
(* string, bytes, nodes or nothing.  That the writer leaves out attributes *)
(* without a value, and children that are no nodes, is left out.           *)
(*                                                                         *)
(* The recursion of the code is that of recursive functions: of a writer   *)
(* over strings and nodes, of a reader over the calls that are left (each  *)
(* call takes a byte) and over the items of a list.                        *)
(***************************************************************************)
EXTENDS Integers, Sequences, SequencesExt, FiniteSetsExt

CONSTANTS
    Nodes,               \* what the sender sends, with the nodes within
    Depth,               \* of each: what is within is less deep
    MaxDepth,            \* the call stack bounds it
    FbJids,              \* JIDs of another network, as [user, device, server]
    SINGLE_BYTE_TOKENS,  \* some of the tokens: indexes -> strings
    DOUBLE_BYTE_TOKENS,  \* the same for each dictionary
    InheritedNames,      \* what Object.prototype has: "constructor", "toString" ...
    ByteLength,          \* of each symbol in UTF-8
    MaxStringLength      \* of a JavaScript string

VARIABLES
    node,      \* history: what was sent last
    wire,      \* the frame under way, if any
    whole,     \* history: the frame has not been cut
    received   \* what the receiver made of it

codecVars == <<node, wire, whole, received>>

TAGS == [LIST_EMPTY |-> 0, DICTIONARY_0 |-> 236, FB_JID |-> 245, AD_JID |-> 247,
         LIST_8 |-> 248, LIST_16 |-> 249, JID_PAIR |-> 250, HEX_8 |-> 251,
         BINARY_8 |-> 252, BINARY_20 |-> 253, BINARY_32 |-> 254, NIBBLE_8 |-> 255,
         PACKED_MAX |-> 254]

Digits == <<"0", "1", "2", "3", "4", "5", "6", "7", "8", "9">>
NibbleChars == Digits \o <<"-", ".">>
HexChars == Digits \o <<"A", "B", "C", "D", "E", "F">>

Symbols == DOMAIN ByteLength
Strings == {s \in Seq(Symbols) : Len(s) <= MaxStringLength}

\* As in JavaScript, from 0.
IndexOf(s, c) == (CHOOSE i \in DOMAIN s : s[i] = c) - 1

-----------------------------------------------------------------------------
(* JIDs.                                                                    *)

LastIndexOf(s, c) == Max({0} \cup {i \in DOMAIN s : s[i] = c})

\* What s begins with, of some characters.
LeadingOf(s, chars) ==
    SubSeq(s, 1, Max({n \in 0 .. Len(s) : \A i \in 1 .. n : s[i] \in chars}))

Without(s, prefix) == SubSeq(s, Len(prefix) + 1, Len(s))

\* parseInt(s, 10): white space, a sign, and the digits up to the first other character.
\* The symbol " " is any white space.
ParseInt(s) ==
    LET trimmed == Without(s, LeadingOf(s, {" "}))
        sign == IF trimmed # << >> /\ trimmed[1] \in {"+", "-"} THEN <<trimmed[1]>> ELSE << >>
        digits == LeadingOf(Without(trimmed, sign), ToSet(Digits))
        value == FoldLeft(LAMBDA n, c : 10 * n + IndexOf(Digits, c), 0, digits)
    IN  [isNaN |-> digits = << >>, value |-> IF sign = <<"-">> THEN -value ELSE value]

NotAJid == [user |-> << >>, server |-> << >>]

JidDecode(s) ==
    LET at == LastIndexOf(s, "@")
        server == SubSeq(s, at + 1, Len(s))
        userPart == SubSeq(s, 1, at - 1)
        colon == LastIndexOf(userPart, ":")
        device == ParseInt(SubSeq(userPart, colon + 1, Len(userPart)))
    IN  IF at = 0 \/ server = << >> THEN NotAJid
        ELSE IF colon = 0 THEN [user |-> userPart, server |-> server]
        ELSE IF device.isNaN THEN NotAJid
        ELSE [user |-> SubSeq(userPart, 1, colon - 1), server |-> server, device |-> device.value]

\* Of a number of 16 bits.
Decimal(n) ==
    LET digits == [i \in 1 .. 5 |-> Digits[((n \div 10 ^ (5 - i)) % 10) + 1]]
    IN  SubSeq(digits, Min({5} \cup {i \in 1 .. 5 : digits[i] # "0"}), 5)

JidEncode(user, server, device) == user \o <<":">> \o Decimal(device) \o <<"@">> \o server

\* JID_DOMAIN_TYPE, and the servers in its order.
DomainServers == <<<<"s.whatsapp.net">>, <<"lid">>, <<"hosted">>, <<"hosted.lid">>>>

ServerToDomainType(server) ==
    IF server \in ToSet(Tail(DomainServers)) THEN IndexOf(DomainServers, server)
                                             ELSE 0

-----------------------------------------------------------------------------
(* The encoder.                                                             *)

\* Buffer.from() keeps the low eight bits of a number.
AsBytes(ns) == [i \in DOMAIN ns |-> [byte |-> ns[i] % 256]]

\* The byte of n at a power of 256.
ByteAt(n, power) == (n \div power) % 256

WriteListStart(size) ==
    CASE size = 0 -> AsBytes(<<TAGS.LIST_EMPTY>>)
      [] size \in 1 .. 255 -> AsBytes(<<TAGS.LIST_8, size>>)
      [] OTHER -> AsBytes(<<TAGS.LIST_16, ByteAt(size, 256), ByteAt(size, 1)>>)

\* A length of 256 goes into one byte.
WriteByteLengthMistake(n) ==
    IF n >= 1048576
    THEN AsBytes(<<TAGS.BINARY_32, ByteAt(n, 16777216), ByteAt(n, 65536), ByteAt(n, 256), ByteAt(n, 1)>>)
    ELSE IF n >= 257
    THEN AsBytes(<<TAGS.BINARY_20, ByteAt(n, 65536) % 16, ByteAt(n, 256), ByteAt(n, 1)>>)
    ELSE AsBytes(<<TAGS.BINARY_8, n>>)

WriteByteLength(n) ==
    IF n >= 1048576
    THEN AsBytes(<<TAGS.BINARY_32, ByteAt(n, 16777216), ByteAt(n, 65536), ByteAt(n, 256), ByteAt(n, 1)>>)
    ELSE IF n >= 256
    THEN AsBytes(<<TAGS.BINARY_20, ByteAt(n, 65536) % 16, ByteAt(n, 256), ByteAt(n, 1)>>)
    ELSE AsBytes(<<TAGS.BINARY_8, n>>)

WriteBytes(block) == WriteByteLength(block.len) \o IF block.len = 0 THEN << >> ELSE <<block>>

\* The bytes of one half and of the other.
Utf8Length[s \in Strings] ==
    LET half == Len(s) \div 2
    IN  IF s = << >> THEN 0
        ELSE IF Len(s) = 1 THEN ByteLength[s[1]]
        ELSE Utf8Length[SubSeq(s, 1, half)] + Utf8Length[SubSeq(s, half + 1, Len(s))]

AsBlock(s) == [len |-> Utf8Length[s], data |-> s]

WriteRawString(s) == WriteBytes(AsBlock(s))

\* TOKEN_MAP: the first entry of a string; an object has the inherited names too, with
\* neither dictionary nor index.
SingleByteIndexes(s) == {i \in DOMAIN SINGLE_BYTE_TOKENS : SINGLE_BYTE_TOKENS[i] = s}
Dictionaries(s) == {d \in DOMAIN DOUBLE_BYTE_TOKENS :
                        \E i \in DOMAIN DOUBLE_BYTE_TOKENS[d] : DOUBLE_BYTE_TOKENS[d][i] = s}
HasToken(s) == s \in InheritedNames \/ SingleByteIndexes(s) # {} \/ Dictionaries(s) # {}

WriteToken(s) ==
    CASE s \in InheritedNames -> AsBytes(<<0>>)
      [] s \notin InheritedNames /\ SingleByteIndexes(s) # {} -> AsBytes(<<Min(SingleByteIndexes(s))>>)
      [] OTHER ->
            LET d == Min(Dictionaries(s))
            IN  AsBytes(<<TAGS.DICTIONARY_0 + d,
                        Min({i \in DOMAIN DOUBLE_BYTE_TOKENS[d] : DOUBLE_BYTE_TOKENS[d][i] = s})>>)

CanPack(s, chars) == s # << >> /\ Len(s) <= TAGS.PACKED_MAX /\ ToSet(s) \subseteq ToSet(chars)

\* Two characters to a byte; the last of an odd number is padded with 15.
WritePackedBytes(s, tag, chars) ==
    LET Half(i) == IF i > Len(s) THEN 15 ELSE IndexOf(chars, s[i])
        rounded == (Len(s) + 1) \div 2
    IN  AsBytes(<<tag, rounded + 128 * (Len(s) % 2)>>
              \o [i \in 1 .. rounded |-> 16 * Half(2 * i - 1) + Half(2 * i)])

WriteString[s \in Strings] ==
    LET jid == JidDecode(s)
    IN  CASE s = << >> -> WriteRawString(s)
          [] s # << >> /\ HasToken(s) -> WriteToken(s)
          [] ~HasToken(s) /\ CanPack(s, NibbleChars) -> WritePackedBytes(s, TAGS.NIBBLE_8, NibbleChars)
          [] ~HasToken(s) /\ ~CanPack(s, NibbleChars) /\ CanPack(s, HexChars) ->
                WritePackedBytes(s, TAGS.HEX_8, HexChars)
          [] OTHER ->
                IF jid = NotAJid THEN WriteRawString(s)
                ELSE IF "device" \in DOMAIN jid
                THEN AsBytes(<<TAGS.AD_JID, ServerToDomainType(jid.server), jid.device>>)
                        \o WriteString[jid.user]
                ELSE AsBytes(<<TAGS.JID_PAIR>>)
                        \o (IF jid.user = << >> THEN AsBytes(<<TAGS.LIST_EMPTY>>)
                                                ELSE WriteString[jid.user])
                        \o WriteString[jid.server]

\* Content is one of [undefined |-> TRUE], [string |-> s], [bytes |-> block] and
\* [nodes |-> sequence of nodes]; attributes are pairs of strings with different keys.
NoContent == [undefined |-> TRUE]

Children(n) == IF "nodes" \in DOMAIN n.content THEN n.content.nodes ELSE << >>

\* One after the other.
Joined(pieces) ==
    LET upTo[i \in 0 .. Len(pieces)] == IF i = 0 THEN << >> ELSE upTo[i - 1] \o pieces[i]
    IN  upTo[Len(pieces)]

WriteAttrs(attrs) ==
    Joined([i \in DOMAIN attrs |-> WriteString[attrs[i][1]] \o WriteString[attrs[i][2]]])

EncodeNode[n \in Nodes] ==
    LET content == n.content
    IN  WriteListStart(2 * Len(n.attrs) + 1 + IF content = NoContent THEN 0 ELSE 1)
          \o WriteString[n.tag] \o WriteAttrs(n.attrs)
          \o IF content = NoContent THEN << >>
             ELSE IF "string" \in DOMAIN content THEN WriteString[content.string]
             ELSE IF "bytes" \in DOMAIN content THEN WriteBytes(content.bytes)
             ELSE WriteListStart(Len(content.nodes))
                    \o Joined([i \in DOMAIN content.nodes |-> EncodeNode[content.nodes[i]]])

\* The node and all those within.
Within[n \in Nodes] == {n} \cup UNION {Within[Children(n)[i]] : i \in DOMAIN Children(n)}

-----------------------------------------------------------------------------
(* What there is to write.                                                  *)

\* A byte has eight bits, and the first token is that of an empty list.
ASSUME TokensAssumption ==
    /\ DOMAIN SINGLE_BYTE_TOKENS \subseteq 1 .. 127
    /\ DOMAIN DOUBLE_BYTE_TOKENS \subseteq 0 .. 3
    /\ \A d \in DOMAIN DOUBLE_BYTE_TOKENS : DOMAIN DOUBLE_BYTE_TOKENS[d] \subseteq 0 .. 255
    /\ ~HasToken(<< >>)

\* readInt() makes a negative number of more.
MaxLength == 2147483647

\* A list has a length of two bytes.
MaxListSize == 65535

\* The longest string has less than 2^31 bytes, as in V8.
ASSUME StringsAssumption ==
    /\ MaxStringLength \in Nat \ {0}
    /\ \A c \in Symbols : ByteLength[c] \in 1 .. MaxLength \div MaxStringLength

Blocks == {b \in [len : 0 .. MaxLength, data : Strings] : b.len = 0 <=> b.data = << >>}

\* What is within is less deep than the node.
ASSUME NodesAssumption ==
    /\ MaxDepth \in Nat /\ Depth \in [Nodes -> 0 .. MaxDepth]
    /\ \A n \in Nodes :
         /\ n \in [tag : Strings, attrs : Seq(Strings \X Strings),
                   content : {NoContent} \cup [string : Strings] \cup [bytes : Blocks] \cup [nodes : Seq(Nodes)]]
         /\ 2 * Len(n.attrs) + 2 <= MaxListSize /\ Len(Children(n)) <= MaxListSize
         /\ \A i, j \in DOMAIN n.attrs : n.attrs[i][1] = n.attrs[j][1] => i = j
         /\ \A i \in DOMAIN Children(n) : Depth[Children(n)[i]] < Depth[n]

-----------------------------------------------------------------------------
(* The decoder: what a reader returns and where the cursor is then, or an   *)
(* error.                                                                   *)

Read(value, cursor) == [value |-> value, cursor |-> cursor]
Error == [error |-> TRUE]

\* An error ends the reading.
Then(result, Rest(_, _)) == IF result = Error THEN Error ELSE Rest(result.value, result.cursor)

ReadByte(buf, c) ==
    IF c > Len(buf) \/ "byte" \notin DOMAIN buf[c] THEN Error ELSE Read(buf[c].byte, c + 1)

\* A slice of what there is.
ReadBytesMistake(buf, c, count) ==
    IF count = 0 \/ c > Len(buf) THEN Read([len |-> 0, data |-> << >>], c)
    ELSE IF "len" \in DOMAIN buf[c] /\ buf[c].len <= count THEN Read(buf[c], c + 1)
    ELSE Error

ReadBytes(buf, c, count) ==
    IF count = 0 THEN Read([len |-> 0, data |-> << >>], c)
    ELSE IF c <= Len(buf) /\ "len" \in DOMAIN buf[c] /\ buf[c].len = count THEN Read(buf[c], c + 1)
    ELSE Error

\* readInt() of two and of four bytes.
ReadInt2(buf, c) ==
    Then(ReadByte(buf, c), LAMBDA high, c1 :
    Then(ReadByte(buf, c1), LAMBDA low, c2 : Read(256 * high + low, c2)))

ReadInt4(buf, c) ==
    Then(ReadInt2(buf, c), LAMBDA high, c1 :
    Then(ReadInt2(buf, c1), LAMBDA low, c2 : Read(65536 * high + low, c2)))

ReadInt20(buf, c) ==
    Then(ReadByte(buf, c), LAMBDA high, c1 :
    Then(ReadInt2(buf, c1), LAMBDA low, c2 : Read(65536 * (high % 16) + low, c2)))

IsBinaryTag(tag) == tag \in {TAGS.BINARY_8, TAGS.BINARY_20, TAGS.BINARY_32}

ReadBinary(buf, c, tag) ==
    Then(CASE tag = TAGS.BINARY_8 -> ReadByte(buf, c)
           [] tag = TAGS.BINARY_20 -> ReadInt20(buf, c)
           [] tag = TAGS.BINARY_32 -> ReadInt4(buf, c),
         LAMBDA count, c1 : ReadBytes(buf, c1, count))

UnpackBytes(buf, c, count, chars) ==
    LET Half(i) == IF i % 2 = 1 THEN buf[c + i \div 2].byte \div 16
                                ELSE buf[c + i \div 2 - 1].byte % 16
        Halves == 1 .. 2 * count
        Char(v) == IF v < Len(chars) THEN chars[v + 1] ELSE "NUL"
    IN  IF /\ c + count - 1 <= Len(buf)
           /\ \A i \in c .. c + count - 1 : "byte" \in DOMAIN buf[i]
           /\ \A i \in Halves : Half(i) < Len(chars) \/ Half(i) = 15
        THEN Read([i \in Halves |-> Char(Half(i))], c + count)
        ELSE Error

ReadPacked(buf, c, chars) ==
    Then(ReadByte(buf, c), LAMBDA start, c1 :
    Then(UnpackBytes(buf, c1, start % 128, chars), LAMBDA s, c2 :
         Read(IF start >= 128 /\ s # << >> THEN Front(s) ELSE s, c2)))

ReadToken(table, index) == IF index \in DOMAIN table THEN table[index] ELSE << >>

SingleByteTokensLength == 128

\* readString() after the byte of its tag; within reads the strings in a JID.
ReadStringOf(buf, c, tag, within) ==
    CASE tag \in 1 .. SingleByteTokensLength - 1 -> Read(ReadToken(SINGLE_BYTE_TOKENS, tag), c)
      [] tag - TAGS.DICTIONARY_0 \in DOMAIN DOUBLE_BYTE_TOKENS ->
            Then(ReadByte(buf, c), LAMBDA index, c1 :
            LET dict == DOUBLE_BYTE_TOKENS[tag - TAGS.DICTIONARY_0]
            IN  IF index \in DOMAIN dict THEN Read(dict[index], c1) ELSE Error)
      [] tag = TAGS.LIST_EMPTY -> Read(<< >>, c)
      [] IsBinaryTag(tag) -> Then(ReadBinary(buf, c, tag), LAMBDA b, c1 : Read(b.data, c1))
      [] tag = TAGS.JID_PAIR ->
            Then(within[c], LAMBDA user, c1 :
            Then(within[c1], LAMBDA server, c2 :
            IF server = << >> THEN Error ELSE Read(user \o <<"@">> \o server, c2)))
      [] tag = TAGS.AD_JID ->
            Then(ReadByte(buf, c), LAMBDA domainType, c1 :
            Then(ReadByte(buf, c1), LAMBDA device, c2 :
            Then(within[c2], LAMBDA user, c3 :
            LET server == DomainServers[IF domainType \in 1 .. 3 THEN domainType + 1 ELSE 1]
            IN  Read(JidEncode(user, server, device), c3))))
      [] tag = TAGS.FB_JID ->
            Then(within[c], LAMBDA user, c1 :
            Then(ReadInt2(buf, c1), LAMBDA device, c2 :
            Then(within[c2], LAMBDA server, c3 :
            Read(JidEncode(user, server, device), c3))))
      [] tag = TAGS.NIBBLE_8 -> ReadPacked(buf, c, NibbleChars)
      [] tag = TAGS.HEX_8 -> ReadPacked(buf, c, HexChars)
      [] OTHER -> Error

\* A result for every cursor.
Cursors(buf) == 1 .. Len(buf) + 1

StringReader(buf) ==
    LET calls[left \in 0 .. Len(buf)] ==
          [c \in Cursors(buf) |->
              IF left = 0 THEN Error
              ELSE Then(ReadByte(buf, c), LAMBDA tag, c1 : ReadStringOf(buf, c1, tag, calls[left - 1]))]
    IN  calls[Len(buf)]

ReadString(buf, c) == StringReader(buf)[c]

IsListTag(tag) == tag \in {TAGS.LIST_EMPTY, TAGS.LIST_8, TAGS.LIST_16}

ReadListSize(buf, c, tag) ==
    CASE tag = TAGS.LIST_EMPTY -> Read(0, c)
      [] tag = TAGS.LIST_8 -> ReadByte(buf, c)
      [] tag = TAGS.LIST_16 -> ReadInt2(buf, c)
      [] OTHER -> Error

\* attrs[key] = value
SetAttr(attrs, key, value) ==
    IF \E i \in DOMAIN attrs : attrs[i][1] = key
    THEN [i \in DOMAIN attrs |-> IF attrs[i][1] = key THEN <<key, value>> ELSE attrs[i]]
    ELSE Append(attrs, <<key, value>>)

ReadAttrs(buf, c, count) ==
    LET upTo[i \in 0 .. count] ==
          IF i = 0 THEN Read(<< >>, c)
          ELSE Then(upTo[i - 1], LAMBDA attrs, c1 :
               Then(ReadString(buf, c1), LAMBDA key, c2 :
               Then(ReadString(buf, c2), LAMBDA value, c3 : Read(SetAttr(attrs, key, value), c3))))
    IN  upTo[count]

ReadNodes(c, count, within) ==
    LET upTo[i \in 0 .. count] ==
          IF i = 0 THEN Read(<< >>, c)
          ELSE Then(upTo[i - 1], LAMBDA nodes, c1 :
               Then(within[c1], LAMBDA n, c2 : Read(Append(nodes, n), c2)))
    IN  upTo[count]

ReadContent(buf, c, within) ==
    Then(ReadByte(buf, c), LAMBDA tag, c1 :
    IF IsListTag(tag)
    THEN Then(ReadListSize(buf, c1, tag), LAMBDA size, c2 :
         Then(ReadNodes(c2, size, within), LAMBDA nodes, c3 : Read([nodes |-> nodes], c3)))
    ELSE IF IsBinaryTag(tag)
    THEN Then(ReadBinary(buf, c1, tag), LAMBDA b, c2 : Read([bytes |-> b], c2))
    ELSE Then(ReadStringOf(buf, c1, tag, StringReader(buf)), LAMBDA s, c2 : Read([string |-> s], c2)))

\* decodeNodeFromBuffer(); within reads the nodes within.
ReadNode(buf, c, within) ==
    Then(ReadByte(buf, c), LAMBDA listTag, c1 :
    Then(ReadListSize(buf, c1, listTag), LAMBDA size, c2 :
    IF size = 0 THEN Error
    ELSE Then(ReadString(buf, c2), LAMBDA tag, c3 :
         IF tag = << >> THEN Error
         ELSE Then(ReadAttrs(buf, c3, (size - 1) \div 2), LAMBDA attrs, c4 :
              Then(IF size % 2 = 0 THEN ReadContent(buf, c4, within) ELSE Read(NoContent, c4),
                   LAMBDA content, c5 :
                   Read([tag |-> tag, attrs |-> attrs, content |-> content], c5))))))

DecodeNode(buf, c) ==
    LET calls[left \in 0 .. Len(buf)] ==
          [c1 \in Cursors(buf) |-> IF left = 0 THEN Error ELSE ReadNode(buf, c1, calls[left - 1])]
    IN  calls[Len(buf)][c]

\* stripAndDecompress(): bit 1 of the flags says that zlib has compressed the rest.
DecodeFramed(frame) ==
    Then(ReadByte(frame, 1), LAMBDA flags, c :
    IF flags \div 2 % 2 = 0 THEN DecodeNode(frame, c)
    ELSE IF c <= Len(frame) /\ "deflated" \in DOMAIN frame[c]
    THEN DecodeNode(frame[c].deflated, 1)
    ELSE Error)

-----------------------------------------------------------------------------
\* The codec keeps nothing from one frame to the next: a behaviour is about one.
Nothing == << >>
NoNode == [tag |-> << >>, attrs |-> << >>, content |-> NoContent]

CodecInit ==
    /\ node = NoNode
    /\ wire = Nothing
    /\ whole = TRUE
    /\ received = Error

\* encodeBinaryNode() throws at an empty tag.
Send(n) ==
    /\ node = NoNode
    /\ \A m \in Within[n] : m.tag # << >>
    /\ node' = n
    /\ wire' = AsBytes(<<0>>) \o EncodeNode[n]
    /\ UNCHANGED <<whole, received>>

\* A message from another network, which only the server writes.
ServerSendsFb(j) ==
    /\ node = NoNode
    /\ node' = [tag |-> <<"message">>, content |-> NoContent,
                attrs |-> << <<<<"from">>, JidEncode(j.user, j.server, j.device)>> >>]
    /\ wire' = AsBytes(<<0>>) \o WriteListStart(3) \o WriteString[<<"message">>]
                 \o WriteString[<<"from">>] \o AsBytes(<<TAGS.FB_JID>>) \o WriteString[j.user]
                 \o AsBytes(<<ByteAt(j.device, 256), ByteAt(j.device, 1)>>) \o WriteString[j.server]
    /\ UNCHANGED <<whole, received>>

\* The server compresses a frame.
Compress ==
    /\ wire # Nothing
    /\ wire[1] = [byte |-> 0]
    /\ wire' = AsBytes(<<2>>) \o <<[deflated |-> Tail(wire)]>>
    /\ UNCHANGED <<node, whole, received>>

\* The end is lost, or the end of the block at the end.
Cut ==
    /\ wire # Nothing
    /\ whole
    /\ whole' = FALSE
    /\ \/ \E n \in 1 .. Len(wire) - 1 : wire' = SubSeq(wire, 1, n)
       \/ /\ "len" \in DOMAIN Last(wire)
          /\ wire' = Append(Front(wire), [Last(wire) EXCEPT !.len = @ - 1])
    /\ UNCHANGED <<node, received>>

Deliver ==
    /\ wire # Nothing
    /\ received' = DecodeFramed(wire)
    /\ wire' = Nothing
    /\ UNCHANGED <<node, whole>>

CodecNext ==
    \/ \E n \in Nodes : Send(n)
    \/ \E j \in FbJids : ServerSendsFb(j)
    \/ Compress \/ Cut \/ Deliver

CodecSpec == CodecInit /\ [][CodecNext]_codecVars

-----------------------------------------------------------------------------
\* A string that means the same to both sides.  The name of an inherited property is taken
\* for a token, and a JID with a device keeps its server only if that is one of four, and
\* the device only as the numeral of one byte: not "at: 10 @lid", which parseInt() takes
\* for device 10.
Portable[s \in Strings] ==
    LET jid == JidDecode(s)
    IN  /\ s \notin InheritedNames
        /\ jid # NotAJid /\ ~HasToken(s) =>
             /\ Portable[jid.user] /\ Portable[jid.server]
             /\ "device" \in DOMAIN jid =>
                  /\ jid.server \in ToSet(DomainServers)
                  /\ jid.device \in 0 .. 255
                  /\ s = JidEncode(jid.user, jid.server, jid.device)

PortableNode(n) ==
    \A m \in Within[n] :
        /\ Portable[m.tag]
        /\ \A i \in DOMAIN m.attrs : Portable[m.attrs[i][1]] /\ Portable[m.attrs[i][2]]
        /\ "string" \in DOMAIN m.content => Portable[m.content.string]

\* The other network's JIDs are of portable strings.
ASSUME FbJidsAssumption ==
    \A j \in FbJids :
        /\ {j.user, j.server, JidEncode(j.user, j.server, j.device), <<"message">>, <<"from">>} \subseteq Strings
        /\ Portable[j.user] /\ Portable[j.server] /\ Portable[<<"message">>] /\ Portable[<<"from">>]
        /\ j.device \in Nat /\ j.device <= 65535

\* A string that is its own content comes as a string if it has a shorter form than its
\* characters, and as their bytes if not.
HasShortForm(s) ==
    HasToken(s) \/ CanPack(s, NibbleChars) \/ CanPack(s, HexChars) \/ JidDecode(s) # NotAJid

AsReceived[n \in Nodes] ==
    LET content == n.content
    IN  [n EXCEPT !.content =
            IF "string" \in DOMAIN content /\ ~HasShortForm(content.string)
            THEN [bytes |-> AsBlock(content.string)]
            ELSE IF "nodes" \in DOMAIN content
            THEN [nodes |-> [i \in DOMAIN content.nodes |-> AsReceived[content.nodes[i]]]]
            ELSE content]

Delivered == wire = Nothing /\ node # NoNode

\* Both halves of the codec agree: a frame that arrives whole gives the node that was sent,
\* whichever form each of its strings takes, compressed or not.
RoundTrip ==
    Delivered /\ whole /\ (node \in Nodes => PortableNode(node)) =>
        /\ received # Error
        /\ received.value = IF node \in Nodes THEN AsReceived[node] ELSE node

\* decoder.ts:16: the decoder throws "on any protocol violation": a frame that has lost
\* its end is an error, never another node.
TruncationRefused == Delivered /\ ~whole => received = Error

\* encoder.ts:130: "JID encoding for WhatsApp addresses", and for other strings a "fall
\* back to raw UTF-8" (137): a text arrives, as a string or as its bytes, whatever it says.
TextArrives ==
    Delivered /\ whole /\ "string" \in DOMAIN node.content =>
        /\ received # Error
        /\ received.value.content \in {node.content, [bytes |-> AsBlock(node.content.string)]}

===============================================================================
