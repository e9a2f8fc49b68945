----------------------------- MODULE MCBinaryCodec -----------------------------
(***************************************************************************)
(* Small instances of BinaryCodec for TLC.                                 *)
(***************************************************************************)
EXTENDS BinaryCodec, TLC

Tokens == (55 :> <<"message">>) @@ (38 :> <<"from">>) @@ (39 :> <<"g.us">>)
            @@ (82 :> <<"s.whatsapp.net">>) @@ (98 :> <<"unavailable">>) @@ (109 :> <<"1">>)

Dictionary == (0 :> ((53 :> <<"lid">>) @@ (109 :> <<"unavailable">>)))
                @@ (1 :> ((0 :> <<"0", "1">>) @@ (124 :> <<"oos">>)))
                @@ (2 :> (0 :> <<"oos">>)) @@ (3 :> (30 :> <<"zip">>))

Names == {<<"constructor">>}

Words == {"message", "from", "g.us", "s.whatsapp.net", "unavailable", "lid", "oos", "zip",
          "hosted", "hosted.lid", "constructor"}

\* "é" has two bytes; the words need any length of two or more.
Lengths == [w \in Words |-> 7] @@ ("é" :> 2)
             @@ [c \in ToSet(HexChars) \cup {"-", "+", ".", "@", ":", "q", " "} |-> 1]

SomeSymbols == {"0", "1", "F", "-", "q", "é", "@", ":", "lid", "g.us", "constructor"}

ShortStrings == UNION {[1 .. n -> SomeSymbols] : n \in 0 .. 2}
Repeated(c, n) == [i \in 1 .. n |-> c]
PackedStrings == {Repeated("0", n) : n \in 3 .. 4} \cup {Repeated(c, n) : c \in {"-", "F"}, n \in {253, 254, 255}}
                   \cup {<<"-", "F", "0">>, <<"F", "0", "9">>, <<"0", ".", "0">>}
RawStrings == {Repeated("é", n) : n \in {127, 128}} \cup {Repeated("q", 255), Repeated("q", 256)}

Users == {<< >>, <<"0">>, <<"q">>, <<"q", "@", "lid">>, <<"message">>}
Devices == {<< >>, <<":", "0">>, <<":", "2", "5", "5">>, <<":", "2", "5", "6">>, <<":", "0", "1">>,
            <<":", "-", "1">>, <<":", "7", "q">>, <<":", "q">>}
Servers == {<<"s.whatsapp.net">>, <<"lid">>, <<"hosted">>, <<"hosted.lid">>, <<"g.us">>}
Jids == {u \o d \o <<"@">> \o s : u \in Users, d \in Devices, s \in Servers}

\* What parseInt() takes for a number, and what not.
Numerals == {<<"+", "1">>, <<" ", "0">>, <<" ", " ", "+", "1", " ", "q">>, <<"+", " ", "1">>, <<" ">>}
NumeralTexts == {<<"q", ":">> \o d \o <<"@">> \o s : d \in Numerals, s \in Servers \cup {<<" ">>}}

AllStrings == ShortStrings \cup PackedStrings \cup RawStrings \cup Jids \cup NumeralTexts
             \cup {<<w>> : w \in Words}

Node(tag, attrs, content) == [tag |-> tag, attrs |-> attrs, content |-> content]
Leaf == Node(<<"q">>, << >>, NoContent)

WithString(s) == {Node(s, << >>, NoContent), Node(<<"from">>, << <<s, <<"1">>>> >>, NoContent),
                  Node(<<"q">>, << <<<<"from">>, s>>, <<<<"q">>, <<"0">>>> >>, [string |-> s])}

WithBytes == {Node(<<"oos">>, << >>, [bytes |-> [len |-> n, data |-> IF n = 0 THEN << >> ELSE <<"q">>]]) :
                n \in {0, 1, 255, 256, 65535, 65536, 1048575, 1048576, 16777216, 2147483647}}

Parent == Node(<<"F">>, << <<<<"q">>, <<"é">>>> >>, [nodes |-> <<Leaf, Leaf>>])
WithNodes == {Node(<<"zip">>, << >>, [nodes |-> Repeated(Leaf, n)]) : n \in {0, 1, 30}}
               \cup {Node(<<"zip">>, << >>, [nodes |-> <<Parent, Leaf, Parent>>])}

\* A node of n attributes is a list of 2 n + 1 entries, or 2 n + 2.
WithAttrs == {Node(<<"q">>, [i \in 1 .. n |-> <<<<"q">> \o Decimal(i), <<"0">>>>], content) :
                n \in {2, 20}, content \in {NoContent, [string |-> <<"1">>]}}

Tagless == Node(<< >>, << >>, NoContent)
EmptyTags == {Tagless, Node(<<"q">>, << >>, [nodes |-> <<Leaf, Tagless>>])}

AllNodes == UNION {WithString(s) : s \in AllStrings} \cup WithBytes \cup WithNodes \cup WithAttrs
              \cup EmptyTags \cup {Leaf, Parent}

DepthOf(n) == IF "nodes" \notin DOMAIN n.content THEN 0 ELSE IF Parent \in ToSet(n.content.nodes) THEN 2 ELSE 1
Depths == [n \in AllNodes |-> DepthOf(n)]

Texts == {Node(<<"message">>, << >>, [string |-> s]) :
            s \in {<<"q">> \o d \o <<"q", "@">> \o t : d \in Devices, t \in Servers \cup {<<"q">>}}}

TextDepths == [n \in Texts |-> 0]

OtherNetwork == {[user |-> u, device |-> d, server |-> <<"q">>] : u \in Users, d \in {0, 255, 65535}}

===============================================================================
