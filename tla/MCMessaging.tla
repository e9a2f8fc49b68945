----------------------------- MODULE MCMessaging -----------------------------
(***************************************************************************)
(* Small instances of Messaging for TLC.                                   *)
(***************************************************************************)
EXTENDS Messaging

CONSTANTS a, b

\* An own message in each of two chats, and one of theirs.
ThreeMessages == {<<a, 1>>, <<b, 2>>, <<a, 2>>}
OneInEach == {<<a, 1>>, <<b, 2>>}
FirstChosen == {<<a, 1>>}

\* Two own messages and one of theirs in a chat, and one with the same id in another.
FourMessages == {<<a, 1>>, <<a, 2>>, <<a, 3>>, <<b, 3>>}
TwoInOne == {<<a, 1>>, <<a, 2>>}

\* Theirs are older than the first own message, or have no time.
Times == [m \in Messages |-> IF m \in Own THEN m[2] + 1 ELSE IF m[1] = a THEN 1 ELSE 0]

===============================================================================
