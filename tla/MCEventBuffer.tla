----------------------------- MODULE MCEventBuffer -----------------------------
(***************************************************************************)
(* Small instances of EventBuffer for TLC.                                 *)
(***************************************************************************)
EXTENDS EventBuffer, TLC

CONSTANTS f, g, a, b

ChatAndMessage == {<<"chats", 1>>, <<"messages", 1>>}
AllKinds == {<<k, 1>> : k \in Kinds}

\* One field or the other, and a value that differs.
TwoFields == {f :> a, f :> b, g :> a}

===============================================================================
