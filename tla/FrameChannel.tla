----------------------------- MODULE FrameChannel -----------------------------
(***************************************************************************)
(* What the framed transport of a connection promises its user             *)
(* (src/src/core/noise-handler.ts): each frame that the server sends is    *)
(* taken once, whole and in order, and every one is taken in the end.      *)
(***************************************************************************)
EXTENDS Integers

VARIABLES
    sent,   \* the number of frames sent
    taken   \* the number of frames taken

Init == sent = 0 /\ taken = 0

Send == sent' = sent + 1 /\ UNCHANGED taken

Take == taken < sent /\ taken' = taken + 1 /\ UNCHANGED sent

Next == Send \/ Take

Spec == Init /\ [][Next]_<<sent, taken>> /\ WF_<<sent, taken>>(Take)

===============================================================================
