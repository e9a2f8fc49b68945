----------------------------- MODULE MCAuthStore -----------------------------
(***************************************************************************)
(* Small instances of AuthStore for TLC.                                   *)
(***************************************************************************)
EXTENDS AuthStore

\* A value that survives the serialization; a value of each kind.
OneValue == {[kind |-> "Uint8Array", data |-> 1]}
AllKinds == {[kind |-> k, data |-> 1] : k \in Kinds}

==============================================================================
