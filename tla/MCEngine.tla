------------------------------ MODULE MCEngine ------------------------------
(***************************************************************************)
(* Small instances of Engine for TLC.                                      *)
(***************************************************************************)
EXTENDS Engine, TLC

\* An application that connects only when the engine has no socket, and
\* disconnects only when there is something to disconnect.
WhenDown == {"closed", "reconnecting"}
WhenUp   == {"connecting", "open", "reconnecting"}

\* An application that may call both at any time.
Always == Status

SocketSymmetry == Permutations(Sockets)

=============================================================================
