------------------------------ MODULE MCAppState ------------------------------
(***************************************************************************)
(* Small instances of AppState for TLC.                                    *)
(***************************************************************************)
EXTENDS AppState, TLC

CONSTANTS k1, k2

\* Every index is written with one key ...
OneKey == [i \in Indexes |-> {k1}]
\* ... or the key is rotated.
Rotated == [i \in Indexes |-> {k1, k2}]

\* A key to each index: one key may be missing while the other is there.
i1 == CHOOSE i \in Indexes : TRUE
OwnKeys == [i \in Indexes |-> IF i = i1 THEN {k1} ELSE {k2}]

===============================================================================
