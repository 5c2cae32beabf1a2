---------------------------- MODULE MCResources ----------------------------
(* TLC instances of Resources. *)
EXTENDS Resources, TLC

CONSTANTS r1, r2

Blocking == [monitor |-> TRUE, blocking |-> TRUE]
Unwatched == [monitor |-> FALSE, blocking |-> FALSE]
MCLifecycles == [r \in Rs |-> IF r = r1 THEN {Blocking} ELSE {Unwatched}]

=============================================================================
