------------------------------ MODULE MCRunLock ------------------------------
(* TLC instances of RunLock: three processes, of which c may live on a    *)
(* second machine.                                                        *)
EXTENDS RunLock, TLC

CONSTANTS a, b, c, here, there

OneHost  == [p \in Procs |-> here]
TwoHosts == [p \in Procs |-> IF p = c THEN there ELSE here]
=============================================================================
