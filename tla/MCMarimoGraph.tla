--------------------------- MODULE MCMarimoGraph ---------------------------
(* Cell 1 needs cell 0; cell 2, where there is one, stands alone.          *)
EXTENDS MarimoGraph

MCParents == [c \in Cells |-> IF c = 1 THEN {0} ELSE {}]
=============================================================================
