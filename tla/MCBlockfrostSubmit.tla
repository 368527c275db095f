------------------------- MODULE MCBlockfrostSubmit -------------------------
(* Instances of BlockfrostSubmit for TLC. *)
EXTENDS BlockfrostSubmit

CONSTANTS c1, c2, i1, i2

\* c1 and c2 compete for i1.
MCSpends == [c \in Calls |-> IF c = c1 THEN {i1} ELSE {i1, i2}]
=============================================================================
