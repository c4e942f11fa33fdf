------------------------------ MODULE MCSBTree ------------------------------
(* SBTree over integers as nodes; two nodes share a key.                   *)
EXTENDS SBTree

CONSTANT Nodes   \* their number

MCNode == 1 .. Nodes

MCKeyOf == [n \in MCNode |-> IF n < 4 THEN n ELSE n - 1]
=============================================================================
