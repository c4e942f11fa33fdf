------------------------------ MODULE MCCircVec -----------------------------
(* CircVec over two elements and a blank. *)
EXTENDS CircVec

CONSTANTS a, b, blank

MCElem == {a, b, blank}
=============================================================================
