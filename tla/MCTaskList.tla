----------------------------- MODULE MCTaskList -----------------------------
(* TaskList over three addresses. *)
EXTENDS TaskList

CONSTANTS v1, v2, v3

MCVA == {v1, v2, v3}

MCElem == Task \cup {Blank}
=============================================================================
