------------------------------ MODULE MCGuiSync -----------------------------
(* GuiSync as it stands: its constants are numbers, given in the .cfg. *)
EXTENDS GuiSync
=============================================================================
