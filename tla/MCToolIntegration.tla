------------------------- MODULE MCToolIntegration -------------------------
(* TLC instance of ToolIntegration: its constants are in the .cfg. *)
EXTENDS ToolIntegration
=============================================================================
