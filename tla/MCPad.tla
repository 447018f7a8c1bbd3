-------------------------------- MODULE MCPad --------------------------------
(* A stick with four counts of travel to each side. *)
EXTENDS Pad

StickLow == -4
=============================================================================
