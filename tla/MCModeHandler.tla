--------------------------- MODULE MCModeHandler ---------------------------
(* Two overlapping listeners and the motion thread.                        *)
EXTENDS ModeHandler
=============================================================================
