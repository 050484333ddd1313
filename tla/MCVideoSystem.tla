--------------------------- MODULE MCVideoSystem ---------------------------
(* Two cameras; the bounds are in the configuration.                       *)
EXTENDS VideoSystem
=============================================================================
