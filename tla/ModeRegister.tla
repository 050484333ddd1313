---------------------------- MODULE ModeRegister ----------------------------
(***************************************************************************)
(* What the server's mode handling promises, free of threads and locks:    *)
(* one register that holds the mode of operation together with the reason  *)
(* for it.  A request for the mode already set changes nothing; a request  *)
(* for another mode changes the mode and records whether detected motion   *)
(* asked for it.                                                           *)
(***************************************************************************)
CONSTANTS MODE_IDLE, MODE_MOVIE

VARIABLES
  mode,     \* the mode of operation
  motion    \* the change to the present mode was asked for by detected motion

vars == <<mode, motion>>

Init == mode = MODE_IDLE /\ motion = FALSE

SetMode(new_mode, motion_detected) ==
  /\ new_mode # mode
  /\ mode' = new_mode
  /\ motion' = motion_detected

(* Only the motion thread reports motion, and it only ever asks for Movie. *)
Next ==
  \/ SetMode(MODE_IDLE, FALSE)
  \/ SetMode(MODE_MOVIE, FALSE)
  \/ SetMode(MODE_MOVIE, TRUE)

Spec == Init /\ [][Next]_vars
=============================================================================
