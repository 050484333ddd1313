----------------------------- MODULE MCPlayout -----------------------------
(* Two cameras; frames are numbered in order of sending.  The network      *)
(* holds frames up for seconds, so that the averages and the sync time     *)
(* grow; the instants are those at which frames are sent and become due,   *)
(* and one by which all are late.                                          *)
EXTENDS Playout

Sent == <<0, 100, 6000>>
SentBy == <<1, 2, 1>>
Times == {0, 100, 600, 6000, 6500, 8000}
=============================================================================
