--------------------------- MODULE MCMotionDetect ---------------------------
(* Frames of two rows of three bytes of four bits: those that differ at    *)
(* any places, by little or across the sign, and those of one brightness.  *)
EXTENDS MotionDetect

MCPictures == [Places -> {7, 8}] \cup [Places -> {0, 5}] \cup {[pos \in Places |-> b] : b \in Bytes}
=============================================================================
