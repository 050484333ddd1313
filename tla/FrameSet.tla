------------------------------ MODULE FrameSet ------------------------------
(***************************************************************************)
(* What FrameBuffer.java promises: a set of frames from which the one      *)
(* taken is always an oldest.                                              *)
(***************************************************************************)
EXTENDS Naturals

CONSTANTS
  Frames,     \* ServerFrame objects
  SentTime,   \* when each was sent
  NoFrame

VARIABLES
  held,    \* the frames in the buffer
  taken    \* the frame taken last

vars == <<held, taken>>

Init == held = {} /\ taken = NoFrame

Put(frame) ==
  /\ frame \notin held
  /\ held' = held \cup {frame}
  /\ UNCHANGED taken

Take(frame) ==
  /\ frame \in held
  /\ \A other \in held : SentTime[frame] <= SentTime[other]
  /\ held' = held \ {frame}
  /\ taken' = frame

Next == \E frame \in Frames : Put(frame) \/ Take(frame)

Spec == Init /\ [][Next]_vars
=============================================================================
