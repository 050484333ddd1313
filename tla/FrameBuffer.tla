---------------------------- MODULE FrameBuffer ----------------------------
(***************************************************************************)
(* The client's buffer of frames (FrameBuffer.java): a list that add keeps *)
(* in order of sending, the newest first, and whose last element pop       *)
(* removes.  The monitor calls both under its lock, and pop only when the  *)
(* buffer is not empty.  Frames of the two cameras mix in it, so that a    *)
(* frame may come with any time.                                           *)
(***************************************************************************)
EXTENDS Integers, Sequences, SequencesExt

CONSTANTS
  Frames,     \* ServerFrame objects
  SentTime,   \* when each was sent
  NoFrame

ASSUME SentTimeAssumption == SentTime \in [Frames -> Nat] /\ NoFrame \notin Frames

VARIABLES
  frames,   \* the list
  popped    \* what pop returned last

bufferVars == <<frames, popped>>

BufferInit == frames = <<>> /\ popped = NoFrame

After(frame, other) == SentTime[frame] > SentTime[other]

(* Mutant: the frame goes after the first older one.                       *)
InsertionIndex_Late(frame) ==
  LET older == {i \in DOMAIN frames : After(frame, frames[i])}
  IN  IF older = {} THEN Len(frames) + 1 ELSE (CHOOSE i \in older : \A j \in older : i <= j) + 1

(* Where add puts a frame: before the first that is older, or last.        *)
InsertionIndex(frame) ==
  LET older == {i \in DOMAIN frames : After(frame, frames[i])}
  IN  IF older = {} THEN Len(frames) + 1 ELSE CHOOSE i \in older : \A j \in older : i <= j

(* Each frame read from a socket is an object of its own, added once.      *)
Add(frame) ==
  /\ frame \notin ToSet(frames)
  /\ frames' = InsertAt(frames, InsertionIndex(frame), frame)
  /\ UNCHANGED popped

(* Mutant: the frame is returned but stays in the list (peek for pop).     *)
Pop_Peeks ==
  /\ frames # <<>>
  /\ popped' = frames[Len(frames)]
  /\ UNCHANGED frames

Pop ==
  /\ frames # <<>>
  /\ popped' = frames[Len(frames)]
  /\ frames' = SubSeq(frames, 1, Len(frames) - 1)

BufferNext == (\E frame \in Frames : Add(frame)) \/ Pop

BufferSpec == BufferInit /\ [][BufferNext]_bufferVars

-----------------------------------------------------------------------------
BufferTypeOK == frames \in Seq(Frames) /\ popped \in Frames \cup {NoFrame}

(* The list is in order of sending and holds no frame twice.               *)
NewestFirst ==
  \A i, j \in DOMAIN frames : i < j =>
    ~After(frames[j], frames[i]) /\ frames[i] # frames[j]

(* The list implements the set: nothing is lost or invented, and the frame *)
(* that pop removes, whatever was added since, is an oldest.               *)
Abstract == INSTANCE FrameSet WITH held <- {frames[i] : i \in DOMAIN frames}, taken <- popped

ImplementsSet == Abstract!Spec
=============================================================================
