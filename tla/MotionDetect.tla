---------------------------- MODULE MotionDetect ----------------------------
(***************************************************************************)
(* Motion detection: the loop of motion_callback and the comparison of     *)
(* analyse_frames (camera.c).  The picture the camera takes is any one of  *)
(* Pictures; a frame is a function from the place of a byte to the byte,   *)
(* row after row.  Bytes are read as signed char, which is what char is on *)
(* the camera the Makefile builds for.  A sum of 640 * 480 differences     *)
(* fits in an int.                                                         *)
(***************************************************************************)
EXTENDS Integers

CONSTANTS
  Width, Height,        \* 640 and 480 in the program
  HalfByte,             \* 128 in the program: bytes are below twice that
  MOTION_THRESHOLD,     \* 10 in the program
  Pictures,
  NoFrame

ASSUME SizeAssumption == {Width, Height, HalfByte} \subseteq Nat \ {0}
ASSUME ThresholdAssumption == MOTION_THRESHOLD \in Nat

Places == 0 .. Width * Height - 1
Bytes == 0 .. 2 * HalfByte - 1

ASSUME PictureAssumption == Pictures \subseteq [Places -> Bytes] /\ NoFrame \notin Pictures

MODE_IDLE == "MODE_IDLE"
MODE_MOVIE == "MODE_MOVIE"
Modes == {MODE_IDLE, MODE_MOVIE}
Labels == {"one", "two", "analyse", "test", "free"}

VARIABLES
  thread,                  \* where the motion thread is
  frame_one, frame_two,
  result,
  server                   \* the server's mode and motion bit

vars == <<thread, frame_one, frame_two, result, server>>

Init ==
  /\ thread = "one" /\ frame_one = NoFrame /\ frame_two = NoFrame /\ result = 0
  /\ server = [mode |-> MODE_IDLE, motion |-> FALSE]

-----------------------------------------------------------------------------
(* The comparison                                                          *)

Signed(byte) == IF byte >= HalfByte THEN byte - 2 * HalfByte ELSE byte
Abs(n) == IF n < 0 THEN -n ELSE n

ByteDiff(cur, prev, pos) == Abs(Signed(cur[pos]) - Signed(prev[pos]))

(* Mutant: rows are counted from one.                                      *)
Position_FromOne(i, j) == i + 1 + j

(* Without the stride: the first rows only, most places many times.         *)
Position(i, j) == i + j

(* The n-th round of the two loops, counted from one.                      *)
Round(cur, prev, n) ==
  ByteDiff(cur, prev, Position((n - 1) \div Width, (n - 1) % Width))

analyse_frames(cur, prev) ==
  LET sum[n \in 0 .. Width * Height] ==
        IF n = 0 THEN 0 ELSE sum[n - 1] + Round(cur, prev, n)
  IN  sum[Width * Height] \div (Width * Height)

-----------------------------------------------------------------------------
(* The motion thread                                                       *)

CaptureOne ==
  /\ thread = "one" /\ thread' = "two" /\ frame_one' \in Pictures
  /\ UNCHANGED <<frame_two, result, server>>

CaptureTwo ==
  /\ thread = "two" /\ thread' = "analyse" /\ frame_two' \in Pictures
  /\ UNCHANGED <<frame_one, result, server>>

Analyse ==
  /\ thread = "analyse" /\ thread' = "test"
  /\ result' = analyse_frames(frame_one, frame_two)
  /\ UNCHANGED <<frame_one, frame_two, server>>

(* set_mode, as ModeRegister has it.                                       *)
SetMode(mode, motion_detected) ==
  server' = IF mode = server.mode THEN server
            ELSE [mode |-> mode, motion |-> motion_detected]

(* Mutant: the threshold itself is motion.                                 *)
Test_AtThreshold ==
  /\ thread = "test" /\ thread' = "free"
  /\ IF result >= MOTION_THRESHOLD THEN SetMode(MODE_MOVIE, TRUE) ELSE UNCHANGED server
  /\ UNCHANGED <<frame_one, frame_two, result>>

Test ==
  /\ thread = "test" /\ thread' = "free"
  /\ IF result > MOTION_THRESHOLD THEN SetMode(MODE_MOVIE, TRUE) ELSE UNCHANGED server
  /\ UNCHANGED <<frame_one, frame_two, result>>

Free ==
  /\ thread = "free" /\ thread' = "one" /\ frame_one' = NoFrame /\ frame_two' = NoFrame
  /\ UNCHANGED <<result, server>>

(* A client asks for a mode in the meantime.                               *)
ClientAsks(mode) ==
  /\ mode # server.mode /\ SetMode(mode, FALSE)
  /\ UNCHANGED <<thread, frame_one, frame_two, result>>

Next ==
  \/ CaptureOne \/ CaptureTwo \/ Analyse \/ Test \/ Free
  \/ \E mode \in Modes : ClientAsks(mode)

Spec == Init /\ [][Next]_vars

-----------------------------------------------------------------------------
TypeOK ==
  /\ thread \in Labels
  /\ {frame_one, frame_two} \subseteq Pictures \cup {NoFrame}
  /\ result \in Bytes
  /\ server \in [mode : Modes, motion : BOOLEAN]
  /\ server.motion => server.mode = MODE_MOVIE

(* The places Position reaches, and how much two frames differ at one.     *)
Watched == 0 .. Width + Height - 2
Moved(pos) == ByteDiff(frame_one, frame_two, pos) > MOTION_THRESHOLD

(* Motion is found if every place analyse_frames looks at has changed by   *)
(* more than the threshold, and only if some of them has: it is a mean,    *)
(* though it counts the places many times and leaves most of them out.     *)
FoundWhereWatched ==
  thread = "test" =>
    /\ (\A pos \in Watched : Moved(pos)) => result > MOTION_THRESHOLD
    /\ result > MOTION_THRESHOLD => \E pos \in Watched : Moved(pos)

(* The motion bit is set only from Idle, and only for two frames that      *)
(* differ by more than the threshold somewhere.                            *)
BitMeansMotion ==
  [][server'.motion /\ ~server.motion =>
       server.mode = MODE_IDLE /\ \E pos \in Places : Moved(pos)]_vars
=============================================================================
