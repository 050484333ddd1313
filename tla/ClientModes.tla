---------------------------- MODULE ClientModes ----------------------------
(***************************************************************************)
(* What the client's Monitor promises the ServerWriters, free of locks,    *)
(* models and notifications: a mode per camera, which changes in one step, *)
(* one camera's by request and all cameras' when motion is reported; and   *)
(* nextMode, which takes the mode it finds for the old one and returns one *)
(* that is another.                                                        *)
(***************************************************************************)
CONSTANTS
  MODE_IDLE, MODE_MOVIE,
  Cameras,
  Connected     \* those with a ServerWriter

VARIABLES
  clientMode,   \* the mode of each camera
  writer        \* where each ServerWriter is, and its oldMode or nextMode

vars == <<clientMode, writer>>

AllMovie == [c \in Cameras |-> MODE_MOVIE]

Init ==
  /\ clientMode = [c \in Cameras |-> MODE_IDLE]
  /\ writer = [c \in Connected |-> [at |-> "enter", mode |-> MODE_IDLE]]

Request(c, mode) ==
  /\ clientMode' = [clientMode EXCEPT ![c] = mode]
  /\ UNCHANGED writer

MotionReported ==
  /\ clientMode' = AllMovie
  /\ UNCHANGED writer

WriterGoes(c, from, to, mode) ==
  /\ writer[c].at = from
  /\ writer' = [writer EXCEPT ![c] = [at |-> to, mode |-> mode]]
  /\ UNCHANGED clientMode

NextModeEnter(c) == WriterGoes(c, "enter", "wait", clientMode[c])

NextModeReturn(c) ==
  /\ clientMode[c] # writer[c].mode
  /\ WriterGoes(c, "wait", "write", clientMode[c])

WriteRequest(c) == WriterGoes(c, "write", "enter", writer[c].mode)
WriteFails(c) == WriterGoes(c, "write", "closed", writer[c].mode)

Next ==
  \/ \E c \in Cameras, mode \in {MODE_IDLE, MODE_MOVIE} : Request(c, mode)
  \/ MotionReported
  \/ \E c \in Connected :
       NextModeEnter(c) \/ NextModeReturn(c) \/ WriteRequest(c) \/ WriteFails(c)

Spec == Init /\ [][Next]_vars
=============================================================================
