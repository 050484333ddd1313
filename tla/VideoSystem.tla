---------------------------- MODULE VideoSystem ----------------------------
(***************************************************************************)
(* The mode of operation from end to end: the client's mode for each       *)
(* camera, the ServerWriter that requests it, the server's register        *)
(* (ModeRegister, which ModeHandler implements), the headers that tell of  *)
(* it and the ServerReader that looks for motion in them.  Between client  *)
(* and server run two channels per camera, which keep their order.         *)
(*                                                                         *)
(* A mode of the client is set in one step here, as in ClientModes; how    *)
(* the threads get there is in ClientMonitor.  What is in a header besides *)
(* the mode is in ServerReader, of which MotionReader is left here, and    *)
(* what is in set_mode in ModeHandler.  No connection ends here.           *)
(***************************************************************************)
EXTENDS Naturals, Sequences

CONSTANTS
  Cameras,
  MaxPresses, MaxMotions,   \* bounds: of the user's requests, and of the camera's reports
  MaxHeaders                \* bound: the headers under way

ASSUME BoundsAssumption == {MaxPresses, MaxMotions, MaxHeaders} \subseteq Nat

MODE_IDLE == "MODE_IDLE"
MODE_MOVIE == "MODE_MOVIE"
Modes == {MODE_IDLE, MODE_MOVIE}
Writing == {"enter", "wait", "write"}
Sampled == Modes \cup {"none"}
Headers == [movie : BOOLEAN, motionBit : BOOLEAN]

VARIABLES
  clientMode,    \* currentCameraOneMode and currentCameraTwoMode
  writer,        \* the ServerWriter: where it is, and the mode of its last nextMode
  requests,      \* the commands under way
  server,        \* the server's register
  sampled,       \* the mode output_header has read, until it writes the mode byte
  headers,       \* the mode bytes under way
  motion,        \* the ServerReader's field
  lost,          \* history: nextMode has taken a request for the old mode
  presses, motions

clientVars == <<clientMode, motion>>
writerVars == <<writer, lost>>
headerVars == <<sampled, headers>>
countVars == <<presses, motions>>
vars == <<clientVars, writerVars, requests, server, headerVars, countVars>>

Register(c) == INSTANCE ModeRegister WITH mode <- server[c].mode, motion <- server[c].motion
Client == INSTANCE ClientModes WITH Connected <- Cameras
Reader(c) == INSTANCE MotionReader WITH headers <- headers[c], motion <- motion[c], open <- TRUE

Init ==
  /\ clientMode = [c \in Cameras |-> MODE_IDLE] /\ motion = [c \in Cameras |-> FALSE]
  /\ writer = [c \in Cameras |-> [at |-> "enter", mode |-> MODE_IDLE]]
  /\ lost = [c \in Cameras |-> FALSE]
  /\ requests = [c \in Cameras |-> <<>>]
  /\ server = [c \in Cameras |-> [mode |-> MODE_IDLE, motion |-> FALSE]]
  /\ sampled = [c \in Cameras |-> "none"] /\ headers = [c \in Cameras |-> <<>>]
  /\ presses = 0 /\ motions = 0

-----------------------------------------------------------------------------
(* The client                                                              *)

(* The user asks for a mode.                                               *)
Press(c, mode) ==
  /\ presses < MaxPresses /\ presses' = presses + 1
  /\ mode # clientMode[c]
  /\ clientMode' = [clientMode EXCEPT ![c] = mode]
  /\ UNCHANGED <<motion, writerVars, requests, server, headerVars, motions>>

(* nextMode is called, and takes the mode it finds for the old one.        *)
NextModeEnter(c) ==
  /\ writer[c].at = "enter"
  /\ writer' = [writer EXCEPT ![c] = [at |-> "wait", mode |-> clientMode[c]]]
  /\ lost' = [lost EXCEPT ![c] = @ \/ clientMode[c] # writer[c].mode]
  /\ UNCHANGED <<clientVars, requests, server, headerVars, countVars>>

(* Mutant: nextMode returns the mode it had found first.                   *)
NextModeReturn_Stale(c) ==
  /\ writer[c].at = "wait" /\ clientMode[c] # writer[c].mode
  /\ writer' = [writer EXCEPT ![c].at = "write"]
  /\ lost' = [lost EXCEPT ![c] = FALSE]
  /\ UNCHANGED <<clientVars, requests, server, headerVars, countVars>>

(* nextMode finds another mode and returns it.                             *)
NextModeReturn(c) ==
  /\ writer[c].at = "wait" /\ clientMode[c] # writer[c].mode
  /\ writer' = [writer EXCEPT ![c] = [at |-> "write", mode |-> clientMode[c]]]
  /\ lost' = [lost EXCEPT ![c] = FALSE]
  /\ UNCHANGED <<clientVars, requests, server, headerVars, countVars>>

WriteRequest(c) ==
  /\ writer[c].at = "write"
  /\ requests' = [requests EXCEPT ![c] = Append(@, writer[c].mode)]
  /\ writer' = [writer EXCEPT ![c].at = "enter"]
  /\ UNCHANGED <<lost, clientVars, server, headerVars, countVars>>

Reports(c, h) == h.motionBit /\ ~motion[c]

(* Mutant: the motion is noted and not reported.                           *)
ReadHeader_Silent(c) ==
  /\ headers[c] # <<>> /\ headers' = [headers EXCEPT ![c] = Tail(@)]
  /\ motion' = [motion EXCEPT ![c] = Head(headers[c]).motionBit]
  /\ UNCHANGED <<clientMode, sampled, writerVars, requests, server, countVars>>

(* A ServerReader reads a header.  New motion is reported to changeMode,   *)
(* which sets both cameras to Movie.                                       *)
ReadHeader(c) ==
  LET h == Head(headers[c]) IN
  /\ headers[c] # <<>> /\ headers' = [headers EXCEPT ![c] = Tail(@)]
  /\ motion' = [motion EXCEPT ![c] = Reports(c, h) \/ (@ /\ h.movie)]
  /\ clientMode' = IF Reports(c, h) THEN [d \in Cameras |-> MODE_MOVIE] ELSE clientMode
  /\ UNCHANGED <<sampled, writerVars, requests, server, countVars>>

-----------------------------------------------------------------------------
(* The server                                                              *)

SetMode(c, mode, detected) ==
  server' = IF mode = server[c].mode THEN server
            ELSE [server EXCEPT ![c] = [mode |-> mode, motion |-> detected]]

(* Mutant: all the bytes that are there are read, and the first acted on.  *)
ReadRequest_First(c) ==
  /\ requests[c] # <<>> /\ requests' = [requests EXCEPT ![c] = <<>>]
  /\ SetMode(c, Head(requests[c]), FALSE)
  /\ UNCHANGED <<clientVars, writerVars, headerVars, countVars>>

(* The listener reads a command.                                           *)
ReadRequest(c) ==
  /\ requests[c] # <<>> /\ requests' = [requests EXCEPT ![c] = Tail(@)]
  /\ SetMode(c, Head(requests[c]), FALSE)
  /\ UNCHANGED <<clientVars, writerVars, headerVars, countVars>>

MotionDetected(c) ==
  /\ motions < MaxMotions /\ motions' = motions + 1
  /\ SetMode(c, MODE_MOVIE, TRUE)
  /\ UNCHANGED <<clientVars, writerVars, requests, headerVars, presses>>

(* output_header reads the mode, and later the motion bit.                 *)
SampleMode(c) ==
  /\ sampled[c] = "none" /\ sampled' = [sampled EXCEPT ![c] = server[c].mode]
  /\ UNCHANGED <<headers, clientVars, writerVars, requests, server, countVars>>

SendModeByte(c) ==
  /\ sampled[c] # "none" /\ Len(headers[c]) < MaxHeaders
  /\ headers' = [headers EXCEPT ![c] =
                   Append(@, [movie |-> sampled[c] = MODE_MOVIE, motionBit |-> server[c].motion])]
  /\ sampled' = [sampled EXCEPT ![c] = "none"]
  /\ UNCHANGED <<clientVars, writerVars, requests, server, countVars>>

-----------------------------------------------------------------------------
Writer(c) == NextModeEnter(c) \/ NextModeReturn(c) \/ WriteRequest(c)
Streamer(c) == SampleMode(c) \/ SendModeByte(c)

Next ==
  \E c \in Cameras :
    \/ \E mode \in Modes : Press(c, mode)
    \/ Writer(c) \/ ReadHeader(c) \/ ReadRequest(c) \/ MotionDetected(c) \/ Streamer(c)

Spec == Init /\ [][Next]_vars

(* The threads of both sides go on, and the server goes on streaming.      *)
FairSpec ==
  /\ Spec
  /\ \A c \in Cameras :
       WF_vars(Writer(c)) /\ WF_vars(ReadHeader(c)) /\ WF_vars(ReadRequest(c)) /\ WF_vars(Streamer(c))

-----------------------------------------------------------------------------
TypeOK ==
  /\ clientMode \in [Cameras -> Modes] /\ motion \in [Cameras -> BOOLEAN]
  /\ writer \in [Cameras -> [at : Writing, mode : Modes]] /\ lost \in [Cameras -> BOOLEAN]
  /\ requests \in [Cameras -> Seq(Modes)]
  /\ server \in [Cameras -> [mode : Modes, motion : BOOLEAN]]
  /\ \A c \in Cameras : server[c].motion => server[c].mode = MODE_MOVIE
  /\ sampled \in [Cameras -> Sampled] /\ headers \in [Cameras -> Seq(Headers)]
  /\ presses \in 0 .. MaxPresses /\ motions \in 0 .. MaxMotions

(* The writer waits for another mode and nothing it wrote is under way.    *)
AtRest(c) == writer[c].at = "wait" /\ writer[c].mode = clientMode[c] /\ requests[c] = <<>>

(* Once the writer of a camera is at rest, client and server agree on the  *)
(* mode, but for a request that nextMode has lost, and for motion, by      *)
(* which the server alone goes to Movie.                                   *)
AgreeAtRest ==
  \A c \in Cameras :
    AtRest(c) => \/ server[c].mode = clientMode[c]
                 \/ lost[c]
                 \/ server[c].motion

(* The client learns of motion: while its reader has not reported any, a   *)
(* server that went to Movie by motion brings the camera to Movie, or goes *)
(* back to Idle first.                                                     *)
MotionGetsThrough ==
  \A c \in Cameras :
    server[c].motion /\ ~motion[c] ~> clientMode[c] = MODE_MOVIE \/ ~server[c].motion

(* A camera the client keeps in Idle is sent to Idle, or a request was     *)
(* lost; but for motion.                                                   *)
IdleGetsThrough ==
  \A c \in Cameras :
    clientMode[c] = MODE_IDLE ~>
      \/ server[c].mode = MODE_IDLE \/ clientMode[c] = MODE_MOVIE
      \/ lost[c] \/ server[c].motion

(* Each server changes its mode as ModeRegister says, which is what        *)
(* ModeHandler is shown to implement.                                      *)
ServersAreRegisters ==
  [][\A c \in Cameras : Register(c)!Next \/ UNCHANGED server[c]]_vars

(* The modes and the writers of the client are those of ClientModes, which *)
(* ClientMonitor is shown to implement.                                    *)
ClientIsClientModes == Client!Spec

(* The headers of each camera go from the server to the client's motion as *)
(* MotionReader says, which is what ServerReader is shown to implement.    *)
ReadersAreMotionReaders ==
  /\ \A c \in Cameras : Reader(c)!Init
  /\ [][\A c \in Cameras : Reader(c)!Next \/ UNCHANGED <<headers[c], motion[c]>>]_vars
=============================================================================
