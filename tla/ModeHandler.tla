---------------------------- MODULE ModeHandler ----------------------------
(***************************************************************************)
(* The camera server's mode of operation: set_mode and its callback list   *)
(* (mode_handler.c), the one callback main registers, socket_set_mode      *)
(* (socket_writer.c), and output_header, which reads what the callback     *)
(* writes without taking any lock.                                         *)
(*                                                                         *)
(* A thread's step goes from one lock operation, or one access to a        *)
(* variable that another thread reads without a lock, to the next.         *)
(* streamMode (the `mode' of socket_writer.c) and motionBit are written    *)
(* under `lock' but read by output_header without it, and one of the two   *)
(* is not volatile: the compiler may emit the two stores in either order,  *)
(* so `pending' holds the stores still to be made and either may be next.  *)
(***************************************************************************)
CONSTANTS
  Listeners,   \* the threads running stream_listener_callback
  Motions,     \* the threads running motion_callback (main starts one)
  NoThread     \* the owner of a mutex nobody holds

ASSUME NoThreadAssumption == NoThread \notin Listeners \cup Motions

MODE_IDLE == "MODE_IDLE"
MODE_MOVIE == "MODE_MOVIE"
Modes == {MODE_IDLE, MODE_MOVIE}
Threads == Listeners \cup Motions

VARIABLES
  mode,         \* mode_handler.c: mode, guarded by mode_mutex
  modeMutex,    \* owner of mode_mutex
  streamMode,   \* socket_writer.c: mode
  motionBit,    \* socket_writer.c: motion_bit is 2
  lock,         \* owner of socket_writer.c's lock
  pending,      \* stores the owner of lock has still to make
  pc,           \* where each thread is in set_mode
  request,      \* the arguments of each thread's last call of set_mode
  writer,       \* output_header in progress: what it has read so far
  header,       \* the mode byte of the last header sent
  closed        \* main has called close_mode_handler

vars == <<mode, modeMutex, streamMode, motionBit, lock, pending, pc, request,
          writer, header, closed>>

handlerVars == <<mode, modeMutex, streamMode, motionBit, lock, pending, pc, request>>

Requests == [mode : Modes, motion : BOOLEAN]
Labels == {"out", "calling", "callback", "writing", "leaving"}
(* `overlapped' is history: a socket_set_mode ran at some time between the *)
(* two reads of output_header.                                             *)
Samples == [sampled : BOOLEAN, movie : BOOLEAN, overlapped : BOOLEAN]
Headers == [movie : BOOLEAN, motion : BOOLEAN, overlapped : BOOLEAN]

(* After init_mode_handler and register_on_change_callback(socket_set_mode) *)
Init ==
  /\ mode = MODE_IDLE /\ streamMode = MODE_IDLE
  /\ motionBit = FALSE
  /\ modeMutex = NoThread /\ lock = NoThread
  /\ pending = {}
  /\ pc = [t \in Threads |-> "out"]
  /\ request = [t \in Threads |-> [mode |-> MODE_IDLE, motion |-> FALSE]]
  /\ writer = [sampled |-> FALSE, movie |-> FALSE, overlapped |-> FALSE]
  /\ header = [movie |-> FALSE, motion |-> FALSE, overlapped |-> FALSE]
  /\ closed = FALSE

Call(t, new_mode, motion_detected) ==
  /\ ~closed
  /\ pc[t] = "out"
  /\ pc' = [pc EXCEPT ![t] = "calling"]
  /\ request' = [request EXCEPT ![t] = [mode |-> new_mode, motion |-> motion_detected]]
  /\ UNCHANGED <<mode, modeMutex, streamMode, motionBit, lock, pending, writer, header, closed>>

(* '0' and '1' read from the client *)
ListenerCalls(t) == \E m \in Modes : Call(t, m, FALSE)

(* analyse_frames found more than MOTION_THRESHOLD *)
MotionCalls(t) == Call(t, MODE_MOVIE, TRUE)

(* Mutants: the path that finds the mode already set forgets MODE_UNLOCK;  *)
(* the callbacks are not called.                                           *)
SetModeEnter_KeepsLock(t) ==
  /\ ~closed
  /\ pc[t] = "calling"
  /\ modeMutex = NoThread
  /\ modeMutex' = t
  /\ mode' = request[t].mode
  /\ pc' = [pc EXCEPT ![t] = IF mode # request[t].mode THEN "callback" ELSE "out"]
  /\ UNCHANGED <<streamMode, motionBit, lock, pending, request, writer, header, closed>>

SetModeEnter_NoCallback(t) ==
  /\ ~closed
  /\ pc[t] = "calling"
  /\ modeMutex = NoThread
  /\ modeMutex' = t
  /\ mode' = request[t].mode
  /\ pc' = [pc EXCEPT ![t] = "leaving"]
  /\ UNCHANGED <<streamMode, motionBit, lock, pending, request, writer, header, closed>>

(* MODE_LOCK and, under it, the test and assignment of mode *)
SetModeEnter(t) ==
  /\ ~closed
  /\ pc[t] = "calling"
  /\ modeMutex = NoThread
  /\ modeMutex' = t
  /\ mode' = request[t].mode
  /\ pc' = [pc EXCEPT ![t] = IF mode # request[t].mode THEN "callback" ELSE "leaving"]
  /\ UNCHANGED <<streamMode, motionBit, lock, pending, request, writer, header, closed>>

(* socket_set_mode: the test made before taking lock, then lock *)
SocketSetModeEnter(t) ==
  /\ ~closed
  /\ pc[t] = "callback"
  /\ IF streamMode = request[t].mode
     THEN /\ pc' = [pc EXCEPT ![t] = "leaving"]
          /\ UNCHANGED <<lock, pending, writer>>
     ELSE /\ lock = NoThread
          /\ lock' = t
          /\ pending' = {"motion_bit", "mode"}
          /\ pc' = [pc EXCEPT ![t] = "writing"]
          /\ writer' = [sampled |-> writer.sampled, movie |-> writer.movie, overlapped |-> TRUE]
  /\ UNCHANGED <<mode, modeMutex, streamMode, motionBit, request, header, closed>>

(* Mutant: the bit is not taken back when the mode returns to Idle.        *)
NewMotionBit_Sticky(r) == r.motion \/ motionBit

(* What motion_bit holds once socket_set_mode has carried out request r *)
NewMotionBit(r) == r.mode # MODE_IDLE /\ (r.motion \/ motionBit)

StoreMotionBit(t) ==
  /\ ~closed
  /\ pc[t] = "writing" /\ "motion_bit" \in pending
  /\ motionBit' = NewMotionBit(request[t])
  /\ pending' = pending \ {"motion_bit"}
  /\ UNCHANGED <<mode, modeMutex, streamMode, lock, pc, request, writer, header, closed>>

StoreMode(t) ==
  /\ ~closed
  /\ pc[t] = "writing" /\ "mode" \in pending
  /\ streamMode' = request[t].mode
  /\ pending' = pending \ {"mode"}
  /\ UNCHANGED <<mode, modeMutex, motionBit, lock, pc, request, writer, header, closed>>

SocketSetModeLeave(t) ==
  /\ ~closed
  /\ pc[t] = "writing" /\ pending = {}
  /\ lock' = NoThread
  /\ pc' = [pc EXCEPT ![t] = "leaving"]
  /\ UNCHANGED <<mode, modeMutex, streamMode, motionBit, pending, request, writer, header, closed>>

(* MODE_UNLOCK *)
SetModeLeave(t) ==
  /\ ~closed
  /\ pc[t] = "leaving"
  /\ modeMutex' = NoThread
  /\ pc' = [pc EXCEPT ![t] = "out"]
  /\ UNCHANGED <<mode, streamMode, motionBit, lock, pending, request, writer, header, closed>>

(* output_header: md is computed from mode before the time is taken and    *)
(* twelve bytes are written; motion_bit is read only then.                 *)
SampleMode ==
  /\ ~closed
  /\ ~writer.sampled
  /\ writer' = [sampled |-> TRUE, movie |-> streamMode = MODE_MOVIE,
                overlapped |-> lock # NoThread]
  /\ UNCHANGED <<handlerVars, header, closed>>

SendModeByte ==
  /\ ~closed
  /\ writer.sampled
  /\ header' = [movie |-> writer.movie, motion |-> motionBit,
                overlapped |-> writer.overlapped]
  /\ writer' = [writer EXCEPT !.sampled = FALSE]
  /\ UNCHANGED <<handlerVars, closed>>

(* main frees the callback list and destroys mode_mutex just before it     *)
(* returns; no thread has been stopped.  What a thread does with them      *)
(* after that is undefined, and the model ends there.                      *)
CloseModeHandler ==
  /\ ~closed
  /\ closed' = TRUE
  /\ UNCHANGED <<handlerVars, writer, header>>

Returned == closed /\ UNCHANGED vars

ThreadStep(t) ==
  \/ SetModeEnter(t) \/ SocketSetModeEnter(t)
  \/ StoreMotionBit(t) \/ StoreMode(t)
  \/ SocketSetModeLeave(t) \/ SetModeLeave(t)

Next ==
  \/ \E t \in Listeners : ListenerCalls(t)
  \/ \E t \in Motions : MotionCalls(t)
  \/ \E t \in Threads : ThreadStep(t)
  \/ SampleMode \/ SendModeByte
  \/ CloseModeHandler
  \/ Returned

Spec == Init /\ [][Next]_vars

(* A thread inside set_mode keeps running; nothing makes one call it.      *)
FairSpec == Spec /\ \A t \in Threads : WF_vars(ThreadStep(t))

-----------------------------------------------------------------------------
TypeOK ==
  /\ mode \in Modes /\ streamMode \in Modes
  /\ motionBit \in BOOLEAN
  /\ modeMutex \in Threads \cup {NoThread}
  /\ lock \in Threads \cup {NoThread}
  /\ pending \in SUBSET {"motion_bit", "mode"}
  /\ pc \in [Threads -> Labels]
  /\ request \in [Threads -> Requests]
  /\ writer \in Samples
  /\ header \in Headers
  /\ closed \in BOOLEAN

InSetMode(t) == pc[t] \in {"callback", "writing", "leaving"}

(* set_mode runs in one thread at a time: mode_mutex serialises the        *)
(* listeners and the motion thread through the callback as well.           *)
OneThreadInSetMode ==
  \A t, u \in Threads : InSetMode(t) /\ InSetMode(u) => t = u

(* The two copies of the mode, mode_handler.c's and socket_writer.c's, are *)
(* the same whenever no set_mode is under way.                             *)
ModesAgree == modeMutex = NoThread => mode = streamMode

(* The motion bit never outlives Movie: with no set_mode under way a set   *)
(* bit means the server streams in Movie.                                  *)
MotionBitMeansMovie == modeMutex = NoThread /\ motionBit => streamMode = MODE_MOVIE

(* The two unlocked reads of output_header tell the truth unless a         *)
(* socket_set_mode fell between them: then, and only then, a header may    *)
(* carry the motion bit without the Movie bit.                             *)
TornOnlyByOverlap == ~header.overlapped => (header.motion => header.movie)

(* Every path of set_mode gives mode_mutex back.                           *)
MutexReleased == \A t \in Threads : (modeMutex = t) ~> (modeMutex # t \/ closed)

(* The refinement mapping: a mode change takes effect when mode_handler.c  *)
(* assigns mode; until the callback has stored the motion bit, the bit it  *)
(* is about to store stands for it.                                        *)
EffectiveMotion ==
  IF \E t \in Threads : pc[t] = "callback" \/ (pc[t] = "writing" /\ "motion_bit" \in pending)
  THEN NewMotionBit(request[modeMutex])
  ELSE motionBit

Register == INSTANCE ModeRegister WITH mode <- mode, motion <- EffectiveMotion

(* The threads and locks implement the register: each mode change is       *)
(* atomic, and its motion flag is that of the request that caused it.      *)
ImplementsRegister == Register!Spec
=============================================================================
