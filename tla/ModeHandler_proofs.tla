------------------------- MODULE ModeHandler_proofs -------------------------
(***************************************************************************)
(* Proofs about ModeHandler, for any number of listener and motion         *)
(* threads.  The inductive invariant is the conjunction of five facts:     *)
(*   MutexOwner   who is inside set_mode and who is inside socket_set_mode *)
(*   CallerMode   the caller's request and the two copies of the mode      *)
(*   BitOwner     what the motion bit may be at each point of a change     *)
(*   SampleFresh  what output_header has read is still true, unless a      *)
(*                socket_set_mode came in between                          *)
(*   TornOnlyByOverlap (of ModeHandler)                                    *)
(***************************************************************************)
EXTENDS ModeHandler, TLAPS

MutexOwner ==
  /\ \A t \in Threads : InSetMode(t) <=> modeMutex = t
  /\ \A t \in Threads : pc[t] = "writing" <=> lock = t
  /\ lock = NoThread => pending = {}

(* In "callback" the copies differ, so socket_set_mode's own test for an   *)
(* unchanged mode never succeeds.                                          *)
CallerMode ==
  /\ modeMutex = NoThread => mode = streamMode
  /\ \A t \in Threads :
       /\ request[t].motion => request[t].mode = MODE_MOVIE
       /\ pc[t] = "leaving" => mode = streamMode
       /\ pc[t] \in {"callback", "writing"} => request[t].mode = mode
       /\ pc[t] = "callback" => streamMode # mode
       /\ pc[t] = "writing" => (streamMode = mode <=> "mode" \notin pending)

(* Until the bit is stored it belongs to the mode that is being left.      *)
BitOwner ==
  /\ modeMutex = NoThread /\ motionBit => mode = MODE_MOVIE
  /\ \A t \in Threads :
       /\ pc[t] = "leaving" /\ motionBit => mode = MODE_MOVIE
       /\ pc[t] = "callback" /\ motionBit => mode = MODE_IDLE
       /\ pc[t] = "writing" /\ motionBit =>
            mode = IF "motion_bit" \in pending THEN MODE_IDLE ELSE MODE_MOVIE

SampleFresh ==
  writer.sampled /\ ~writer.overlapped =>
    /\ lock = NoThread
    /\ writer.movie <=> streamMode = MODE_MOVIE

Inv == TypeOK /\ MutexOwner /\ CallerMode /\ BitOwner /\ SampleFresh /\ TornOnlyByOverlap
-----------------------------------------------------------------------------
LEMMA InvInit == Init => Inv
<1> SUFFICES ASSUME Init PROVE Inv
  OBVIOUS
<1> USE NoThreadAssumption DEF Init, Threads, InSetMode, MODE_IDLE, MODE_MOVIE
<1>1. TypeOK
  BY DEF TypeOK, Modes, Requests, Labels, Samples, Headers
<1>2. MutexOwner
  BY DEF MutexOwner
<1>3. CallerMode /\ BitOwner
  BY DEF CallerMode, BitOwner
<1>4. SampleFresh /\ TornOnlyByOverlap
  BY DEF SampleFresh, TornOnlyByOverlap
<1> QED
  BY <1>1, <1>2, <1>3, <1>4 DEF Inv

(* Every step of every thread, of the stream thread's header and of main   *)
(* keeps the invariant.                                                    *)
LEMMA InvNext == Inv /\ [Next]_vars => Inv'
<1> SUFFICES ASSUME Inv, [Next]_vars PROVE Inv'
  OBVIOUS
<1> USE NoThreadAssumption
<1> USE DEF Inv, TypeOK, Modes, Requests, Labels, Samples, Headers, Threads,
            MODE_IDLE, MODE_MOVIE, InSetMode
<1>1. ASSUME NEW t \in Threads, NEW m \in Modes, NEW d \in BOOLEAN, d => m = MODE_MOVIE, Call(t, m, d)
     PROVE  Inv'
  <2> USE <1>1 DEF Call
  <2>1. TypeOK'
    OBVIOUS
  <2>2. MutexOwner'
    BY DEF MutexOwner
  <2>3. CallerMode'
    BY DEF MutexOwner, CallerMode
  <2>4. BitOwner'
    BY DEF MutexOwner, CallerMode, BitOwner
  <2>5. SampleFresh'
    BY DEF MutexOwner, SampleFresh
  <2>6. TornOnlyByOverlap'
    BY DEF MutexOwner, CallerMode, BitOwner, SampleFresh, TornOnlyByOverlap
  <2> QED BY <2>1, <2>2, <2>3, <2>4, <2>5, <2>6
<1>2. ASSUME NEW t \in Threads, SetModeEnter(t)
     PROVE  Inv'
  <2> USE <1>2 DEF SetModeEnter
  <2>1. TypeOK'
    OBVIOUS
  <2>2. MutexOwner'
    BY DEF MutexOwner
  <2>3. CallerMode'
    BY DEF MutexOwner, CallerMode
  <2>4. BitOwner'
    BY DEF MutexOwner, CallerMode, BitOwner
  <2>5. SampleFresh'
    BY DEF MutexOwner, SampleFresh
  <2>6. TornOnlyByOverlap'
    BY DEF MutexOwner, CallerMode, BitOwner, SampleFresh, TornOnlyByOverlap
  <2> QED BY <2>1, <2>2, <2>3, <2>4, <2>5, <2>6
<1>3. ASSUME NEW t \in Threads, SocketSetModeEnter(t)
     PROVE  Inv'
  <2> streamMode # request[t].mode
    BY <1>3 DEF SocketSetModeEnter, CallerMode
  <2> /\ lock = NoThread /\ lock' = t
      /\ pending' = {"motion_bit", "mode"}
      /\ pc[t] = "callback" /\ pc' = [pc EXCEPT ![t] = "writing"]
      /\ writer' = [sampled |-> writer.sampled, movie |-> writer.movie, overlapped |-> TRUE]
      /\ UNCHANGED <<mode, modeMutex, streamMode, motionBit, request, header, closed>>
    BY <1>3 DEF SocketSetModeEnter
  <2>1. TypeOK'
    OBVIOUS
  <2>2. MutexOwner'
    BY DEF MutexOwner
  <2>3. CallerMode'
    BY DEF MutexOwner, CallerMode
  <2>4. BitOwner'
    BY DEF MutexOwner, CallerMode, BitOwner
  <2>5. SampleFresh'
    BY DEF MutexOwner, SampleFresh
  <2>6. TornOnlyByOverlap'
    BY DEF MutexOwner, CallerMode, BitOwner, SampleFresh, TornOnlyByOverlap
  <2> QED BY <2>1, <2>2, <2>3, <2>4, <2>5, <2>6
<1>4. ASSUME NEW t \in Threads, StoreMotionBit(t)
     PROVE  Inv'
  <2> USE <1>4 DEF StoreMotionBit, NewMotionBit
  <2>1. TypeOK'
    OBVIOUS
  <2>2. MutexOwner'
    BY DEF MutexOwner
  <2>3. CallerMode'
    BY DEF MutexOwner, CallerMode
  <2>4. BitOwner'
    BY DEF MutexOwner, CallerMode, BitOwner
  <2>5. SampleFresh'
    BY DEF MutexOwner, SampleFresh
  <2>6. TornOnlyByOverlap'
    BY DEF MutexOwner, CallerMode, BitOwner, SampleFresh, TornOnlyByOverlap
  <2> QED BY <2>1, <2>2, <2>3, <2>4, <2>5, <2>6
<1>5. ASSUME NEW t \in Threads, StoreMode(t)
     PROVE  Inv'
  <2> USE <1>5 DEF StoreMode
  <2>1. TypeOK'
    OBVIOUS
  <2>2. MutexOwner'
    BY DEF MutexOwner
  <2>3. CallerMode'
    BY DEF MutexOwner, CallerMode
  <2>4. BitOwner'
    BY DEF MutexOwner, CallerMode, BitOwner
  <2>5. SampleFresh'
    BY DEF MutexOwner, SampleFresh
  <2>6. TornOnlyByOverlap'
    BY DEF MutexOwner, CallerMode, BitOwner, SampleFresh, TornOnlyByOverlap
  <2> QED BY <2>1, <2>2, <2>3, <2>4, <2>5, <2>6
<1>6. ASSUME NEW t \in Threads, SocketSetModeLeave(t)
     PROVE  Inv'
  <2> USE <1>6 DEF SocketSetModeLeave
  <2>1. TypeOK'
    OBVIOUS
  <2>2. MutexOwner'
    BY DEF MutexOwner
  <2>3. CallerMode'
    BY DEF MutexOwner, CallerMode
  <2>4. BitOwner'
    BY DEF MutexOwner, CallerMode, BitOwner
  <2>5. SampleFresh'
    BY DEF MutexOwner, SampleFresh
  <2>6. TornOnlyByOverlap'
    BY DEF MutexOwner, CallerMode, BitOwner, SampleFresh, TornOnlyByOverlap
  <2> QED BY <2>1, <2>2, <2>3, <2>4, <2>5, <2>6
<1>7. ASSUME NEW t \in Threads, SetModeLeave(t)
     PROVE  Inv'
  <2> USE <1>7 DEF SetModeLeave
  <2>1. TypeOK'
    OBVIOUS
  <2>2. MutexOwner'
    BY DEF MutexOwner
  <2>3. CallerMode'
    BY DEF MutexOwner, CallerMode
  <2>4. BitOwner'
    BY DEF MutexOwner, CallerMode, BitOwner
  <2>5. SampleFresh'
    BY DEF MutexOwner, SampleFresh
  <2>6. TornOnlyByOverlap'
    BY DEF MutexOwner, CallerMode, BitOwner, SampleFresh, TornOnlyByOverlap
  <2> QED BY <2>1, <2>2, <2>3, <2>4, <2>5, <2>6
<1>8. CASE SampleMode
  <2> USE <1>8 DEF SampleMode, handlerVars
  <2>1. TypeOK'
    OBVIOUS
  <2>2. MutexOwner'
    BY DEF MutexOwner
  <2>3. CallerMode'
    BY DEF MutexOwner, CallerMode
  <2>4. BitOwner'
    BY DEF MutexOwner, CallerMode, BitOwner
  <2>5. SampleFresh'
    BY DEF MutexOwner, SampleFresh
  <2>6. TornOnlyByOverlap'
    BY DEF MutexOwner, CallerMode, BitOwner, SampleFresh, TornOnlyByOverlap
  <2> QED BY <2>1, <2>2, <2>3, <2>4, <2>5, <2>6
<1>9. CASE SendModeByte
  <2> USE <1>9 DEF SendModeByte, handlerVars
  <2>1. TypeOK'
    OBVIOUS
  <2>2. MutexOwner'
    BY DEF MutexOwner
  <2>3. CallerMode'
    BY DEF MutexOwner, CallerMode
  <2>4. BitOwner'
    BY DEF MutexOwner, CallerMode, BitOwner
  <2>5. SampleFresh'
    BY DEF MutexOwner, SampleFresh
  <2>6. TornOnlyByOverlap'
    BY DEF MutexOwner, CallerMode, BitOwner, SampleFresh, TornOnlyByOverlap
  <2> QED BY <2>1, <2>2, <2>3, <2>4, <2>5, <2>6
<1>10. CASE UNCHANGED <<handlerVars, writer, header>> /\ closed' \in BOOLEAN
  <2> USE <1>10 DEF handlerVars
  <2>1. TypeOK'
    OBVIOUS
  <2>2. MutexOwner'
    BY DEF MutexOwner
  <2>3. CallerMode' /\ BitOwner'
    BY DEF CallerMode, BitOwner
  <2>4. SampleFresh' /\ TornOnlyByOverlap'
    BY DEF SampleFresh, TornOnlyByOverlap
  <2> QED BY <2>1, <2>2, <2>3, <2>4
<1>11. closed \in BOOLEAN
  OBVIOUS
<1>12. MODE_MOVIE \in Modes
  OBVIOUS
<1> HIDE DEF Inv, TypeOK, Modes, Requests, Labels, Samples, Headers, Threads,
             MODE_IDLE, MODE_MOVIE, InSetMode
<1> QED
  <2>1. CASE \E t \in Listeners : ListenerCalls(t)
    BY <2>1, <1>1 DEF ListenerCalls, Threads
  <2>2. CASE \E t \in Motions : MotionCalls(t)
    BY <2>2, <1>1, <1>12 DEF MotionCalls, Threads
  <2>3. CASE \E t \in Threads : ThreadStep(t)
    BY <2>3, <1>2, <1>3, <1>4, <1>5, <1>6, <1>7 DEF ThreadStep
  <2>4. CASE CloseModeHandler \/ Returned \/ UNCHANGED vars
    BY <2>4, <1>10, <1>11 DEF CloseModeHandler, Returned, handlerVars, vars
  <2> QED
    BY <2>1, <2>2, <2>3, <2>4, <1>8, <1>9 DEF Next

-----------------------------------------------------------------------------
LEMMA InvAlways == Spec => []Inv
<1>1. Inv /\ [Next]_vars => Inv'
  BY InvNext
<1> QED
  BY <1>1, InvInit, PTL DEF Spec

(* Every variable keeps to its type.                                       *)
THEOREM TypeCorrect == Spec => []TypeOK
<1>1. Inv => TypeOK
  BY DEF Inv
<1> QED
  BY <1>1, InvAlways, PTL

(* However many listeners overlap with the motion thread, set_mode and the *)
(* callback under it are run by one thread at a time.                      *)
THEOREM SetModeExclusive == Spec => []OneThreadInSetMode
<1>1. Inv => OneThreadInSetMode
  BY DEF Inv, MutexOwner, OneThreadInSetMode
<1> QED
  BY <1>1, InvAlways, PTL

(* The two files' copies of the mode agree whenever mode_mutex is free.    *)
THEOREM CopiesAgree == Spec => []ModesAgree
<1>1. Inv => ModesAgree
  BY DEF Inv, CallerMode, ModesAgree
<1> QED
  BY <1>1, InvAlways, PTL

(* The motion bit is set in Movie only, whenever mode_mutex is free.       *)
THEOREM BitImpliesMovie == Spec => []MotionBitMeansMovie
<1>1. Inv => MotionBitMeansMovie
  BY DEF Inv, CallerMode, BitOwner, MotionBitMeansMovie
<1> QED
  BY <1>1, InvAlways, PTL

(* The lock-free reads of output_header contradict each other only when a  *)
(* socket_set_mode overlapped them.                                        *)
THEOREM HeaderConsistent == Spec => []TornOnlyByOverlap
<1>1. Inv => TornOnlyByOverlap
  BY DEF Inv
<1> QED
  BY <1>1, InvAlways, PTL

-----------------------------------------------------------------------------
(* A thread between the mode change and the store of the motion bit is the *)
(* owner of mode_mutex, so EffectiveMotion speaks of its request.          *)
OwnerMotion ==
  /\ modeMutex = NoThread => EffectiveMotion = motionBit
  /\ \A t \in Threads :
       /\ pc[t] = "callback" \/ (pc[t] = "writing" /\ "motion_bit" \in pending)
            => EffectiveMotion = NewMotionBit(request[t])
       /\ pc[t] = "leaving" \/ (pc[t] = "writing" /\ "motion_bit" \notin pending)
            => EffectiveMotion = motionBit

LEMMA EffectiveMotionOfOwner == Inv => OwnerMotion
  BY NoThreadAssumption DEF Inv, MutexOwner, InSetMode, OwnerMotion, EffectiveMotion, Threads

(* Every step of the threads, locks and stores is a step of the register   *)
(* or leaves it alone: only SetModeEnter with a new mode changes it.       *)
LEMMA RegisterStep == Inv /\ Inv' /\ [Next]_vars => [Register!Next]_(Register!vars)
<1>0. Inv' => OwnerMotion'
  BY EffectiveMotionOfOwner, PTL
<1> SUFFICES ASSUME Inv, Inv', [Next]_vars
             PROVE  Register!Next \/ UNCHANGED Register!vars
  OBVIOUS
<1> USE NoThreadAssumption
<1>1. OwnerMotion /\ OwnerMotion'
  BY <1>0, EffectiveMotionOfOwner
<1>2. MutexOwner /\ MutexOwner' /\ CallerMode /\ BitOwner /\ TypeOK
  BY DEF Inv
<1>3. ASSUME NEW t \in Threads, NEW m, NEW d, Call(t, m, d)
      PROVE  UNCHANGED Register!vars
  <2>1. modeMutex # t
    BY <1>2, <1>3 DEF Call, MutexOwner, InSetMode
  <2>2. /\ \A u \in Threads : pc'[u] \in {"callback", "writing"} <=> pc[u] \in {"callback", "writing"}
        /\ \A u \in Threads : u # t => pc'[u] = pc[u] /\ request'[u] = request[u]
        /\ UNCHANGED <<mode, modeMutex, motionBit, pending>>
    BY <1>2, <1>3 DEF Call, TypeOK
  <2>3. CASE modeMutex = NoThread
    BY <1>1, <2>2, <2>3 DEF OwnerMotion, Register!vars
  <2>4. CASE modeMutex \in Threads
    <3>1. pc[modeMutex] \in {"callback", "writing", "leaving"}
      BY <1>2, <2>4 DEF MutexOwner, InSetMode
    <3> QED
      BY <1>1, <2>1, <2>2, <2>4, <3>1 DEF OwnerMotion, Register!vars, NewMotionBit
  <2> QED
    BY <1>2, <2>3, <2>4 DEF TypeOK
<1>4. ASSUME NEW t \in Threads, SetModeEnter(t)
      PROVE  Register!Next \/ UNCHANGED Register!vars
  <2>1. /\ modeMutex = NoThread /\ UNCHANGED <<motionBit, pending, request>>
        /\ mode' = request[t].mode
        /\ pc'[t] = IF mode # mode' THEN "callback" ELSE "leaving"
    BY <1>2, <1>4 DEF SetModeEnter, TypeOK
  <2>2. CASE mode = mode'
    BY <1>1, <2>1, <2>2 DEF OwnerMotion, Register!vars
  <2>3. CASE mode # mode'
    <3>1. EffectiveMotion' = NewMotionBit(request[t])
      BY <1>1, <2>1, <2>3 DEF OwnerMotion, NewMotionBit
    <3>2. /\ motionBit => mode = MODE_MOVIE
          /\ request[t].motion => request[t].mode = MODE_MOVIE
          /\ request[t].motion \in BOOLEAN
          /\ mode \in {MODE_IDLE, MODE_MOVIE} /\ mode' \in {MODE_IDLE, MODE_MOVIE}
      BY <1>2, <2>1 DEF BitOwner, CallerMode, TypeOK, Requests, Modes
    <3>3. NewMotionBit(request[t]) = request[t].motion
      BY <2>1, <2>3, <3>2 DEF NewMotionBit, MODE_IDLE, MODE_MOVIE
    <3> QED
      BY <2>1, <2>3, <3>1, <3>2, <3>3 DEF Register!Next, Register!SetMode
  <2> QED
    BY <2>2, <2>3
<1>5. ASSUME NEW t \in Threads, SocketSetModeEnter(t)
      PROVE  UNCHANGED Register!vars
  <2>1. /\ pc[t] = "callback" /\ pc'[t] = "writing" /\ pending' = {"motion_bit", "mode"}
        /\ UNCHANGED <<mode, motionBit, request>>
    BY <1>2, <1>5 DEF SocketSetModeEnter, CallerMode, TypeOK
  <2> QED
    BY <1>1, <2>1 DEF OwnerMotion, Register!vars, NewMotionBit
<1>6. ASSUME NEW t \in Threads, StoreMotionBit(t)
      PROVE  UNCHANGED Register!vars
  BY <1>1, <1>6 DEF StoreMotionBit, OwnerMotion, Register!vars
<1>7. ASSUME NEW t \in Threads, StoreMode(t)
      PROVE  UNCHANGED Register!vars
  BY <1>1, <1>7 DEF StoreMode, OwnerMotion, Register!vars, NewMotionBit
<1>8. ASSUME NEW t \in Threads, SocketSetModeLeave(t)
      PROVE  UNCHANGED Register!vars
  BY <1>1, <1>2, <1>8 DEF SocketSetModeLeave, OwnerMotion, TypeOK, Register!vars
<1>9. ASSUME NEW t \in Threads, SetModeLeave(t)
      PROVE  UNCHANGED Register!vars
  BY <1>1, <1>9 DEF SetModeLeave, OwnerMotion, Register!vars
<1>10. ASSUME UNCHANGED handlerVars
       PROVE  UNCHANGED Register!vars
  BY <1>10 DEF handlerVars, Register!vars, EffectiveMotion, NewMotionBit
<1> QED
  <2>1. CASE \E t \in Threads : ThreadStep(t)
    BY <2>1, <1>4, <1>5, <1>6, <1>7, <1>8, <1>9 DEF ThreadStep
  <2>2. CASE (\E t \in Listeners : ListenerCalls(t)) \/ (\E t \in Motions : MotionCalls(t))
    BY <2>2, <1>3 DEF ListenerCalls, MotionCalls, Threads
  <2>3. CASE UNCHANGED handlerVars
    BY <2>3, <1>10
  <2> QED
    BY <2>1, <2>2, <2>3
    DEF Next, SampleMode, SendModeByte, CloseModeHandler, Returned, vars, handlerVars

(* set_mode with its callback, its locks and the threads that race through *)
(* it implements one register of mode and motion that changes atomically.  *)
THEOREM SetModeIsAtomic == Spec => ImplementsRegister
<1>1. Init => Register!Init
  BY DEF Init, Register!Init, EffectiveMotion
<1> QED
  BY <1>1, InvAlways, RegisterStep, PTL DEF Spec, ImplementsRegister, Register!Spec
=============================================================================
