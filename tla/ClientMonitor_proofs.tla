------------------------ MODULE ClientMonitor_proofs ------------------------
(***************************************************************************)
(* Proofs about ClientMonitor, for any set of connected cameras, and about *)
(* SyncMode, the other half of the client's Monitor, at the end.           *)
(* WaitersAreUpToDate is inductive with the types.  For OneMotionLamp the  *)
(* invariant says where, inside changeMode, both lamps may be lit: between *)
(* its first two statements, and then camera 1 was the caller.             *)
(***************************************************************************)
EXTENDS ClientMonitor, SyncMode, TLAPS

LampOwner ==
  /\ motionDetected[1] /\ motionDetected[2] => task.method = "changeMode" /\ task.at = 2
  /\ task.method = "changeMode" /\ task.at = 2 /\ motionDetected[1] => task.server = 1

(* A call, an update and the Swing thread are in a model.                  *)
InModel ==
  /\ call.phase # "none" => call.camera \in Cameras
  /\ task.method = "update" => task.server \in Cameras
  /\ swing.at # "idle" => swing.camera \in Cameras

Inv == TypeOK /\ InModel /\ WaitersAreUpToDate /\ LampOwner
-----------------------------------------------------------------------------
ModeTypes ==
  /\ mode \in [Cameras -> Modes]
  /\ writer \in [Connected -> [at : {"enter", "wait", "woken", "write", "closed"}, mode : Modes]]

(* What a step does to modes and writers that sets modes and wakes all, or *)
(* leaves them alone.                                                      *)
LEMMA SetModesFacts ==
  ASSUME TypeOK, WaitersAreUpToDate, NEW cameras,
         \/ SetModes(cameras, MODE_MOVIE)
         \/ SetModes(cameras, MODE_IDLE)
         \/ UNCHANGED <<mode, writer>>
  PROVE  ModeTypes' /\ WaitersAreUpToDate'
<1>1. ASSUME NEW m \in Modes, SetModes(cameras, m)
      PROVE  ModeTypes' /\ WaitersAreUpToDate'
  BY <1>1 DEF TypeOK, SetModes, Wake, ModeTypes, WaitersAreUpToDate
<1>2. CASE UNCHANGED <<mode, writer>>
  BY <1>2 DEF TypeOK, ModeTypes, WaitersAreUpToDate
<1> QED
  BY <1>1, <1>2 DEF Modes

(* A flag of one model written, whichever it is.                           *)
LEMMA FlagWritten ==
  ASSUME NEW f \in [Cameras -> BOOLEAN], NEW c, NEW b \in BOOLEAN
  PROVE  [f EXCEPT ![c] = b] \in [Cameras -> BOOLEAN]
  OBVIOUS

LEMMA ButtonDrawn ==
  ASSUME TypeOK, NEW c, NEW movie \in BOOLEAN, DrawButton(c, movie)
  PROVE  /\ onOption' \in [Cameras -> BOOLEAN] /\ stale' \in [Cameras -> BOOLEAN]
         /\ \A d \in Cameras : d # c => onOption'[d] = onOption[d] /\ stale'[d] = stale[d]
         /\ c \in Cameras => onOption'[c] = movie /\ stale'[c] = (movie # movieModeOn[c])
  BY DEF DrawButton, TypeOK

(* Where a call goes on, and where it returns to, is a place in a call.    *)
LEMMA CallTypes ==
  ASSUME TypeOK
  PROVE  /\ \A phase \in Phases, depth \in 0 .. 2 : Within(phase, depth) \in Calls
         /\ call.depth \in 0 .. 2 /\ Return \in Calls
         /\ \A c \in Cameras : [camera |-> c, phase |-> "changed", depth |-> 1, shows |-> FALSE] \in Calls
  BY DEF TypeOK, Calls, Phases, Within, Return, NoCall

LEMMA InvInit == Init => Inv
  BY ConnectedAssumption
  DEF Init, Inv, InModel, TypeOK, WaitersAreUpToDate, LampOwner, NoTask, NoCall, SwingIdle, Tasks, Calls, Phases,
      Swings, Modes, MODE_IDLE, MODE_MOVIE, Cameras

(* Every step of every thread keeps the invariant.                         *)
LEMMA InvNext == Inv /\ [Next]_vars => Inv'
<1> SUFFICES ASSUME Inv, [Next]_vars PROVE Inv'
  OBVIOUS
<1> USE ConnectedAssumption
<1> USE DEF Inv, TypeOK, Tasks, Calls, Phases, Swings, Cameras, viewVars
<1>1. ASSUME NEW c \in Pressable, NEW movie \in BOOLEAN, Press(c, movie)
     PROVE  Inv'
  <2> USE <1>1 DEF Press, taskVars
  <2>1. TypeOK'
    OBVIOUS
  <2>2. WaitersAreUpToDate'
    BY DEF WaitersAreUpToDate
  <2>3. LampOwner'
    BY DEF LampOwner
  <2>9. InModel'
    BY DEF InModel
  <2> QED BY <2>1, <2>2, <2>3, <2>9
<1>2. ASSUME SwingSetChanged
     PROVE  Inv'
  <2> USE <1>2 DEF SwingSetChanged, taskVars
  <2>1. TypeOK'
    OBVIOUS
  <2>2. WaitersAreUpToDate'
    BY DEF WaitersAreUpToDate
  <2>3. LampOwner'
    BY DEF LampOwner
  <2>9. InModel'
    BY DEF InModel
  <2> QED BY <2>1, <2>2, <2>3, <2>9
<1>3. ASSUME SwingNotify
     PROVE  Inv'
  <2> USE <1>3 DEF SwingNotify, taskVars
  <2>0. \/ \E movie \in BOOLEAN : DrawButton(swing.camera, movie)
        \/ UNCHANGED viewVars
    BY DEF InModel
  <2>4. onOption' \in [Cameras -> BOOLEAN] /\ stale' \in [Cameras -> BOOLEAN]
    BY <2>0, ButtonDrawn
  <2>5. swing' \in Swings
    OBVIOUS
  <2>6. skipped' \in [Cameras -> BOOLEAN] /\ changed' \in [Cameras -> BOOLEAN]
    BY FlagWritten
  <2>1. TypeOK'
    BY <2>4, <2>5, <2>6
  <2>2. WaitersAreUpToDate'
    BY DEF WaitersAreUpToDate
  <2>3. LampOwner'
    BY DEF LampOwner
  <2>9. InModel'
    BY DEF InModel
  <2> QED BY <2>1, <2>2, <2>3, <2>9
<1>4. ASSUME SwingUpdateGui
     PROVE  Inv'
  <2> USE <1>4 DEF SwingUpdateGui, taskVars, Free
  <2>1. \/ SetModes({swing.camera}, MODE_MOVIE)
        \/ SetModes({swing.camera}, MODE_IDLE)
        \/ UNCHANGED <<mode, writer>>
    OBVIOUS
  <2>2. ModeTypes' /\ WaitersAreUpToDate'
    BY <2>1, SetModesFacts
  <2>6. \/ motionDetected' = motionDetected
        \/ motionDetected' = [motionDetected EXCEPT ![swing.camera] = FALSE]
    OBVIOUS
  <2>7. UNCHANGED <<movieModeOn, changed, skipped, onOption, stale>>
    OBVIOUS
  <2>8. motionDetected' \in [Cameras -> BOOLEAN]
    BY <2>6, FlagWritten
  <2>3. /\ (movieModeOn \in [Cameras -> BOOLEAN] /\ motionDetected \in [Cameras -> BOOLEAN])'
        /\ (changed \in [Cameras -> BOOLEAN] /\ skipped \in [Cameras -> BOOLEAN])'
        /\ (onOption \in [Cameras -> BOOLEAN] /\ stale \in [Cameras -> BOOLEAN])'
    BY <2>7, <2>8
  <2>4. (swing \in Swings)' /\ (task \in Tasks /\ call \in Calls)'
    OBVIOUS
  <2>5. LampOwner'
    BY DEF LampOwner
  <2>9. InModel'
    BY DEF InModel
  <2> QED BY <2>2, <2>3, <2>4, <2>5, <2>9 DEF ModeTypes
<1>5. ASSUME OwnerSetChanged
     PROVE  Inv'
  <2> USE <1>5 DEF OwnerSetChanged, Within, SettersRest
  <2>1. TypeOK'
    OBVIOUS
  <2>2. WaitersAreUpToDate'
    BY DEF WaitersAreUpToDate
  <2>3. LampOwner'
    BY DEF LampOwner
  <2>9. InModel'
    BY DEF InModel, Within
  <2> QED BY <2>1, <2>2, <2>3, <2>9
<1>6. ASSUME OwnerNotify
     PROVE  Inv'
  <2> USE <1>6 DEF OwnerNotify, SettersRest
  <2>0. /\ changed' = [changed EXCEPT ![call.camera] = FALSE]
        /\ call' = Within("view", call.depth) \/ call' = Return
    OBVIOUS
  <2>4. changed' \in [Cameras -> BOOLEAN]
    BY <2>0, FlagWritten
  <2>5. call' \in Calls
    BY <2>0, CallTypes
  <2>1. TypeOK'
    BY <2>4, <2>5
  <2>2. WaitersAreUpToDate'
    BY DEF WaitersAreUpToDate
  <2>3. LampOwner'
    BY DEF LampOwner
  <2>9. InModel'
    BY DEF InModel, Within, Return, NoCall
  <2> QED BY <2>1, <2>2, <2>3, <2>9
<1>7. ASSUME OwnerGuiOn
     PROVE  Inv'
  <2> USE <1>7 DEF OwnerGuiOn, modelVars
  <2>1. \/ SetModes({call.camera}, MODE_MOVIE)
        \/ SetModes({call.camera}, MODE_IDLE)
        \/ UNCHANGED <<mode, writer>>
    OBVIOUS
  <2>2. ModeTypes' /\ WaitersAreUpToDate'
    BY <2>1, SetModesFacts
  <2>3. /\ (movieModeOn \in [Cameras -> BOOLEAN] /\ motionDetected \in [Cameras -> BOOLEAN])'
        /\ (changed \in [Cameras -> BOOLEAN] /\ skipped \in [Cameras -> BOOLEAN])'
        /\ (onOption \in [Cameras -> BOOLEAN] /\ stale \in [Cameras -> BOOLEAN])'
    OBVIOUS
  <2>6. call' = Return \/ call' = Within("isOff", call.depth)
    OBVIOUS
  <2>4. (swing \in Swings)' /\ (task \in Tasks /\ call \in Calls)'
    BY <2>6, CallTypes
  <2>5. LampOwner'
    BY DEF LampOwner
  <2>9. InModel'
    BY DEF InModel, Within, Return, NoCall
  <2> QED BY <2>2, <2>3, <2>4, <2>5, <2>9 DEF ModeTypes
<1>8. ASSUME OwnerGuiOff
     PROVE  Inv'
  <2> USE <1>8 DEF OwnerGuiOff, SettersRest
  <2>1. /\ \/ motionDetected' = motionDetected
           \/ motionDetected' = [motionDetected EXCEPT ![call.camera] = FALSE]
        /\ call' = Return \/ call' = Within("changed", 2) \/ call' = Within("idle", call.depth)
    OBVIOUS
  <2>2. call' \in Calls
    BY <2>1, CallTypes
  <2>3. motionDetected' \in [Cameras -> BOOLEAN]
    BY <2>1, FlagWritten
  <2>4. TypeOK'
    BY <2>2, <2>3
  <2>5. WaitersAreUpToDate'
    BY DEF WaitersAreUpToDate
  <2>6. LampOwner'
    BY <2>1 DEF LampOwner
  <2>9. InModel'
    BY DEF InModel, Within, Return, NoCall
  <2> QED BY <2>4, <2>5, <2>6, <2>9
<1>9. ASSUME OwnerGuiIdle
     PROVE  Inv'
  <2> USE <1>9 DEF OwnerGuiIdle, Within, modelVars, Return, NoCall
  <2>1. \/ SetModes({call.camera}, MODE_MOVIE)
        \/ SetModes({call.camera}, MODE_IDLE)
        \/ UNCHANGED <<mode, writer>>
    OBVIOUS
  <2>2. ModeTypes' /\ WaitersAreUpToDate'
    BY <2>1, SetModesFacts
  <2>3. /\ (movieModeOn \in [Cameras -> BOOLEAN] /\ motionDetected \in [Cameras -> BOOLEAN])'
        /\ (changed \in [Cameras -> BOOLEAN] /\ skipped \in [Cameras -> BOOLEAN])'
        /\ (onOption \in [Cameras -> BOOLEAN] /\ stale \in [Cameras -> BOOLEAN])'
    OBVIOUS
  <2>4. (swing \in Swings)' /\ (task \in Tasks /\ call \in Calls)'
    OBVIOUS
  <2>5. LampOwner'
    BY DEF LampOwner
  <2>9. InModel'
    BY DEF InModel, Within, Return, NoCall
  <2> QED BY <2>2, <2>3, <2>4, <2>5, <2>9 DEF ModeTypes
<1>10. ASSUME NEW c \in Connected, ChangeModeEnter(c)
     PROVE  Inv'
  <2> USE <1>10 DEF ChangeModeEnter, Setter
  <2>1. TypeOK'
    OBVIOUS
  <2>2. WaitersAreUpToDate'
    BY DEF WaitersAreUpToDate
  <2>3. LampOwner'
    BY DEF LampOwner
  <2>9. InModel'
    BY DEF InModel
  <2> QED BY <2>1, <2>2, <2>3, <2>9
<1>11. ASSUME ChangeModeSecondLamp
     PROVE  Inv'
  <2> USE <1>11 DEF ChangeModeSecondLamp, InChangeMode, Setter
  <2>1. TypeOK'
    OBVIOUS
  <2>2. WaitersAreUpToDate'
    BY DEF WaitersAreUpToDate
  <2>3. LampOwner'
    BY DEF LampOwner
  <2>9. InModel'
    BY DEF InModel
  <2> QED BY <2>1, <2>2, <2>3, <2>9
<1>12. ASSUME NEW c \in Cameras, ChangeModeTest(c)
     PROVE  Inv'
  <2> USE <1>12 DEF ChangeModeTest, InChangeMode, modelVars
  <2>1. TypeOK'
    OBVIOUS
  <2>2. WaitersAreUpToDate'
    BY DEF WaitersAreUpToDate
  <2>3. LampOwner'
    BY DEF LampOwner
  <2>9. InModel'
    BY DEF InModel
  <2> QED BY <2>1, <2>2, <2>3, <2>9
<1>13. ASSUME NEW c \in Cameras, ChangeModeMovieOn(c)
     PROVE  Inv'
  <2> USE <1>13 DEF ChangeModeMovieOn, InChangeMode, Setter
  <2>1. TypeOK'
    OBVIOUS
  <2>2. WaitersAreUpToDate'
    BY DEF WaitersAreUpToDate
  <2>3. LampOwner'
    BY DEF LampOwner
  <2>9. InModel'
    BY DEF InModel
  <2> QED BY <2>1, <2>2, <2>3, <2>9
<1>14. ASSUME ChangeModeLeave
     PROVE  Inv'
  <2> USE <1>14 DEF ChangeModeLeave, InChangeMode, Leave, NoTask, modelVars
  <2>1. \/ SetModes(Cameras, MODE_MOVIE)
        \/ SetModes(Cameras, MODE_IDLE)
        \/ UNCHANGED <<mode, writer>>
    OBVIOUS
  <2>2. ModeTypes' /\ WaitersAreUpToDate'
    BY <2>1, SetModesFacts
  <2>3. /\ (movieModeOn \in [Cameras -> BOOLEAN] /\ motionDetected \in [Cameras -> BOOLEAN])'
        /\ (changed \in [Cameras -> BOOLEAN] /\ skipped \in [Cameras -> BOOLEAN])'
        /\ (onOption \in [Cameras -> BOOLEAN] /\ stale \in [Cameras -> BOOLEAN])'
    OBVIOUS
  <2>4. (swing \in Swings)' /\ (task \in Tasks /\ call \in Calls)'
    OBVIOUS
  <2>5. LampOwner'
    BY DEF LampOwner
  <2>9. InModel'
    BY DEF InModel
  <2> QED BY <2>2, <2>3, <2>4, <2>5, <2>9 DEF ModeTypes
<1>15. ASSUME NEW c \in Connected, UpdateEnter(c)
     PROVE  Inv'
  <2> USE <1>15 DEF UpdateEnter, Free, Setter, modelVars
  <2>1. TypeOK'
    OBVIOUS
  <2>2. WaitersAreUpToDate'
    BY DEF WaitersAreUpToDate
  <2>3. LampOwner'
    BY DEF LampOwner
  <2>9. InModel'
    BY DEF InModel
  <2> QED BY <2>1, <2>2, <2>3, <2>9
<1>16. ASSUME UpdateDelay
     PROVE  Inv'
  <2> USE <1>16 DEF UpdateDelay, Setter, modelVars
  <2>1. TypeOK'
    OBVIOUS
  <2>2. WaitersAreUpToDate'
    BY DEF WaitersAreUpToDate
  <2>3. LampOwner'
    BY DEF LampOwner
  <2>9. InModel'
    BY DEF InModel
  <2> QED BY <2>1, <2>2, <2>3, <2>9
<1>17. ASSUME UpdateLeave
     PROVE  Inv'
  <2> USE <1>17 DEF UpdateLeave, Leave, NoTask, modelVars
  <2>1. TypeOK'
    OBVIOUS
  <2>2. WaitersAreUpToDate'
    BY DEF WaitersAreUpToDate
  <2>3. LampOwner'
    BY DEF LampOwner
  <2>9. InModel'
    BY DEF InModel
  <2> QED BY <2>1, <2>2, <2>3, <2>9
<1>18. ASSUME AddFrame
     PROVE  Inv'
  <2> USE <1>18 DEF AddFrame, modelVars, taskVars
  <2>1. \/ SetModes({}, MODE_MOVIE)
        \/ SetModes({}, MODE_IDLE)
        \/ UNCHANGED <<mode, writer>>
    OBVIOUS
  <2>2. ModeTypes' /\ WaitersAreUpToDate'
    BY <2>1, SetModesFacts
  <2>3. /\ (movieModeOn \in [Cameras -> BOOLEAN] /\ motionDetected \in [Cameras -> BOOLEAN])'
        /\ (changed \in [Cameras -> BOOLEAN] /\ skipped \in [Cameras -> BOOLEAN])'
        /\ (onOption \in [Cameras -> BOOLEAN] /\ stale \in [Cameras -> BOOLEAN])'
    OBVIOUS
  <2>4. (swing \in Swings)' /\ (task \in Tasks /\ call \in Calls)'
    OBVIOUS
  <2>5. LampOwner'
    BY DEF LampOwner
  <2>9. InModel'
    BY DEF InModel
  <2> QED BY <2>2, <2>3, <2>4, <2>5, <2>9 DEF ModeTypes
<1>19. ASSUME NEW c \in Connected, Writer(c)
     PROVE  Inv'
  <2> USE <1>19 DEF Writer, NextModeEnter, NextModeWoken, WriteMode, WriteFails, WriterMoves, modelVars, taskVars
  <2>1. TypeOK'
    OBVIOUS
  <2>2. WaitersAreUpToDate'
    BY DEF WaitersAreUpToDate
  <2>3. LampOwner'
    BY DEF LampOwner
  <2>9. InModel'
    BY DEF InModel
  <2> QED BY <2>1, <2>2, <2>3, <2>9
<1>21. ASSUME SwingSelect
     PROVE  Inv'
  <2> USE <1>21 DEF SwingSelect, SwingIdle, modelVars, taskVars
  <2>4. swing.movie \in BOOLEAN
    OBVIOUS
  <2>1. TypeOK'
    BY <2>4, ButtonDrawn
  <2>2. WaitersAreUpToDate'
    BY DEF WaitersAreUpToDate
  <2>3. LampOwner'
    BY DEF LampOwner
  <2>9. InModel'
    BY DEF InModel
  <2> QED BY <2>1, <2>2, <2>3, <2>9
<1>22. ASSUME OwnerView
     PROVE  Inv'
  <2> USE <1>22 DEF OwnerView, SettersRest, modelVars
  <2>4. Within("draw", call.depth) \in Calls
    BY CallTypes
  <2>5. call' \in Calls
    BY <2>4 DEF Within, InModel
  <2>1. TypeOK'
    BY <2>5
  <2>2. WaitersAreUpToDate'
    BY DEF WaitersAreUpToDate
  <2>3. LampOwner'
    BY DEF LampOwner
  <2>9. InModel'
    BY DEF InModel, Within
  <2> QED BY <2>1, <2>2, <2>3, <2>9
<1>23. ASSUME OwnerDraw
     PROVE  Inv'
  <2> USE <1>23 DEF OwnerDraw, SettersRest, modelVars
  <2>4. call.shows \in BOOLEAN
    OBVIOUS
  <2>5. call' \in Calls
    BY CallTypes
  <2>1. TypeOK'
    BY <2>4, <2>5, ButtonDrawn
  <2>2. WaitersAreUpToDate'
    BY DEF WaitersAreUpToDate
  <2>3. LampOwner'
    BY DEF LampOwner
  <2>9. InModel'
    BY DEF InModel, Within
  <2> QED BY <2>1, <2>2, <2>3, <2>9
<1>20. CASE UNCHANGED vars
  BY <1>20 DEF vars, modelVars, taskVars, InModel, WaitersAreUpToDate, LampOwner
<1> HIDE DEF Inv
<1> QED
  BY <1>1, <1>2, <1>3, <1>4, <1>5, <1>6, <1>7, <1>8, <1>9, <1>10, <1>11, <1>12, <1>13, <1>14, <1>15, <1>16, <1>17, <1>18, <1>19, <1>20,
     <1>21, <1>22, <1>23
  DEF Next, Presses, MotionReports, Swing, Owner

-----------------------------------------------------------------------------
LEMMA InvAlways == Spec => []Inv
  BY InvInit, InvNext, PTL DEF Spec

(* Every variable keeps to its type.                                       *)
THEOREM TypeCorrect == Spec => []TypeOK
<1>1. Inv => TypeOK
  BY DEF Inv
<1> QED
  BY <1>1, InvAlways, PTL

(* No ServerWriter waits on a mode change that has already been made.      *)
THEOREM NoLostWakeup == Spec => []WaitersAreUpToDate
<1>1. Inv => WaitersAreUpToDate
  BY DEF Inv
<1> QED
  BY <1>1, InvAlways, PTL

(* With the monitor free, one camera at most shows detected motion.        *)
THEOREM OneLamp == Spec => []OneMotionLamp
<1>1. Inv => OneMotionLamp
  BY DEF Inv, LampOwner, OneMotionLamp, Free
<1> QED
  BY <1>1, InvAlways, PTL

-----------------------------------------------------------------------------
(* The buttons                                                             *)

(* A camera whose model and mode may differ for good reason: the Swing     *)
(* thread has not come to updateGui, or it has and has notified nobody.    *)
Excused(c) == skipped[c] \/ (swing.at \notin {"idle", "select"} /\ swing.camera = c)

Settled(c) == Agree(c) \/ Excused(c)

(* A call exists only under the lock.                                      *)
CallOK ==
  /\ call.phase = "none" => call = NoCall
  /\ call.phase # "none" => ~Free /\ call.depth \in {1, 2}

(* updateGui of c has read isMovieModeOn and found it off: the mode goes   *)
(* to Idle, unless it reads again and finds it on.                         *)
DecidesIdle(c) == call.camera = c /\ (call.depth = 2 \/ call.phase \in {"isOff", "idle"})

(* The model and the mode agree but where the method that has the lock    *)
(* is about to set the mode; then the model is as the mode will be.        *)
Settling(c) ==
  /\ Free => Settled(c)
  /\ task.method = "update" =>
       IF DecidesIdle(c) THEN ~movieModeOn[c] \/ Excused(c) ELSE Settled(c)
  /\ task.method = "changeMode" /\ task.at >= 2 * c + 3 => movieModeOn[c] \/ Excused(c)

(* The lock's owner has still to draw the button of c.                     *)
WillDraw(c) ==
  /\ call.camera = c
  /\ call.phase \in {"changed", "view", "draw"} \/ (call.phase = "notify" /\ changed[c])

(* A button shows the model, or was drawn too late, or is still to be      *)
(* drawn: by the owner, or by the Swing thread, which draws in any case.   *)
Drawn(c) == Shows(c) \/ stale[c] \/ WillDraw(c) \/ (swing.at # "idle" /\ swing.camera = c)

ButtonsInv ==
  /\ TypeOK /\ InModel /\ CallOK
  /\ \A c \in Cameras : Settling(c) /\ Drawn(c)

LEMMA ButtonsInit == Init => ButtonsInv
  BY InvInit
  DEF Init, Inv, ButtonsInv, CallOK, Settling, Settled, Agree, Drawn, Shows, Free, NoTask, NoCall,
      MODE_IDLE, MODE_MOVIE

(* Setting modes: those of the cameras named, and no others.               *)
LEMMA ModesSet ==
  ASSUME TypeOK, NEW cameras, NEW m, SetModes(cameras, m), NEW c \in Cameras
  PROVE  mode'[c] = IF c \in cameras THEN m ELSE mode[c]
  BY DEF SetModes

(* The steps of the Swing thread.                                          *)
LEMMA ButtonsSwing ==
  ASSUME ButtonsInv,
         \/ \E c \in Pressable, movie \in BOOLEAN : Press(c, movie)
         \/ Swing
  PROVE  CallOK' /\ \A c \in Cameras : Settling(c)'
<1> USE DEF ButtonsInv, TypeOK, InModel, Swings
<1>1. ASSUME NEW d \in Pressable, NEW movie \in BOOLEAN, Press(d, movie)
      PROVE  CallOK' /\ \A c \in Cameras : Settling(c)'
  <2> USE <1>1, ConnectedAssumption DEF Press, taskVars, Cameras
  <2>1. CallOK'
    BY DEF CallOK, Free, NoCall
  <2>2. ASSUME NEW c \in Cameras
        PROVE  Settling(c)'
    <3>1. CASE c = d
      BY <3>1 DEF Settling, Settled, Excused
    <3>2. CASE c # d
      <4>1. movieModeOn'[c] = movieModeOn[c] /\ mode' = mode /\ skipped' = skipped /\ task' = task /\ call' = call
        BY <3>2
      <4>2. Excused(c) => Excused(c)'
        BY <4>1 DEF Excused
      <4> QED BY <4>1, <4>2 DEF Settling, Settled, Agree, DecidesIdle, Free
    <3> QED BY <3>1, <3>2
  <2> QED BY <2>1, <2>2
<1>2. CASE SwingSetChanged
  <2> USE <1>2 DEF SwingSetChanged, taskVars
  <2>1. CallOK'
    BY DEF CallOK, Free, NoCall
  <2>2. ASSUME NEW c \in Cameras
        PROVE  Settling(c)'
    <3>1. Excused(c)' = Excused(c)
      BY DEF Excused
    <3> QED BY <3>1 DEF Settling, Settled, Agree, DecidesIdle, Free
  <2> QED BY <2>1, <2>2
<1>3. CASE SwingNotify
  <2> USE <1>3 DEF SwingNotify, taskVars
  <2>1. CallOK'
    BY DEF CallOK, Free, NoCall
  <2>2. ASSUME NEW c \in Cameras
        PROVE  Settling(c)'
    <3>1. Excused(c) => Excused(c)'
      BY DEF Excused
    <3> QED BY <3>1 DEF Settling, Settled, Agree, DecidesIdle, Free
  <2> QED BY <2>1, <2>2
<1>4. CASE SwingUpdateGui
  <2> USE <1>4 DEF SwingUpdateGui, taskVars
  <2>1. CallOK'
    BY DEF CallOK, Free, NoCall
  <2>2. ASSUME NEW c \in Cameras
        PROVE  Settled(c)'
    <3>1. CASE c = swing.camera
      <4>1. Agree(c)'
        BY <3>1, ModesSet DEF Agree, Modes, MODE_IDLE, MODE_MOVIE
      <4> QED BY <4>1 DEF Settled
    <3>2. CASE c # swing.camera
      <4>1. mode'[c] = mode[c]
        BY <3>2, ModesSet
      <4> QED BY <3>2, <4>1 DEF Settling, Settled, Agree, Excused
    <3> QED BY <3>1, <3>2
  <2>3. Free'
    BY DEF Free
  <2> QED BY <2>1, <2>2, <2>3 DEF Settling, Free
<1>5. CASE SwingSelect
  <2> USE <1>5 DEF SwingSelect, SwingIdle, taskVars, modelVars
  <2>1. CallOK'
    BY DEF CallOK, Free, NoCall
  <2>2. ASSUME NEW c \in Cameras
        PROVE  Settling(c)'
    <3>1. Excused(c)' = Excused(c)
      BY DEF Excused
    <3> QED BY <3>1 DEF Settling, Settled, Agree, DecidesIdle, Free
  <2> QED BY <2>1, <2>2
<1> QED BY <1>1, <1>2, <1>3, <1>4, <1>5 DEF Swing

(* What the lock's owner leaves alone: an excuse holds but for what it     *)
(* does to skipped.                                                        *)
LEMMA ExcuseKept ==
  ASSUME NEW c, UNCHANGED <<swing, skipped>>
  PROVE  Excused(c)' = Excused(c)
  BY DEF Excused

(* The steps inside a setter.                                              *)
LEMMA ButtonsCall ==
  ASSUME ButtonsInv,
         \/ OwnerSetChanged \/ OwnerNotify \/ OwnerView \/ OwnerDraw
         \/ OwnerGuiOn \/ OwnerGuiOff \/ OwnerGuiIdle
  PROVE  CallOK' /\ \A c \in Cameras : Settling(c)'
<1> USE DEF ButtonsInv, TypeOK, InModel, Swings, SettersRest, Within, NoCall
<1>1. CASE OwnerSetChanged
  <2> USE <1>1 DEF OwnerSetChanged
  <2>1. CallOK'
    BY DEF CallOK, Free
  <2>2. ASSUME NEW c \in Cameras
        PROVE  Settling(c)'
    BY ExcuseKept DEF Settling, Settled, Agree, DecidesIdle, Free
  <2> QED BY <2>1, <2>2
<1>2. CASE OwnerNotify
  <2> USE <1>2 DEF OwnerNotify
  <2>1. CallOK'
    BY DEF CallOK, Free, Return
  <2>2. ASSUME NEW c \in Cameras
        PROVE  Settling(c)'
    <3>1. DecidesIdle(c)' <=> DecidesIdle(c)
      BY DEF DecidesIdle, Return, CallOK
    <3> QED BY <3>1, ExcuseKept DEF Settling, Settled, Agree, Free
  <2> QED BY <2>1, <2>2
<1>3. CASE OwnerGuiOn
  <2> USE <1>3 DEF OwnerGuiOn, modelVars
  <2>1. CallOK'
    BY DEF CallOK, Free, Return
  <2>2. ASSUME NEW c \in Cameras
        PROVE  Settling(c)'
    <3>1. CASE c # call.camera
      <4>1. skipped'[c] = skipped[c] /\ mode'[c] = mode[c]
        BY <3>1, ModesSet
      <4>2. Excused(c)' = Excused(c) /\ Agree(c)' = Agree(c)
        BY <4>1 DEF Excused, Agree
      <4>3. ~DecidesIdle(c) /\ ~DecidesIdle(c)'
        BY <3>1, <2>1 DEF DecidesIdle, Return, CallOK
      <4> QED BY <4>2, <4>3 DEF Settling, Settled, Free
    <3>2. CASE c = call.camera /\ task.method = "update" /\ call.depth = 1
      <4>1. CASE movieModeOn[c]
        <5>1. mode'[c] = MODE_MOVIE
          BY <3>2, <4>1, ModesSet
        <5>2. Agree(c)' /\ ~DecidesIdle(c)'
          BY <3>2, <4>1, <5>1, ConnectedAssumption DEF Agree, DecidesIdle, Return
        <5> QED BY <3>2, <5>2 DEF Settling, Settled, Free
      <4>2. CASE ~movieModeOn[c]
        <5>1. DecidesIdle(c)' /\ ~movieModeOn'[c]
          BY <3>2, <4>2 DEF DecidesIdle
        <5> QED BY <3>2, <5>1 DEF Settling, Free
      <4> QED BY <4>1, <4>2
    <3>3. CASE c = call.camera /\ task.method = "update" /\ call.depth # 1
      <4>1. call.depth = 2 /\ DecidesIdle(c)
        BY <3>3 DEF CallOK, DecidesIdle
      <4>2. skipped' = skipped
        BY <4>1
      <4>3. Excused(c)' = Excused(c)
        BY <4>2, ExcuseKept
      <4>4. DecidesIdle(c)'
        BY <3>3, <4>1 DEF DecidesIdle, Return
      <4> QED BY <3>3, <4>1, <4>3, <4>4 DEF Settling, Free
    <3>4. CASE c = call.camera /\ task.method # "update"
      <4>1. skipped' = skipped
        BY <3>4
      <4>2. Excused(c)' = Excused(c)
        BY <4>1, ExcuseKept
      <4> QED BY <3>4, <4>2 DEF Settling, CallOK, Free
    <3> QED BY <3>1, <3>2, <3>3, <3>4
  <2> QED BY <2>1, <2>2
<1>4. CASE OwnerGuiOff
  <2> USE <1>4 DEF OwnerGuiOff
  <2>1. CallOK'
    BY DEF CallOK, Free, Return
  <2>2. ASSUME NEW c \in Cameras
        PROVE  Settling(c)'
    <3>1. Excused(c)' = Excused(c) /\ Agree(c)' = Agree(c)
      BY ExcuseKept DEF Agree
    <3>2. CASE c # call.camera
      <4>1. ~DecidesIdle(c) /\ ~DecidesIdle(c)'
        BY <3>2, <2>1 DEF DecidesIdle, Return, CallOK
      <4> QED BY <3>1, <4>1 DEF Settling, Settled, Free
    <3>3. CASE c = call.camera
      <4>1. DecidesIdle(c)
        BY <3>3 DEF DecidesIdle
      <4>2. DecidesIdle(c)' \/ movieModeOn[c] \/ mode[c] = MODE_IDLE
        BY <3>3 DEF DecidesIdle
      <4>3. ~movieModeOn[c] /\ mode[c] = MODE_IDLE => Agree(c)
        BY DEF Agree, MODE_IDLE, MODE_MOVIE
      <4> QED BY <3>1, <4>1, <4>2, <4>3 DEF Settling, Settled, Free
    <3> QED BY <3>2, <3>3
  <2> QED BY <2>1, <2>2
<1>5. CASE OwnerGuiIdle
  <2> USE <1>5 DEF OwnerGuiIdle, modelVars
  <2>1. CallOK'
    BY DEF CallOK, Free, Return
  <2>2. ASSUME NEW c \in Cameras
        PROVE  Settling(c)'
    <3>1. Excused(c)' = Excused(c)
      BY ExcuseKept
    <3>2. CASE c # call.camera
      <4>1. ~DecidesIdle(c) /\ ~DecidesIdle(c)'
        BY <3>2, <2>1 DEF DecidesIdle, Return, CallOK
      <4>2. Agree(c)' = Agree(c)
        BY <3>2, ModesSet DEF Agree
      <4> QED BY <3>1, <4>1, <4>2 DEF Settling, Settled, Free
    <3>3. CASE c = call.camera
      <4>1. DecidesIdle(c) /\ mode'[c] = MODE_IDLE
        BY <3>3, ModesSet DEF DecidesIdle
      <4>2. ~movieModeOn[c] => Agree(c)'
        BY <4>1 DEF Agree, MODE_IDLE, MODE_MOVIE
      <4>3. task' = task /\ movieModeOn' = movieModeOn /\ ~Free
        BY DEF CallOK
      <4> QED BY <3>1, <4>1, <4>2, <4>3 DEF Settling, Settled, Free
    <3> QED BY <3>2, <3>3
  <2> QED BY <2>1, <2>2
<1>6. CASE OwnerView \/ OwnerDraw
  <2> USE <1>6 DEF OwnerView, OwnerDraw, modelVars
  <2>1. CallOK'
    BY DEF CallOK, Free
  <2>2. ASSUME NEW c \in Cameras
        PROVE  Settling(c)'
    <3>1. DecidesIdle(c)' <=> DecidesIdle(c)
      BY DEF DecidesIdle
    <3> QED BY <3>1, ExcuseKept DEF Settling, Settled, Agree, Free
  <2> QED BY <2>1, <2>2
<1> QED BY <1>1, <1>2, <1>3, <1>4, <1>5, <1>6

(* The steps of the methods between the calls of setters.                  *)
LEMMA ButtonsMethods ==
  ASSUME ButtonsInv,
         \/ MotionReports
         \/ ChangeModeSecondLamp \/ ChangeModeLeave
         \/ \E c \in Cameras : ChangeModeTest(c) \/ ChangeModeMovieOn(c)
         \/ \E c \in Connected : UpdateEnter(c)
         \/ UpdateDelay \/ UpdateLeave
  PROVE  CallOK' /\ \A c \in Cameras : Settling(c)'
<1> USE DEF ButtonsInv, TypeOK, InModel, Swings, Tasks
<1>1. ASSUME NEW d \in Connected, ChangeModeEnter(d)
      PROVE  CallOK' /\ \A c \in Cameras : Settling(c)'
  <2> USE <1>1 DEF ChangeModeEnter, Setter
  <2>1. CallOK'
    BY DEF CallOK, Free, NoCall, Cameras
  <2>2. task'.method = "changeMode" /\ task'.at = 2
    OBVIOUS
  <2> QED BY <2>1, <2>2 DEF Settling, Cameras, Free
<1>2. CASE ChangeModeSecondLamp
  <2> USE <1>2 DEF ChangeModeSecondLamp, InChangeMode, Setter
  <2>1. CallOK'
    BY DEF CallOK, Free, NoCall, Cameras
  <2>2. task'.method = "changeMode" /\ task'.at = 3
    OBVIOUS
  <2> QED BY <2>1, <2>2 DEF Settling, Cameras, Free
<1>3. CASE ChangeModeLeave
  <2> USE <1>3 DEF ChangeModeLeave, InChangeMode, Leave, NoTask, modelVars
  <2>1. CallOK'
    BY DEF CallOK, Free, NoCall
  <2>2. ASSUME NEW c \in Cameras
        PROVE  Settled(c)'
    <3>1. movieModeOn[c] \/ Excused(c)
      BY DEF Settling, Cameras
    <3>2. movieModeOn'[c] = movieModeOn[c] /\ mode'[c] = MODE_MOVIE
      BY ModesSet
    <3> QED BY <3>1, <3>2, ExcuseKept DEF Settled, Agree
  <2> QED BY <2>1, <2>2 DEF Settling, Free
<1>4. ASSUME NEW d \in Cameras, ChangeModeTest(d)
      PROVE  CallOK' /\ \A c \in Cameras : Settling(c)'
  <2> USE <1>4 DEF ChangeModeTest, InChangeMode, modelVars
  <2>1. CallOK'
    BY DEF CallOK, Free, NoCall
  <2>2. ASSUME NEW c \in Cameras
        PROVE  Settling(c)'
    <3>1. task'.method = "changeMode"
      OBVIOUS
    <3>2. task'.at >= 2 * c + 3 => task.at >= 2 * c + 3 \/ movieModeOn[c]
      BY DEF Cameras
    <3> QED BY <3>1, <3>2, ExcuseKept DEF Settling, Free
  <2> QED BY <2>1, <2>2
<1>5. ASSUME NEW d \in Cameras, ChangeModeMovieOn(d)
      PROVE  CallOK' /\ \A c \in Cameras : Settling(c)'
  <2> USE <1>5 DEF ChangeModeMovieOn, InChangeMode, Setter
  <2>1. CallOK'
    BY DEF CallOK, Free, NoCall
  <2>2. ASSUME NEW c \in Cameras
        PROVE  Settling(c)'
    <3>1. task'.method = "changeMode"
      OBVIOUS
    <3>2. task'.at >= 2 * c + 3 => task.at >= 2 * c + 3 \/ c = d
      BY DEF Cameras
    <3>3. movieModeOn'[c] = IF c = d THEN TRUE ELSE movieModeOn[c]
      OBVIOUS
    <3> QED BY <3>1, <3>2, <3>3, ExcuseKept DEF Settling, Free
  <2> QED BY <2>1, <2>2
<1>6. ASSUME NEW d \in Connected, UpdateEnter(d)
      PROVE  CallOK' /\ \A c \in Cameras : Settling(c)'
  <2> USE <1>6, ConnectedAssumption DEF UpdateEnter, Setter, modelVars
  <2>1. CallOK'
    BY DEF CallOK, Free, NoCall, Cameras
  <2>2. ASSUME NEW c \in Cameras
        PROVE  Settling(c)'
    BY ExcuseKept DEF Settling, Settled, Agree, DecidesIdle, Free
  <2> QED BY <2>1, <2>2
<1>7. CASE UpdateDelay
  <2> USE <1>7 DEF UpdateDelay, Setter, modelVars
  <2>1. CallOK'
    BY DEF CallOK, Free, NoCall
  <2>2. ASSUME NEW c \in Cameras
        PROVE  Settling(c)'
    BY ExcuseKept DEF Settling, Settled, Agree, DecidesIdle, Free, CallOK, NoCall
  <2> QED BY <2>1, <2>2
<1>8. CASE UpdateLeave
  <2> USE <1>8 DEF UpdateLeave, Leave, NoTask, modelVars
  <2>1. CallOK'
    BY DEF CallOK, Free, NoCall
  <2>2. ASSUME NEW c \in Cameras
        PROVE  Settling(c)'
    BY ExcuseKept DEF Settling, Settled, Agree, DecidesIdle, Free, CallOK, NoCall
  <2> QED BY <2>1, <2>2
<1> QED BY <1>1, <1>2, <1>3, <1>4, <1>5, <1>6, <1>7, <1>8 DEF MotionReports

(* The steps of the writers, and addFrame, which sets no mode.             *)
LEMMA ButtonsRest ==
  ASSUME ButtonsInv,
         AddFrame \/ (\E c \in Connected : Writer(c)) \/ UNCHANGED vars
  PROVE  CallOK' /\ \A c \in Cameras : Settling(c)'
<1>1. /\ movieModeOn' = movieModeOn /\ swing' = swing /\ task' = task /\ call' = call
      /\ skipped' = skipped
  BY DEF AddFrame, Writer, NextModeEnter, NextModeWoken, WriteMode, WriteFails, WriterMoves,
         vars, modelVars, taskVars
<1>2. \A c \in Cameras : mode'[c] = mode[c]
  <2>1. CASE AddFrame
    BY <2>1, ModesSet DEF AddFrame, ButtonsInv
  <2>2. CASE ~AddFrame
    BY <2>2 DEF Writer, NextModeEnter, NextModeWoken, WriteMode, WriteFails, WriterMoves, vars
  <2> QED BY <2>1, <2>2
<1>3. CallOK'
  BY <1>1 DEF ButtonsInv, CallOK, Free, NoCall
<1>4. ASSUME NEW c \in Cameras
      PROVE  Settling(c)'
  BY <1>1, <1>2, ExcuseKept DEF ButtonsInv, Settling, Settled, Agree, DecidesIdle, Free
<1> QED BY <1>3, <1>4

(* Whatever changes a model, or takes a notification of it, leaves the     *)
(* button to be drawn by one of the two.                                   *)
LEMMA DrawnNext ==
  ASSUME ButtonsInv, [Next]_vars, NEW c \in Cameras
  PROVE  Drawn(c)'
<1> USE DEF ButtonsInv, TypeOK, InModel, Drawn, Shows
<1>1. CASE Presses \/ SwingSetChanged \/ SwingNotify
  <2>1. \/ UNCHANGED <<call, stale[c], onOption[c], movieModeOn[c], changed[c]>>
        \/ swing'.at # "idle" /\ swing'.camera = c
    <3>1. CASE Presses
      <4>1. PICK d \in Pressable, movie \in BOOLEAN : Press(d, movie)
        BY <3>1 DEF Presses
      <4> QED BY <4>1 DEF Press, taskVars
    <3>2. CASE SwingSetChanged
      BY <3>2 DEF SwingSetChanged, taskVars, viewVars, Swings
    <3>3. CASE SwingNotify
      BY <3>3 DEF SwingNotify, DrawButton, taskVars, viewVars, Swings
    <3> QED BY <1>1, <3>1, <3>2, <3>3
  <2>2. swing.at # "idle" => swing'.at # "idle" /\ swing'.camera = swing.camera
    BY <1>1 DEF Presses, Press, SwingSetChanged, SwingNotify, Swings
  <2> QED BY <2>1, <2>2 DEF WillDraw
<1>2. CASE SwingUpdateGui
  <2>1. UNCHANGED <<movieModeOn, changed, onOption, stale, call>>
    BY <1>2 DEF SwingUpdateGui, viewVars, taskVars
  <2>2. swing'.at # "idle" /\ swing'.camera = swing.camera
    BY <1>2 DEF SwingUpdateGui, Swings
  <2> QED BY <2>1, <2>2 DEF WillDraw
<1>3. CASE SwingSelect
  <2>1. UNCHANGED <<movieModeOn, changed, call>>
    BY <1>3 DEF SwingSelect, modelVars, taskVars
  <2>2. CASE c = swing.camera
    <3>1. DrawButton(c, swing.movie) /\ swing.movie \in BOOLEAN /\ UNCHANGED movieModeOn
      BY <1>3, <2>1, <2>2 DEF SwingSelect, Swings
    <3> QED BY <3>1, ButtonDrawn
  <2>3. CASE c # swing.camera
    BY <1>3, <2>1, <2>3 DEF SwingSelect, DrawButton, WillDraw
  <2> QED BY <2>2, <2>3
<1>4. CASE OwnerSetChanged \/ OwnerNotify \/ OwnerView
  <2>1. UNCHANGED <<movieModeOn, onOption, stale, swing>>
    BY <1>4 DEF OwnerSetChanged, OwnerNotify, OwnerView, SettersRest, modelVars, viewVars
  <2>2. WillDraw(c) => WillDraw(c)'
    BY <1>4 DEF OwnerSetChanged, OwnerNotify, OwnerView, SettersRest, Within, WillDraw, modelVars
  <2> QED BY <2>1, <2>2
<1>5. CASE OwnerDraw
  <2>1. UNCHANGED <<movieModeOn, changed, swing>>
    BY <1>5 DEF OwnerDraw, SettersRest, modelVars
  <2>2. CASE c = call.camera
    <3>1. DrawButton(c, call.shows) /\ call.shows \in BOOLEAN /\ UNCHANGED movieModeOn
      BY <1>5, <2>1, <2>2 DEF OwnerDraw, Calls
    <3> QED BY <3>1, ButtonDrawn
  <2>3. CASE c # call.camera
    BY <1>5, <2>1, <2>3 DEF OwnerDraw, DrawButton, WillDraw
  <2> QED BY <2>2, <2>3
<1>6. CASE OwnerGuiOn \/ OwnerGuiOff \/ OwnerGuiIdle
  <2>1. UNCHANGED <<movieModeOn, onOption, stale, swing>>
    BY <1>6 DEF OwnerGuiOn, OwnerGuiOff, OwnerGuiIdle, SettersRest, modelVars, viewVars
  <2>2. ~WillDraw(c)
    BY <1>6 DEF OwnerGuiOn, OwnerGuiOff, OwnerGuiIdle, WillDraw
  <2> QED BY <2>1, <2>2
<1>7. CASE \/ MotionReports \/ ChangeModeSecondLamp \/ ChangeModeLeave
           \/ \E d \in Cameras : ChangeModeTest(d)
           \/ \E d \in Connected : UpdateEnter(d)
           \/ UpdateDelay \/ UpdateLeave
  <2>1. UNCHANGED <<movieModeOn, onOption, stale, swing>>
    BY <1>7 DEF MotionReports, ChangeModeEnter, ChangeModeSecondLamp, ChangeModeLeave,
                ChangeModeTest, UpdateEnter, UpdateDelay, UpdateLeave, modelVars, viewVars
  <2>2. call.phase = "none"
    BY <1>7 DEF MotionReports, ChangeModeEnter, ChangeModeSecondLamp, ChangeModeLeave,
                ChangeModeTest, UpdateEnter, UpdateDelay, UpdateLeave, InChangeMode, CallOK
  <2> QED BY <2>1, <2>2 DEF WillDraw
<1>8. ASSUME NEW d \in Cameras, ChangeModeMovieOn(d)
      PROVE  Drawn(c)'
  <2>1. UNCHANGED <<onOption, stale, swing>> /\ call.phase = "none"
    BY <1>8 DEF ChangeModeMovieOn, InChangeMode, viewVars
  <2>2. CASE c = d
    BY <1>8, <2>2 DEF ChangeModeMovieOn, Setter, WillDraw
  <2>3. CASE c # d
    BY <1>8, <2>1, <2>3 DEF ChangeModeMovieOn, WillDraw
  <2> QED BY <2>2, <2>3
<1>9. CASE AddFrame \/ (\E d \in Connected : Writer(d)) \/ UNCHANGED vars
  <2>1. UNCHANGED <<movieModeOn, changed, onOption, stale, swing, call>>
    BY <1>9 DEF AddFrame, Writer, NextModeEnter, NextModeWoken, WriteMode, WriteFails,
                WriterMoves, vars, modelVars, viewVars, taskVars
  <2> QED BY <2>1 DEF WillDraw
<1> QED BY <1>1, <1>2, <1>3, <1>4, <1>5, <1>6, <1>7, <1>8, <1>9 DEF Next, Swing, Owner

LEMMA ButtonsNext == Inv /\ ButtonsInv /\ [Next]_vars => ButtonsInv'
<1> SUFFICES ASSUME Inv, ButtonsInv, [Next]_vars
             PROVE  ButtonsInv'
  OBVIOUS
<1>1. TypeOK' /\ InModel'
  BY InvNext DEF Inv
<1>2. CallOK' /\ \A c \in Cameras : Settling(c)'
  BY ButtonsSwing, ButtonsCall, ButtonsMethods, ButtonsRest DEF Next, Presses, Owner
<1>3. \A c \in Cameras : Drawn(c)'
  BY DrawnNext
<1> QED BY <1>1, <1>2, <1>3 DEF ButtonsInv

(* However presses, headers with motion, frames and writers interleave,    *)
(* once the Swing thread and the monitor rest a camera's model has its     *)
(* mode, unless the Swing thread's notifyObservers found its flag cleared, *)
(* and its button shows what the model has, unless the thread that drew it *)
(* last drew what the other had already changed (CameraControlModel.java   *)
(* has no lock around its setters, and SwitchButton.actionPerformed draws  *)
(* what was pressed, whatever the model has become).                       *)
THEOREM ButtonsAreRight == Spec => []ButtonsShowMode
<1>1. ButtonsInv => ButtonsShowMode
  BY DEF ButtonsInv, CallOK, Settling, Settled, Excused, Drawn, WillDraw, ButtonsShowMode
<1> QED BY InvInit, InvNext, ButtonsInit, ButtonsNext, <1>1, PTL DEF Spec

-----------------------------------------------------------------------------
(* The monitor as the writers see it                                       *)

(* Waking a writer is nothing to ClientModes.                              *)
LEMMA WakingHidden ==
  ASSUME NEW cameras, NEW m, SetModes(cameras, m)
  PROVE  UNCHANGED WriterAhead
  BY DEF SetModes, Wake, WriterAhead

(* Outside changeMode, the mode of one camera set is a request.            *)
LEMMA OneModeSet ==
  ASSUME TypeOK, task.method # "changeMode", UNCHANGED task, NEW c, NEW m \in Modes,
         SetModes({c}, m)
  PROVE  Client!Next \/ UNCHANGED Client!vars
<1>1. UNCHANGED WriterAhead
  BY WakingHidden
<1>2. ModesAhead = mode /\ ModesAhead' = mode'
  BY DEF ModesAhead
<1>3. CASE c \in Cameras
  <2>1. mode' = [mode EXCEPT ![c] = m]
    BY <1>3 DEF SetModes, TypeOK
  <2>2. Client!Request(c, m)
    BY <1>1, <1>2, <2>1 DEF Client!Request
  <2> QED BY <1>3, <2>2 DEF Client!Next, Modes
<1>4. CASE c \notin Cameras
  <2>1. mode' = mode
    BY <1>4 DEF SetModes, TypeOK
  <2> QED BY <1>1, <1>2, <2>1 DEF Client!vars
<1> QED BY <1>3, <1>4

(* What leaves modes, writers and the method that runs alone.              *)
LEMMA NothingSeen ==
  ASSUME UNCHANGED <<mode, writer>>, task.method' = task.method
  PROVE  UNCHANGED Client!vars
  BY DEF Client!vars, ModesAhead, WriterAhead

(* A step that sets one camera's mode, or none, in a method that goes on.  *)
LEMMA OneModeAtMost ==
  ASSUME TypeOK, UNCHANGED task, NEW c, NEW m \in Modes,
         SetModes({c}, m) \/ UNCHANGED <<mode, writer>>
  PROVE  Client!Next \/ UNCHANGED Client!vars
<1>1. CASE UNCHANGED <<mode, writer>>
  BY <1>1, NothingSeen
<1>2. CASE SetModes({c}, m) /\ task.method # "changeMode"
  BY <1>2, OneModeSet
<1>3. CASE SetModes({c}, m) /\ task.method = "changeMode"
  <2>1. UNCHANGED WriterAhead
    BY <1>3, WakingHidden
  <2>2. UNCHANGED ModesAhead
    BY <1>3 DEF ModesAhead
  <2> QED BY <2>1, <2>2 DEF Client!vars
<1> QED BY <1>1, <1>2, <1>3

(* What a writer does is what ClientModes says, as it has the lock when it *)
(* looks at the mode.                                                      *)
LEMMA WriterStep ==
  ASSUME TypeOK, NEW c \in Connected, Writer(c)
  PROVE  Client!Next \/ UNCHANGED Client!vars
<1> USE DEF Client!WriterGoes, WriterMoves
<1>1. UNCHANGED ModesAhead /\ (Free => ModesAhead = mode)
  BY DEF Writer, NextModeEnter, NextModeWoken, WriteMode, WriteFails, ModesAhead, taskVars, Free
<1>2. WriterAhead[c].mode = writer[c].mode
  BY DEF WriterAhead
<1>3. ASSUME NEW place, NEW to, NEW m,
             writer' = [writer EXCEPT ![c] = [at |-> place, mode |-> m]],
             to = IF place = "woken" THEN "wait" ELSE place
      PROVE  WriterAhead' = [WriterAhead EXCEPT ![c] = [at |-> to, mode |-> m]]
  BY <1>3 DEF WriterAhead, TypeOK
<1>4. CASE NextModeEnter(c)
  <2>1. WriterAhead[c].at = "enter"
    BY <1>4 DEF NextModeEnter, WriterAhead
  <2>2. WriterAhead' = [WriterAhead EXCEPT ![c] = [at |-> "wait", mode |-> mode[c]]]
    BY <1>3, <1>4 DEF NextModeEnter
  <2>3. Client!NextModeEnter(c)
    BY <1>1, <1>4, <2>1, <2>2 DEF NextModeEnter, Client!NextModeEnter
  <2> QED BY <2>3 DEF Client!Next
<1>5. CASE NextModeWoken(c) /\ mode[c] # writer[c].mode
  <2>1. WriterAhead[c].at = "wait"
    BY <1>5 DEF NextModeWoken, WriterAhead
  <2>2. WriterAhead' = [WriterAhead EXCEPT ![c] = [at |-> "write", mode |-> mode[c]]]
    BY <1>3, <1>5 DEF NextModeWoken
  <2>3. Client!NextModeReturn(c)
    BY <1>1, <1>2, <1>5, <2>1, <2>2 DEF NextModeWoken, Client!NextModeReturn
  <2> QED BY <2>3 DEF Client!Next
<1>6. CASE NextModeWoken(c) /\ mode[c] = writer[c].mode
  <2>1. UNCHANGED WriterAhead
    BY <1>6 DEF NextModeWoken, WriterAhead, TypeOK
  <2> QED BY <1>1, <2>1 DEF Client!vars
<1>7. CASE WriteMode(c)
  <2>1. WriterAhead[c].at = "write"
    BY <1>7 DEF WriteMode, WriterAhead
  <2>2. WriterAhead' = [WriterAhead EXCEPT ![c] = [at |-> "enter", mode |-> writer[c].mode]]
    BY <1>3, <1>7 DEF WriteMode
  <2>3. Client!WriteRequest(c)
    BY <1>1, <1>2, <2>1, <2>2 DEF Client!WriteRequest
  <2> QED BY <2>3 DEF Client!Next
<1>8. CASE WriteFails(c)
  <2>1. WriterAhead[c].at = "write"
    BY <1>8 DEF WriteFails, WriterAhead
  <2>2. WriterAhead' = [WriterAhead EXCEPT ![c] = [at |-> "closed", mode |-> writer[c].mode]]
    BY <1>3, <1>8 DEF WriteFails
  <2>3. Client!WriteFails(c)
    BY <1>1, <1>2, <2>1, <2>2 DEF Client!WriteFails
  <2> QED BY <2>3 DEF Client!Next
<1> QED BY <1>4, <1>5, <1>6, <1>7, <1>8 DEF Writer

(* Every step of every thread is a step of ClientModes or nothing to it:   *)
(* motion is reported when changeMode is entered, and the modes are then   *)
(* what it will leave behind.                                              *)
LEMMA ClientStep == Inv /\ [Next]_vars => [Client!Next]_(Client!vars)
<1> SUFFICES ASSUME Inv, [Next]_vars
             PROVE  Client!Next \/ UNCHANGED Client!vars
  OBVIOUS
<1> USE DEF Inv
<1>1. CASE Presses \/ SwingSetChanged \/ SwingNotify \/ SwingSelect \/ UNCHANGED vars
  BY <1>1, NothingSeen DEF Presses, Press, SwingSetChanged, SwingNotify, SwingSelect, taskVars, vars
<1>2. CASE SwingUpdateGui
  <2>1. UNCHANGED task /\ \E m \in Modes : SetModes({swing.camera}, m) \/ UNCHANGED <<mode, writer>>
    BY <1>2 DEF SwingUpdateGui, taskVars, Modes
  <2> QED BY <2>1, OneModeAtMost
<1>3. CASE OwnerSetChanged \/ OwnerNotify \/ OwnerView \/ OwnerDraw \/ OwnerGuiOff
  BY <1>3, NothingSeen
  DEF OwnerSetChanged, OwnerNotify, OwnerView, OwnerDraw, OwnerGuiOff, SettersRest
<1>4. CASE OwnerGuiOn \/ OwnerGuiIdle
  <2>1. UNCHANGED task /\ \E m \in Modes : SetModes({call.camera}, m) \/ UNCHANGED <<mode, writer>>
    BY <1>4 DEF OwnerGuiOn, OwnerGuiIdle, Modes
  <2> QED BY <2>1, OneModeAtMost
<1>5. CASE MotionReports
  <2>1. UNCHANGED WriterAhead
    BY <1>5 DEF MotionReports, ChangeModeEnter, WriterAhead
  <2>2. ModesAhead' = Client!AllMovie
    BY <1>5 DEF MotionReports, ChangeModeEnter, ModesAhead, Client!AllMovie
  <2>3. Client!MotionReported
    BY <2>1, <2>2 DEF Client!MotionReported
  <2> QED BY <2>3 DEF Client!Next
<1>6. CASE \/ ChangeModeSecondLamp \/ UpdateDelay
           \/ \E c \in Cameras : ChangeModeTest(c) \/ ChangeModeMovieOn(c)
  <2>1. UNCHANGED <<mode, writer>> /\ task.method' = task.method
    BY <1>6 DEF ChangeModeSecondLamp, UpdateDelay, ChangeModeTest, ChangeModeMovieOn, TypeOK, Tasks
  <2> QED BY <2>1, NothingSeen
<1>7. CASE ChangeModeLeave
  <2>1. UNCHANGED WriterAhead
    BY <1>7, WakingHidden DEF ChangeModeLeave
  <2>2. UNCHANGED ModesAhead
    BY <1>7 DEF ChangeModeLeave, SetModes, InChangeMode, Leave, NoTask, ModesAhead
  <2> QED BY <2>1, <2>2 DEF Client!vars
<1>8. CASE UpdateLeave \/ \E c \in Connected : UpdateEnter(c)
  <2>1. UNCHANGED <<mode, writer>> /\ UNCHANGED ModesAhead
    BY <1>8 DEF UpdateLeave, UpdateEnter, Leave, NoTask, ModesAhead, Free
  <2> QED BY <2>1 DEF Client!vars, WriterAhead
<1>9. CASE AddFrame
  <2>1. UNCHANGED WriterAhead
    BY <1>9, WakingHidden DEF AddFrame
  <2>2. mode' = mode /\ task' = task
    BY <1>9 DEF AddFrame, SetModes, taskVars, TypeOK
  <2> QED BY <2>1, <2>2 DEF Client!vars, ModesAhead
<1>10. CASE \E c \in Connected : Writer(c)
  BY <1>10, WriterStep
<1> QED
  BY <1>1, <1>2, <1>3, <1>4, <1>5, <1>6, <1>7, <1>8, <1>9, <1>10 DEF Next, Swing, Owner

(* Monitor.java, its setters, notifications and the threads that meet in   *)
(* them implement one mode per camera that changes at once, and a nextMode *)
(* that returns nothing but a new mode.                                    *)
THEOREM ModesAreAtomic == Spec => ImplementsClientModes
<1>1. Init => Client!Init
  BY DEF Init, Client!Init, ModesAhead, WriterAhead, NoTask
<1> QED
  BY <1>1, InvInit, InvNext, ClientStep, PTL DEF Spec, ImplementsClientModes, Client!Spec

-----------------------------------------------------------------------------
(* The settings.  What SyncMode says of a state in which neither thread is *)
(* in a call is not inductive: it says nothing of a call that is under way.*)
(* The inductive invariant adds what a thread in a call still owes.        *)

(* Where each thread can be, and what it can hold there.                   *)
Places ==
  /\ at["swing"] # "asleep"
  /\ at["updater"] \notin {"toggle", "setAuto", "selectOn", "selectOff"}
  /\ at["swing"] \in {"toggle", "setAuto"} => pressed = "Auto"
  /\ at["swing"] \in {"setSync", "selectOn", "selectOff"} => pressed # "Auto"
  /\ at["swing"] \in {"idle", "selectOn", "selectOff"} => monitor.owner # "swing"
  /\ ~InCall("updater") => monitor.owner # "updater"

(* From setChanged on a thread will come to Monitor.updateGui, unless the  *)
(* other has taken its notification, and then that one will.               *)
Updating == {"readSync", "activeOn", "activeOff", "readAuto", "activate", "select", "updateGui", "takeSync"}
ComingToUpdate(t) == at[t] \in Updating \cup {"setChanged"} \/ (at[t] = "notify" /\ settings.changed)

(* A mode the monitor does not have is still to be taken by updateGui, or  *)
(* is the Updater's, which has it in the monitor first.                    *)
ModeIsComing ==
  monitor.currentState # settings.syncModeOn =>
    at["updater"] = "setSync" \/ \E t \in Threads : ComingToUpdate(t)

(* The automatic mode, switched on, is still to be taken or reset.         *)
AutoIsComing ==
  settings.autoActivated /\ ~monitor.syncAuto =>
    \E t \in Threads : ComingToUpdate(t) \/ at[t] \in {"isAuto", "resetAuto", "testAuto", "takeAuto"}

(* The mode a call is for, when the calls do not overlap.                  *)
ModeOf(t) == IF t = "swing" /\ pressed # "Auto" THEN pressed = "Synchronous" ELSE monitor.currentState

Updated == {"updateGui", "takeSync", "isAuto", "testAuto", "takeAuto", "returnGui", "selectOn", "selectOff"}

(* What a thread has got done at each point of a call that overlaps no     *)
(* other.                                                                  *)
AloneIn(t) ==
  /\ IF at[t] = "setSync" THEN argument[t] = ModeOf(t) ELSE settings.syncModeOn = ModeOf(t)
  /\ at[t] = "notify" => settings.changed
  /\ at[t] \in {"activeOn", "activeOff"} => argument[t] = settings.syncModeOn
  /\ at[t] \in Updated \cup {"activeOff", "readAuto", "activate", "select"} =>
       buttons.onOption = settings.syncModeOn
  /\ at[t] \in Updated \cup {"readAuto", "activate", "select"} =>
       buttons.offOption = ~settings.syncModeOn
  /\ at[t] \in {"activate", "select"} => argument[t] = settings.autoActivated
  /\ at[t] \in Updated \cup {"select"} => buttons.auto = settings.autoActivated
  /\ at[t] \in Updated => buttons.selected = settings.autoActivated
  /\ t = "updater" \/ pressed = "Auto" => at[t] \notin {"takeSync", "isAuto", "resetAuto"}
  /\ at[t] = "returnGui" => monitor.syncAuto = settings.autoActivated

Alone ==
  ~overlapped =>
    /\ ~InCall("swing") \/ ~InCall("updater")
    /\ \A t \in Threads : InCall(t) => AloneIn(t)

(* A choice is made by a press that overlaps nothing: either the monitor   *)
(* is still to take it, or has taken it and the automatic mode is off, or  *)
(* about to be reset.                                                      *)
ChoiceMade ==
  choice # "none" =>
    /\ ~overlapped /\ ~InCall("updater") /\ pressed = choice
    /\ IF monitor.currentState # (choice = "Synchronous")
       THEN /\ at["swing"] \in Updating \cup {"setSync", "setChanged", "notify"}
            /\ settings.autoActivated = monitor.syncAuto
       ELSE /\ at["swing"] # "takeSync"
            /\ at["swing"] = "isAuto" => settings.autoActivated = monitor.syncAuto
            /\ at["swing"] \notin {"isAuto", "resetAuto"} => ~settings.autoActivated
            /\ at["swing"] \in {"idle", "returnGui", "selectOn", "selectOff"} => ~monitor.syncAuto

SyncInv ==
  /\ SyncTypeOK /\ Places /\ ModeIsComing /\ AutoIsComing /\ Alone /\ ChoiceMade
  /\ ButtonsShowSettings /\ MonitorFollowsSettings

(* The types, for each way a step is made.                                 *)
LEMMA StoreTypes ==
  ASSUME SyncTypeOK, NEW t \in Threads, NEW from, NEW to \in Labels \ {"idle", "asleep"},
         NEW setting \in {"syncModeOn", "autoActivated", "changed"}, NEW value \in BOOLEAN,
         Store(t, from, to, setting, value)
  PROVE  SyncTypeOK'
  BY DEF SyncTypeOK, Labels, Store, Go, InCall, threadVars, historyVars

LEMMA DrawTypes ==
  ASSUME SyncTypeOK, NEW t \in Threads, NEW from, NEW to \in Labels \ {"idle", "asleep"},
         NEW button \in {"onOption", "offOption", "auto", "selected"}, NEW value \in BOOLEAN,
         Draw(t, from, to, button, value)
  PROVE  SyncTypeOK'
  BY DEF SyncTypeOK, Labels, Draw, Go, InCall, threadVars, historyVars

LEMMA ReadTypes ==
  ASSUME SyncTypeOK, NEW t \in Threads, NEW from, NEW to \in Labels \ {"idle", "asleep"},
         NEW setting \in {"syncModeOn", "autoActivated"},
         Read(t, from, to, setting)
  PROVE  SyncTypeOK'
  BY DEF SyncTypeOK, Labels, Read, Go, InCall, threadVars, historyVars

LEMMA EndCallTypes ==
  ASSUME SyncTypeOK, NEW t \in Threads, NEW from, EndCall(t, from)
  PROVE  SyncTypeOK'
  BY DEF SyncTypeOK, Labels, EndCall, Released, Go, InCall, Threads, Unlocked, threadVars, historyVars

LEMMA ContinueTypes ==
  ASSUME SyncTypeOK, NEW t \in Threads, NEW from, NEW to \in Labels \ {"idle", "asleep"},
         Continue(t, from, to)
  PROVE  SyncTypeOK'
  BY DEF SyncTypeOK, Labels, Continue, Go, InCall, threadVars, historyVars

(* A step of a call, in either thread.                                     *)
LEMMA CallKeepsSyncInv ==
  ASSUME SyncInv, NEW t \in Threads, InCallStep(t)
  PROVE  SyncInv'
<1> USE DEF SyncInv, Threads, InCall, threadVars, historyVars, Updating, ComingToUpdate, Unlocked
<1>1. CASE SetSync(t)
  <2> USE <1>1 DEF SetSync, Store, Go
  <2>1. SyncTypeOK'
    BY StoreTypes DEF SyncTypeOK, Labels
  <2>2. Places'
    BY DEF SyncTypeOK, Places
  <2>3. ModeIsComing' /\ AutoIsComing'
    BY DEF SyncTypeOK, ModeIsComing, AutoIsComing
  <2>4. Alone'
    BY DEF SyncTypeOK, Alone, AloneIn, ModeOf, Updated
  <2>5. ChoiceMade'
    BY DEF SyncTypeOK, ChoiceMade
  <2>6. ButtonsShowSettings' /\ MonitorFollowsSettings'
    BY DEF SyncTypeOK, ButtonsShowSettings, MonitorFollowsSettings, Quiet
  <2> QED BY <2>1, <2>2, <2>3, <2>4, <2>5, <2>6
<1>2. CASE SetChanged(t)
  <2> USE <1>2 DEF SetChanged, Store, Go
  <2>1. SyncTypeOK'
    BY StoreTypes DEF Labels
  <2>2. Places'
    BY DEF SyncTypeOK, Places
  <2>3. ModeIsComing' /\ AutoIsComing'
    BY DEF SyncTypeOK, ModeIsComing, AutoIsComing
  <2>4. Alone'
    BY DEF SyncTypeOK, Alone, AloneIn, ModeOf, Updated
  <2>5. ChoiceMade'
    BY DEF SyncTypeOK, ChoiceMade
  <2>6. ButtonsShowSettings' /\ MonitorFollowsSettings'
    BY DEF SyncTypeOK, ButtonsShowSettings, MonitorFollowsSettings, Quiet
  <2> QED BY <2>1, <2>2, <2>3, <2>4, <2>5, <2>6
<1>3. CASE Notify(t)
  <2> USE <1>3 DEF Notify, Store, Go
  <2>1. SyncTypeOK'
    BY StoreTypes DEF Labels
  <2>2. Places'
    BY DEF SyncTypeOK, Places
  <2>3. ModeIsComing' /\ AutoIsComing'
    BY DEF SyncTypeOK, ModeIsComing, AutoIsComing
  <2>4. Alone'
    BY DEF SyncTypeOK, Alone, AloneIn, ModeOf, Updated
  <2>5. ChoiceMade'
    BY DEF SyncTypeOK, ChoiceMade
  <2>6. ButtonsShowSettings' /\ MonitorFollowsSettings'
    BY DEF SyncTypeOK, ButtonsShowSettings, MonitorFollowsSettings, Quiet
  <2> QED BY <2>1, <2>2, <2>3, <2>4, <2>5, <2>6
<1>4. CASE NotifyNobody(t)
  <2> USE <1>4 DEF NotifyNobody, EndCall, Released, Go
  <2>1. SyncTypeOK'
    BY EndCallTypes
  <2>2. Places'
    BY DEF SyncTypeOK, Places
  <2>3. ModeIsComing' /\ AutoIsComing'
    BY DEF SyncTypeOK, ModeIsComing, AutoIsComing
  <2>4. Alone'
    BY DEF SyncTypeOK, Alone, AloneIn, ModeOf, Updated
  <2>5. ChoiceMade'
    BY DEF SyncTypeOK, ChoiceMade, Alone, AloneIn, ModeOf, Updated
  <2>6. ButtonsShowSettings' /\ MonitorFollowsSettings'
    BY DEF SyncTypeOK, ButtonsShowSettings, MonitorFollowsSettings, Quiet, Alone, AloneIn, ModeOf,
           Updated, ModeIsComing, AutoIsComing
  <2> QED BY <2>1, <2>2, <2>3, <2>4, <2>5, <2>6
<1>5. CASE ReadSync(t)
  <2> USE <1>5 DEF ReadSync, Read, Go
  <2>1. SyncTypeOK'
    BY ReadTypes DEF Labels
  <2>2. Places'
    BY DEF SyncTypeOK, Places
  <2>3. ModeIsComing' /\ AutoIsComing'
    BY DEF SyncTypeOK, ModeIsComing, AutoIsComing
  <2>4. Alone'
    BY DEF SyncTypeOK, Alone, AloneIn, ModeOf, Updated
  <2>5. ChoiceMade'
    BY DEF SyncTypeOK, ChoiceMade
  <2>6. ButtonsShowSettings' /\ MonitorFollowsSettings'
    BY DEF SyncTypeOK, ButtonsShowSettings, MonitorFollowsSettings, Quiet
  <2> QED BY <2>1, <2>2, <2>3, <2>4, <2>5, <2>6
<1>6. CASE ActiveOn(t)
  <2> USE <1>6 DEF ActiveOn, Draw, Go
  <2>1. SyncTypeOK'
    BY DrawTypes DEF SyncTypeOK, Labels
  <2>2. Places'
    BY DEF SyncTypeOK, Places
  <2>3. ModeIsComing' /\ AutoIsComing'
    BY DEF SyncTypeOK, ModeIsComing, AutoIsComing
  <2>4. Alone'
    BY DEF SyncTypeOK, Alone, AloneIn, ModeOf, Updated
  <2>5. ChoiceMade'
    BY DEF SyncTypeOK, ChoiceMade
  <2>6. ButtonsShowSettings' /\ MonitorFollowsSettings'
    BY DEF SyncTypeOK, ButtonsShowSettings, MonitorFollowsSettings, Quiet
  <2> QED BY <2>1, <2>2, <2>3, <2>4, <2>5, <2>6
<1>7. CASE ActiveOff(t)
  <2> USE <1>7 DEF ActiveOff, Draw, Go
  <2>1. SyncTypeOK'
    BY DrawTypes DEF Labels
  <2>2. Places'
    BY DEF SyncTypeOK, Places
  <2>3. ModeIsComing' /\ AutoIsComing'
    BY DEF SyncTypeOK, ModeIsComing, AutoIsComing
  <2>4. Alone'
    BY DEF SyncTypeOK, Alone, AloneIn, ModeOf, Updated
  <2>5. ChoiceMade'
    BY DEF SyncTypeOK, ChoiceMade
  <2>6. ButtonsShowSettings' /\ MonitorFollowsSettings'
    BY DEF SyncTypeOK, ButtonsShowSettings, MonitorFollowsSettings, Quiet
  <2> QED BY <2>1, <2>2, <2>3, <2>4, <2>5, <2>6
<1>8. CASE ReadAuto(t)
  <2> USE <1>8 DEF ReadAuto, Read, Go
  <2>1. SyncTypeOK'
    BY ReadTypes DEF Labels
  <2>2. Places'
    BY DEF SyncTypeOK, Places
  <2>3. ModeIsComing' /\ AutoIsComing'
    BY DEF SyncTypeOK, ModeIsComing, AutoIsComing
  <2>4. Alone'
    BY DEF SyncTypeOK, Alone, AloneIn, ModeOf, Updated
  <2>5. ChoiceMade'
    BY DEF SyncTypeOK, ChoiceMade
  <2>6. ButtonsShowSettings' /\ MonitorFollowsSettings'
    BY DEF SyncTypeOK, ButtonsShowSettings, MonitorFollowsSettings, Quiet
  <2> QED BY <2>1, <2>2, <2>3, <2>4, <2>5, <2>6
<1>9. CASE Activate(t)
  <2> USE <1>9 DEF Activate, Draw, Go
  <2>1. SyncTypeOK'
    BY DrawTypes DEF SyncTypeOK, Labels
  <2>2. Places'
    BY DEF SyncTypeOK, Places
  <2>3. ModeIsComing' /\ AutoIsComing'
    BY DEF SyncTypeOK, ModeIsComing, AutoIsComing
  <2>4. Alone'
    BY DEF SyncTypeOK, Alone, AloneIn, ModeOf, Updated
  <2>5. ChoiceMade'
    BY DEF SyncTypeOK, ChoiceMade
  <2>6. ButtonsShowSettings' /\ MonitorFollowsSettings'
    BY DEF SyncTypeOK, ButtonsShowSettings, MonitorFollowsSettings, Quiet
  <2> QED BY <2>1, <2>2, <2>3, <2>4, <2>5, <2>6
<1>10. CASE Select(t)
  <2> USE <1>10 DEF Select, Draw, Go
  <2>1. SyncTypeOK'
    BY DrawTypes DEF SyncTypeOK, Labels
  <2>2. Places'
    BY DEF SyncTypeOK, Places
  <2>3. ModeIsComing' /\ AutoIsComing'
    BY DEF SyncTypeOK, ModeIsComing, AutoIsComing
  <2>4. Alone'
    BY DEF SyncTypeOK, Alone, AloneIn, ModeOf, Updated
  <2>5. ChoiceMade'
    BY DEF SyncTypeOK, ChoiceMade
  <2>6. ButtonsShowSettings' /\ MonitorFollowsSettings'
    BY DEF SyncTypeOK, ButtonsShowSettings, MonitorFollowsSettings, Quiet
  <2> QED BY <2>1, <2>2, <2>3, <2>4, <2>5, <2>6
<1>11. CASE UpdateGui(t)
  <2> USE <1>11 DEF UpdateGui, HasLock, Go
  <2>1. SyncTypeOK'
    BY DEF SyncTypeOK, Labels
  <2>2. Places'
    BY DEF SyncTypeOK, Places
  <2>3. ModeIsComing' /\ AutoIsComing'
    BY DEF SyncTypeOK, ModeIsComing, AutoIsComing
  <2>4. Alone'
    BY DEF SyncTypeOK, Alone, AloneIn, ModeOf, Updated
  <2>5. ChoiceMade'
    BY DEF SyncTypeOK, ChoiceMade, Alone, AloneIn, ModeOf, Updated
  <2>6. ButtonsShowSettings' /\ MonitorFollowsSettings'
    BY DEF SyncTypeOK, ButtonsShowSettings, MonitorFollowsSettings, Quiet
  <2> QED BY <2>1, <2>2, <2>3, <2>4, <2>5, <2>6
<1>12. CASE TakeSync(t)
  <2> USE <1>12 DEF TakeSync, Go
  <2>1. SyncTypeOK'
    BY DEF SyncTypeOK, Labels
  <2>2. Places'
    BY DEF SyncTypeOK, Places
  <2>3. ModeIsComing' /\ AutoIsComing'
    BY DEF SyncTypeOK, ModeIsComing, AutoIsComing
  <2>4. Alone'
    BY DEF SyncTypeOK, Alone, AloneIn, ModeOf, Updated
  <2>5. ChoiceMade'
    BY DEF SyncTypeOK, ChoiceMade, Alone, AloneIn, ModeOf, Updated
  <2>6. ButtonsShowSettings' /\ MonitorFollowsSettings'
    BY DEF SyncTypeOK, ButtonsShowSettings, MonitorFollowsSettings, Quiet
  <2> QED BY <2>1, <2>2, <2>3, <2>4, <2>5, <2>6
<1>13. CASE IsAuto(t)
  <2> USE <1>13 DEF IsAuto, Continue, EndCall, Released, Go
  <2>1. SyncTypeOK'
    BY ContinueTypes, EndCallTypes DEF Labels
  <2>2. Places'
    BY DEF SyncTypeOK, Places
  <2>3. ModeIsComing' /\ AutoIsComing'
    BY DEF SyncTypeOK, ModeIsComing, AutoIsComing
  <2>4. Alone'
    BY DEF SyncTypeOK, Alone, AloneIn, ModeOf, Updated
  <2>5. ChoiceMade'
    BY DEF SyncTypeOK, ChoiceMade
  <2>6. ButtonsShowSettings' /\ MonitorFollowsSettings'
    BY DEF SyncTypeOK, ButtonsShowSettings, MonitorFollowsSettings, Quiet, Alone, AloneIn, ModeOf,
           Updated, ModeIsComing, AutoIsComing
  <2> QED BY <2>1, <2>2, <2>3, <2>4, <2>5, <2>6
<1>14. CASE ResetAuto(t)
  <2> USE <1>14 DEF ResetAuto, Store, Go
  <2>1. SyncTypeOK'
    BY StoreTypes DEF Labels
  <2>2. Places'
    BY DEF SyncTypeOK, Places
  <2>3. ModeIsComing' /\ AutoIsComing'
    BY DEF SyncTypeOK, ModeIsComing, AutoIsComing
  <2>4. Alone'
    <3>1. ASSUME ~overlapped
          PROVE  /\ t = "swing" /\ pressed # "Auto" /\ settings.syncModeOn = ModeOf(t)
                 /\ at["updater"] \in {"idle", "asleep"}
      BY <3>1 DEF SyncTypeOK, Alone, AloneIn, Updated
    <3>2. ASSUME ~overlapped
          PROVE  /\ at' = [at EXCEPT !["swing"] = "setChanged"]
                 /\ settings'.syncModeOn = settings.syncModeOn /\ ModeOf("swing")' = ModeOf("swing")
      BY <3>1, <3>2 DEF SyncTypeOK, ModeOf
    <3>3. ASSUME ~overlapped
          PROVE  AloneIn("swing")' /\ at'["updater"] \in {"idle", "asleep"}
      BY <3>1, <3>2, <3>3 DEF SyncTypeOK, AloneIn, Updated
    <3> QED BY <3>3 DEF Alone
  <2>5. ChoiceMade'
    BY DEF SyncTypeOK, ChoiceMade
  <2>6. ButtonsShowSettings' /\ MonitorFollowsSettings'
    BY DEF SyncTypeOK, ButtonsShowSettings, MonitorFollowsSettings, Quiet
  <2> QED BY <2>1, <2>2, <2>3, <2>4, <2>5, <2>6
<1>15. CASE TestAuto(t)
  <2> USE <1>15 DEF TestAuto, Continue, EndCall, Released, Go
  <2>1. SyncTypeOK'
    BY ContinueTypes, EndCallTypes DEF Labels
  <2>2. Places'
    BY DEF SyncTypeOK, Places
  <2>3. ModeIsComing' /\ AutoIsComing'
    BY DEF SyncTypeOK, ModeIsComing, AutoIsComing
  <2>4. Alone'
    BY DEF SyncTypeOK, Alone, AloneIn, ModeOf, Updated
  <2>5. ChoiceMade'
    BY DEF SyncTypeOK, ChoiceMade
  <2>6. ButtonsShowSettings' /\ MonitorFollowsSettings'
    BY DEF SyncTypeOK, ButtonsShowSettings, MonitorFollowsSettings, Quiet, Alone, AloneIn, ModeOf,
           Updated, ModeIsComing, AutoIsComing
  <2> QED BY <2>1, <2>2, <2>3, <2>4, <2>5, <2>6
<1>16. CASE TakeAuto(t)
  <2> USE <1>16 DEF TakeAuto, Go
  <2>1. SyncTypeOK'
    BY DEF SyncTypeOK, Labels
  <2>2. Places'
    BY DEF SyncTypeOK, Places
  <2>3. ModeIsComing' /\ AutoIsComing'
    BY DEF SyncTypeOK, ModeIsComing, AutoIsComing
  <2>4. Alone'
    BY DEF SyncTypeOK, Alone, AloneIn, ModeOf, Updated
  <2>5. ChoiceMade'
    BY DEF SyncTypeOK, ChoiceMade
  <2>6. ButtonsShowSettings' /\ MonitorFollowsSettings'
    BY DEF SyncTypeOK, ButtonsShowSettings, MonitorFollowsSettings, Quiet
  <2> QED BY <2>1, <2>2, <2>3, <2>4, <2>5, <2>6
<1>17. CASE ReturnGui(t)
  <2> USE <1>17 DEF ReturnGui, EndCall, Released, Go
  <2>1. SyncTypeOK'
    BY EndCallTypes
  <2>2. Places'
    BY DEF SyncTypeOK, Places
  <2>3. ModeIsComing' /\ AutoIsComing'
    BY DEF SyncTypeOK, ModeIsComing, AutoIsComing
  <2>4. Alone'
    BY DEF SyncTypeOK, Alone, AloneIn, ModeOf, Updated
  <2>5. ChoiceMade'
    BY DEF SyncTypeOK, ChoiceMade
  <2>6. ButtonsShowSettings' /\ MonitorFollowsSettings'
    BY DEF SyncTypeOK, ButtonsShowSettings, MonitorFollowsSettings, Quiet, Alone, AloneIn, ModeOf,
           Updated, ModeIsComing, AutoIsComing
  <2> QED BY <2>1, <2>2, <2>3, <2>4, <2>5, <2>6
<1> QED BY <1>1, <1>2, <1>3, <1>4, <1>5, <1>6, <1>7, <1>8, <1>9, <1>10, <1>11, <1>12, <1>13, <1>14,
           <1>15, <1>16, <1>17 DEF InCallStep

(* A press, a decision of the Updater, or a step of the button's listener. *)
LEMMA OtherKeepsSyncInv ==
  ASSUME SyncInv,
         \/ PressMode \/ PressAuto \/ Toggle \/ SetAuto \/ SelectOn \/ SelectOff
         \/ SwitchToSynchronous \/ Sleep \/ SwitchToAsynchronous \/ StayAsIs
  PROVE  SyncInv'
<1> USE DEF SyncInv, Threads, InCall, threadVars, historyVars, Updating, ComingToUpdate, Unlocked
<1>1. CASE PressMode
  <2> USE <1>1 DEF PressMode, Chosen, Go
  <2>1. SyncTypeOK'
    <3>1. PICK toggled \in {"onOption", "offOption"} : buttons' = [buttons EXCEPT ![toggled] = ~@]
      OBVIOUS
    <3>2. buttons[toggled] \in BOOLEAN
      BY DEF SyncTypeOK
    <3>3. buttons' \in [onOption : BOOLEAN, offOption : BOOLEAN, auto : BOOLEAN, selected : BOOLEAN]
      BY <3>1, <3>2 DEF SyncTypeOK
    <3>4. argument' \in [Threads -> BOOLEAN]
      BY DEF SyncTypeOK
    <3>5. /\ at' \in [Threads -> Labels] /\ settings' = settings
          /\ monitor' \in [currentState : BOOLEAN, syncAuto : BOOLEAN,
                          owner : {t \in Threads : InCall(t)'} \cup {Unlocked}]
      BY DEF SyncTypeOK, Labels
    <3>6. pressed' \in {"Synchronous", "Asynchronous", "Auto"} /\ overlapped' \in BOOLEAN
      OBVIOUS
    <3>7. choice' \in {"none", "Synchronous", "Asynchronous"}
      BY DEF SyncTypeOK
    <3> QED BY <3>3, <3>4, <3>5, <3>6, <3>7 DEF SyncTypeOK
  <2>2. Places'
    BY DEF SyncTypeOK, Places
  <2>3. ModeIsComing' /\ AutoIsComing'
    BY DEF SyncTypeOK, ModeIsComing, AutoIsComing
  <2>4. Alone'
    BY DEF SyncTypeOK, Alone, AloneIn, ModeOf, Updated, Quiet, MonitorFollowsSettings
  <2>5. ChoiceMade'
    BY DEF SyncTypeOK, ChoiceMade, Quiet, MonitorFollowsSettings
  <2>6. ButtonsShowSettings' /\ MonitorFollowsSettings'
    BY DEF SyncTypeOK, ButtonsShowSettings, MonitorFollowsSettings, Quiet
  <2> QED BY <2>1, <2>2, <2>3, <2>4, <2>5, <2>6
<1>2. CASE PressAuto
  <2> USE <1>2 DEF PressAuto, Go
  <2>1. SyncTypeOK'
    BY DEF SyncTypeOK, Labels
  <2>2. Places'
    BY DEF SyncTypeOK, Places
  <2>3. ModeIsComing' /\ AutoIsComing'
    BY DEF SyncTypeOK, ModeIsComing, AutoIsComing
  <2>4. Alone'
    BY DEF SyncTypeOK, Alone, AloneIn, ModeOf, Updated, Quiet, MonitorFollowsSettings
  <2>5. ChoiceMade'
    BY DEF SyncTypeOK, ChoiceMade
  <2>6. ButtonsShowSettings' /\ MonitorFollowsSettings'
    BY DEF SyncTypeOK, ButtonsShowSettings, MonitorFollowsSettings, Quiet
  <2> QED BY <2>1, <2>2, <2>3, <2>4, <2>5, <2>6
<1>3. CASE Toggle
  <2> USE <1>3 DEF Toggle, Draw, Go
  <2>1. SyncTypeOK'
    BY DrawTypes DEF Labels
  <2>2. Places'
    BY DEF SyncTypeOK, Places
  <2>3. ModeIsComing' /\ AutoIsComing'
    BY DEF SyncTypeOK, ModeIsComing, AutoIsComing
  <2>4. Alone'
    BY DEF SyncTypeOK, Alone, AloneIn, ModeOf, Updated
  <2>5. ChoiceMade'
    BY DEF SyncTypeOK, ChoiceMade
  <2>6. ButtonsShowSettings' /\ MonitorFollowsSettings'
    BY DEF SyncTypeOK, ButtonsShowSettings, MonitorFollowsSettings, Quiet
  <2> QED BY <2>1, <2>2, <2>3, <2>4, <2>5, <2>6
<1>4. CASE SetAuto
  <2> USE <1>4 DEF SetAuto, Store, Go
  <2>1. SyncTypeOK'
    BY StoreTypes DEF SyncTypeOK, Labels
  <2>2. Places'
    BY DEF SyncTypeOK, Places
  <2>3. ModeIsComing' /\ AutoIsComing'
    BY DEF SyncTypeOK, ModeIsComing, AutoIsComing
  <2>4. Alone'
    BY DEF SyncTypeOK, Alone, AloneIn, ModeOf, Updated
  <2>5. ChoiceMade'
    BY DEF SyncTypeOK, ChoiceMade, Places
  <2>6. ButtonsShowSettings' /\ MonitorFollowsSettings'
    BY DEF SyncTypeOK, ButtonsShowSettings, MonitorFollowsSettings, Quiet
  <2> QED BY <2>1, <2>2, <2>3, <2>4, <2>5, <2>6
<1>5. CASE SelectOn
  <2> USE <1>5 DEF SelectOn, Draw, Go
  <2>1. SyncTypeOK'
    BY DrawTypes DEF Labels
  <2>2. Places'
    BY DEF SyncTypeOK, Places
  <2>3. ModeIsComing' /\ AutoIsComing'
    BY DEF SyncTypeOK, ModeIsComing, AutoIsComing
  <2>4. Alone'
    BY DEF SyncTypeOK, Alone, AloneIn, ModeOf, Updated, Places
  <2>5. ChoiceMade'
    BY DEF SyncTypeOK, ChoiceMade
  <2>6. ButtonsShowSettings' /\ MonitorFollowsSettings'
    BY DEF SyncTypeOK, ButtonsShowSettings, MonitorFollowsSettings, Quiet
  <2> QED BY <2>1, <2>2, <2>3, <2>4, <2>5, <2>6
<1>6. CASE SelectOff
  <2> USE <1>6 DEF SelectOff, Draw, Go
  <2>1. SyncTypeOK'
    <3>1. buttons' \in [onOption : BOOLEAN, offOption : BOOLEAN, auto : BOOLEAN, selected : BOOLEAN]
      <4>1. PICK value \in BOOLEAN : buttons' = [buttons EXCEPT !["offOption"] = value]
        OBVIOUS
      <4> QED BY <4>1 DEF SyncTypeOK
    <3>2. at' \in [Threads -> Labels] /\ at'["updater"] = at["updater"]
      BY DEF SyncTypeOK, Labels
    <3>3. monitor.owner \in {Unlocked, "updater"} /\ monitor' = monitor
          /\ (monitor.owner = "updater" => InCall("updater")')
      BY <3>2 DEF SyncTypeOK, Places
    <3>4. monitor' \in [currentState : BOOLEAN, syncAuto : BOOLEAN,
                        owner : {s \in Threads : InCall(s)'} \cup {Unlocked}]
      BY <3>3 DEF SyncTypeOK
    <3> QED BY <3>1, <3>2, <3>4 DEF SyncTypeOK
  <2>2. Places'
    BY DEF SyncTypeOK, Places
  <2>3. ModeIsComing' /\ AutoIsComing'
    BY DEF SyncTypeOK, ModeIsComing, AutoIsComing
  <2>4. Alone'
    BY DEF SyncTypeOK, Alone, AloneIn, ModeOf, Updated
  <2>5. ChoiceMade'
    BY DEF SyncTypeOK, ChoiceMade
  <2>6. ButtonsShowSettings' /\ MonitorFollowsSettings'
    BY DEF SyncTypeOK, ButtonsShowSettings, MonitorFollowsSettings, Quiet, Alone, AloneIn, ModeOf,
           Updated, Places, ModeIsComing, AutoIsComing
  <2> QED BY <2>1, <2>2, <2>3, <2>4, <2>5, <2>6
<1>7. CASE SwitchToSynchronous
  <2> USE <1>7 DEF SwitchToSynchronous, Switches, Go
  <2>1. SyncTypeOK'
    BY DEF SyncTypeOK, Labels
  <2>2. Places'
    BY DEF SyncTypeOK, Places
  <2>3. ModeIsComing' /\ AutoIsComing'
    BY DEF SyncTypeOK, ModeIsComing, AutoIsComing
  <2>4. Alone'
    BY DEF SyncTypeOK, Alone, AloneIn, ModeOf, Updated
  <2>5. ChoiceMade'
    BY DEF SyncTypeOK, ChoiceMade, Places, Quiet, MonitorFollowsSettings
  <2>6. ButtonsShowSettings' /\ MonitorFollowsSettings'
    BY DEF SyncTypeOK, ButtonsShowSettings, MonitorFollowsSettings, Quiet
  <2> QED BY <2>1, <2>2, <2>3, <2>4, <2>5, <2>6
<1>8. CASE Sleep
  <2> USE <1>8 DEF Sleep, Go
  <2>0. /\ at' = [at EXCEPT !["updater"] = "asleep"] /\ ~InCall("updater") /\ ~InCall("updater")'
        /\ at'["swing"] = at["swing"]
    BY DEF SyncTypeOK
  <2>1. SyncTypeOK'
    BY DEF SyncTypeOK, Labels
  <2>2. Places'
    BY DEF SyncTypeOK, Places
  <2>3. ModeIsComing' /\ AutoIsComing'
    BY DEF SyncTypeOK, ModeIsComing, AutoIsComing
  <2>4. Alone'
    <3>1. AloneIn("swing")' = AloneIn("swing")
      BY <2>0 DEF AloneIn, ModeOf
    <3> QED BY <2>0, <3>1 DEF Alone
  <2>5. ChoiceMade'
    BY DEF SyncTypeOK, ChoiceMade
  <2>6. ButtonsShowSettings' /\ MonitorFollowsSettings'
    BY DEF SyncTypeOK, ButtonsShowSettings, MonitorFollowsSettings, Quiet
  <2> QED BY <2>1, <2>2, <2>3, <2>4, <2>5, <2>6
<1>9. CASE SwitchToAsynchronous
  <2> USE <1>9 DEF SwitchToAsynchronous, Switches, Go
  <2>1. SyncTypeOK'
    BY DEF SyncTypeOK, Labels
  <2>2. Places'
    BY DEF SyncTypeOK, Places
  <2>3. ModeIsComing' /\ AutoIsComing'
    BY DEF SyncTypeOK, ModeIsComing, AutoIsComing
  <2>4. Alone'
    BY DEF SyncTypeOK, Alone, AloneIn, ModeOf, Updated
  <2>5. ChoiceMade'
    BY DEF SyncTypeOK, ChoiceMade, Places, Quiet, MonitorFollowsSettings
  <2>6. ButtonsShowSettings' /\ MonitorFollowsSettings'
    BY DEF SyncTypeOK, ButtonsShowSettings, MonitorFollowsSettings, Quiet
  <2> QED BY <2>1, <2>2, <2>3, <2>4, <2>5, <2>6
<1>10. CASE StayAsIs
  <2> USE <1>10 DEF StayAsIs, Go
  <2>1. SyncTypeOK'
    BY DEF SyncTypeOK, Labels
  <2>2. Places'
    BY DEF SyncTypeOK, Places
  <2>3. ModeIsComing' /\ AutoIsComing'
    BY DEF SyncTypeOK, ModeIsComing, AutoIsComing
  <2>4. Alone'
    BY DEF SyncTypeOK, Alone, AloneIn, ModeOf, Updated
  <2>5. ChoiceMade'
    BY DEF SyncTypeOK, ChoiceMade
  <2>6. ButtonsShowSettings' /\ MonitorFollowsSettings'
    BY DEF SyncTypeOK, ButtonsShowSettings, MonitorFollowsSettings, Quiet
  <2> QED BY <2>1, <2>2, <2>3, <2>4, <2>5, <2>6
<1> QED BY <1>1, <1>2, <1>3, <1>4, <1>5, <1>6, <1>7, <1>8, <1>9, <1>10

LEMMA SyncInvInit == SyncInit => SyncInv
<1> SUFFICES ASSUME SyncInit
             PROVE  SyncInv
  OBVIOUS
<1> USE DEF SyncInit, InCall, Threads
<1>1. SyncTypeOK /\ Places
  BY DEF SyncTypeOK, Places, Labels, Unlocked
<1>2. ModeIsComing /\ AutoIsComing /\ ButtonsShowSettings /\ MonitorFollowsSettings
  BY DEF ModeIsComing, AutoIsComing, ButtonsShowSettings, MonitorFollowsSettings
<1>3. Alone /\ ChoiceMade
  BY DEF Alone, ChoiceMade
<1> QED BY <1>1, <1>2, <1>3 DEF SyncInv

LEMMA SyncInvNext == SyncInv /\ [SyncNext]_syncVars => SyncInv'
<1>1. ASSUME SyncInv, UNCHANGED syncVars
      PROVE  SyncInv'
  <2> USE <1>1 DEF syncVars, threadVars, historyVars, SyncInv, InCall
  <2>1. SyncTypeOK' /\ Places'
    BY DEF SyncTypeOK, Places
  <2>2. ModeIsComing' /\ AutoIsComing'
    BY DEF ModeIsComing, AutoIsComing, ComingToUpdate
  <2>3. Alone'
    <3>1. ASSUME NEW t \in Threads
          PROVE  AloneIn(t)' = AloneIn(t)
      BY DEF AloneIn, ModeOf
    <3> QED BY <3>1 DEF Alone
  <2>4. ChoiceMade'
    BY DEF ChoiceMade
  <2>5. ButtonsShowSettings' /\ MonitorFollowsSettings'
    BY DEF ButtonsShowSettings, MonitorFollowsSettings, Quiet
  <2> QED BY <2>1, <2>2, <2>3, <2>4, <2>5
<1>2. ASSUME SyncInv, SyncNext
      PROVE  SyncInv'
  BY <1>2, CallKeepsSyncInv, OtherKeepsSyncInv DEF SyncNext, SwingStep, Threads
<1> QED BY <1>1, <1>2

LEMMA SyncInvariance == SyncSpec => []SyncInv
  BY SyncInvInit, SyncInvNext, PTL DEF SyncSpec

(* Every variable of the settings keeps to its type, and the monitor's     *)
(* lock is held by nobody whose call is over.                              *)
THEOREM SettingsTypeCorrect == SyncSpec => []SyncTypeOK
  BY SyncInvariance, PTL DEF SyncInv

(* The monitor follows the settings, however the calls of the Swing thread *)
(* and the Updater overlap.                                                *)
THEOREM MonitorFollows == SyncSpec => []MonitorFollowsSettings
  BY SyncInvariance, PTL DEF SyncInv

(* After a call that overlaps no other, the buttons show the settings.     *)
THEOREM ButtonsShow == SyncSpec => []ButtonsShowSettings
  BY SyncInvariance, PTL DEF SyncInv

(* A press that changes the synchronous mode (SwitchButton.java:90, 94)    *)
(* ends the automatic mode, so that Monitor.update does not change the     *)
(* mode again.  ChoiceStays says which presses are meant: not those on the *)
(* mode already in effect, which leave the automatic mode on               *)
(* (Monitor.java:283), nor those that overlap another call.                *)
THEOREM ChoiceIsKept == SyncSpec => []ChoiceStays
<1>1. SyncInv => ChoiceStays
  BY DEF SyncInv, SyncTypeOK, Places, ChoiceMade, ChoiceStays, Quiet, InCall, Threads, Updating
<1> QED
  BY <1>1, SyncInvariance, PTL
=============================================================================
