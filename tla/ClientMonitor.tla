--------------------------- MODULE ClientMonitor ---------------------------
(***************************************************************************)
(* The client's mode of operation (Monitor.java), the models of the two    *)
(* camera views that carry it to and from the buttons                      *)
(* (CameraControlModel.java), the buttons themselves (SwitchButton.java),  *)
(* and the threads that meet there: the Swing thread, a ServerReader and a *)
(* ServerWriter per connected camera, and the Updater.                     *)
(*                                                                         *)
(* The monitor's methods hold its lock.  The models have none: the Swing   *)
(* thread writes movieModeOn while another thread, inside the monitor,     *)
(* reads and writes the same model.  So the thread that owns the lock      *)
(* takes one step per access to a model; a step that only the lock's owner *)
(* could observe is part of the step before it.                            *)
(*                                                                         *)
(* A setter of a model calls setChanged, then notifyObservers, which does  *)
(* nothing unless the flag is (still) set, clears it, lets the view draw   *)
(* the button, which was registered last, and calls updateGui.  updateGui  *)
(* may call setMotionDetected, so such a call can nest in one.             *)
(*                                                                         *)
(* A button is two options.  Each is drawn by the same calls, offOption    *)
(* right after onOption and to the opposite, and nothing reads either:     *)
(* what is said of onOption can be said of offOption.                      *)
(***************************************************************************)
EXTENDS Naturals

CONSTANTS
  Connected,   \* cameras with a ServerReader and a ServerWriter
  Pressable,     \* cameras whose buttons the user presses
  NoCamera

ASSUME ConnectedAssumption ==
  Connected \subseteq {1, 2} /\ Pressable \subseteq {1, 2} /\ NoCamera \notin {1, 2}

Cameras == {1, 2}
MODE_IDLE == "MODE_IDLE"
MODE_MOVIE == "MODE_MOVIE"
Modes == {MODE_IDLE, MODE_MOVIE}

VARIABLES
  movieModeOn,     \* CameraControlModel
  motionDetected,  \* CameraControlModel
  changed,         \* java.util.Observable's flag of each model
  onOption,        \* of each camera's SwitchButton: Movie is selected
  mode,            \* currentCameraOneMode and currentCameraTwoMode
  swing,           \* the Swing thread: where it is, in which model
  task,            \* the method the owner of the lock runs, and its next statement
  call,            \* where the task is in a call of a model's setter
  writer,          \* the ServerWriters: where they are, and oldMode or nextMode
  skipped,         \* history: the Swing thread's last notifyObservers did nothing, and
                   \* no frame has been shown since
  stale            \* history: what was last drawn was no longer what the model said

modelVars == <<movieModeOn, motionDetected, changed>>
viewVars == <<onOption, stale>>
taskVars == <<task, call>>
vars == <<modelVars, viewVars, mode, swing, taskVars, writer, skipped>>

Tasks == [method : {"free", "changeMode", "update"}, server : Cameras \cup {NoCamera}, at : 0 .. 7]
Phases == {"none", "changed", "notify", "view", "draw", "isOn", "isOff", "idle"}
Calls == [camera : Cameras \cup {NoCamera}, phase : Phases, depth : 0 .. 2, shows : BOOLEAN]

Swings == [at : {"idle", "changed", "notify", "updateGui", "select"},
           camera : Cameras \cup {NoCamera}, movie : BOOLEAN]

Free == task.method = "free"
NoTask == [method |-> "free", server |-> NoCamera, at |-> 0]
NoCall == [camera |-> NoCamera, phase |-> "none", depth |-> 0, shows |-> FALSE]
SwingIdle == [at |-> "idle", camera |-> NoCamera, movie |-> FALSE]

Init ==
  /\ movieModeOn = [c \in Cameras |-> FALSE]
  /\ motionDetected = [c \in Cameras |-> FALSE]
  /\ changed = [c \in Cameras |-> FALSE]
  /\ mode = [c \in Cameras |-> MODE_IDLE]
  /\ onOption = [c \in Cameras |-> FALSE]
  /\ swing = SwingIdle
  /\ task = NoTask /\ call = NoCall
  /\ writer = [c \in Connected |-> [at |-> "enter", mode |-> MODE_IDLE]]
  /\ skipped = [c \in Cameras |-> FALSE]
  /\ stale = [c \in Cameras |-> FALSE]

(* The button of c is drawn: setOn, setOff, setActiveMode.                 *)
DrawButton(c, movie) ==
  /\ onOption' = [onOption EXCEPT ![c] = movie]
  /\ stale' = [stale EXCEPT ![c] = movie # movieModeOn[c]]

Wake == [c \in Connected |->
           [at |-> IF writer[c].at = "wait" THEN "woken" ELSE writer[c].at, mode |-> writer[c].mode]]

(* Mutant: the thread goes on without notifyAll.                           *)
SetModes_NoNotify(cameras, m) ==
  /\ mode' = [c \in Cameras |-> IF c \in cameras THEN m ELSE mode[c]]
  /\ UNCHANGED writer

(* The mode of some cameras is set; notifyAll follows under the same lock. *)
SetModes(cameras, m) ==
  /\ mode' = [c \in Cameras |-> IF c \in cameras THEN m ELSE mode[c]]
  /\ writer' = Wake

-----------------------------------------------------------------------------
(* The Swing thread: SwitchButton.actionPerformed and the setter it calls  *)

(* The option that is pressed toggles by itself before its listener runs.  *)
Press(c, movie) ==
  /\ swing.at = "idle"
  /\ onOption' = [onOption EXCEPT ![c] = IF movie THEN ~@ ELSE @]
  /\ movieModeOn' = [movieModeOn EXCEPT ![c] = movie]
  /\ swing' = [at |-> "changed", camera |-> c, movie |-> movie]
  /\ UNCHANGED <<motionDetected, changed, stale, mode, taskVars, writer, skipped>>

SwingSetChanged ==
  /\ swing.at = "changed"
  /\ changed' = [changed EXCEPT ![swing.camera] = TRUE]
  /\ swing' = [swing EXCEPT !.at = "notify"]
  /\ UNCHANGED <<movieModeOn, motionDetected, viewVars, mode, taskVars, writer, skipped>>

(* The view comes first.  What it reads and draws on this thread is one    *)
(* step with the test of the flag, as SwingSelect will draw over it.       *)
SwingNotify ==
  /\ swing.at = "notify"
  /\ LET c == swing.camera IN
     /\ IF changed[c]
        THEN DrawButton(c, movieModeOn[c]) /\ swing' = [swing EXCEPT !.at = "updateGui"]
        ELSE UNCHANGED viewVars /\ swing' = [swing EXCEPT !.at = "select"]
     /\ skipped' = [skipped EXCEPT ![c] = ~changed[c]]
     /\ changed' = [changed EXCEPT ![c] = FALSE]
  /\ UNCHANGED <<movieModeOn, motionDetected, mode, taskVars, writer>>

(* updateGui on this thread: nobody else can write the model meanwhile.    *)
SwingUpdateGui ==
  /\ swing.at = "updateGui" /\ Free
  /\ LET c == swing.camera IN
     IF movieModeOn[c]
     THEN /\ IF mode[c] # MODE_MOVIE THEN SetModes({c}, MODE_MOVIE) ELSE UNCHANGED <<mode, writer>>
          /\ UNCHANGED motionDetected
     ELSE IF mode[c] # MODE_IDLE
          THEN SetModes({c}, MODE_IDLE) /\ motionDetected' = [motionDetected EXCEPT ![c] = FALSE]
          ELSE UNCHANGED <<mode, writer, motionDetected>>
  /\ swing' = [swing EXCEPT !.at = "select"]
  /\ UNCHANGED <<movieModeOn, changed, viewVars, taskVars, skipped>>

(* setOn or setOff, by what was pressed and not by what the model says.    *)
SwingSelect ==
  /\ swing.at = "select"
  /\ DrawButton(swing.camera, swing.movie)
  /\ swing' = SwingIdle
  /\ UNCHANGED <<modelVars, mode, taskVars, writer, skipped>>

-----------------------------------------------------------------------------
(* A setter called by the lock's owner, after it has written its field     *)

Within(phase, depth) == [camera |-> call.camera, phase |-> phase, depth |-> depth, shows |-> FALSE]

SettersRest == UNCHANGED <<mode, swing, task, writer>>

OwnerSetChanged ==
  /\ call.phase = "changed"
  /\ changed' = [changed EXCEPT ![call.camera] = TRUE]
  /\ call' = Within("notify", call.depth)
  /\ SettersRest /\ UNCHANGED <<movieModeOn, motionDetected, viewVars, skipped>>

(* Where a call goes on when its updateGui returns: a nested one to the    *)
(* rest of the outer updateGui.                                            *)
Return == IF call.depth = 2 THEN Within("idle", 1) ELSE NoCall

OwnerNotify ==
  /\ call.phase = "notify"
  /\ changed' = [changed EXCEPT ![call.camera] = FALSE]
  /\ call' = IF changed[call.camera] THEN Within("view", call.depth) ELSE Return
  /\ SettersRest /\ UNCHANGED <<movieModeOn, motionDetected, viewVars, skipped>>

(* CameraControlView.update reads the mode, and draws what it has read.    *)
OwnerView ==
  /\ call.phase = "view"
  /\ call' = [Within("draw", call.depth) EXCEPT !.shows = movieModeOn[call.camera]]
  /\ SettersRest /\ UNCHANGED <<modelVars, viewVars, skipped>>

OwnerDraw ==
  /\ call.phase = "draw"
  /\ DrawButton(call.camera, call.shows)
  /\ call' = Within("isOn", call.depth)
  /\ SettersRest /\ UNCHANGED <<modelVars, skipped>>

(* updateGui's first isMovieModeOn                                         *)
OwnerGuiOn ==
  /\ call.phase = "isOn"
  /\ IF movieModeOn[call.camera]
     THEN /\ IF mode[call.camera] # MODE_MOVIE
             THEN SetModes({call.camera}, MODE_MOVIE)
             ELSE UNCHANGED <<mode, writer>>
          /\ call' = Return
     ELSE /\ call' = Within("isOff", call.depth)
          /\ UNCHANGED <<mode, writer>>
  /\ skipped' = [skipped EXCEPT ![call.camera] = @ /\ ~(task.method = "update" /\ call.depth = 1)]
  /\ UNCHANGED <<modelVars, viewVars, swing, task>>

(* its second isMovieModeOn; setMotionDetected(false) nests                *)
OwnerGuiOff ==
  /\ call.phase = "isOff"
  /\ IF movieModeOn[call.camera] \/ mode[call.camera] = MODE_IDLE
     THEN call' = Return /\ UNCHANGED motionDetected
     ELSE IF motionDetected[call.camera]
     THEN /\ motionDetected' = [motionDetected EXCEPT ![call.camera] = FALSE]
          /\ call' = Within("changed", 2)
     ELSE call' = Within("idle", call.depth) /\ UNCHANGED motionDetected
  /\ SettersRest /\ UNCHANGED <<movieModeOn, changed, viewVars, skipped>>

(* The mode goes to Idle, on what isMovieModeOn said before.               *)
OwnerGuiIdle ==
  /\ call.phase = "idle"
  /\ SetModes({call.camera}, MODE_IDLE)
  /\ call' = Return
  /\ UNCHANGED <<modelVars, viewVars, swing, task, skipped>>

-----------------------------------------------------------------------------
(* The methods of the monitor that call setters                            *)

(* Mutant: CameraControlModel.update forgets setChanged.                   *)
Setter_NoSetChanged(c) == call' = [camera |-> c, phase |-> "notify", depth |-> 1, shows |-> FALSE]

Setter(c) == call' = [camera |-> c, phase |-> "changed", depth |-> 1, shows |-> FALSE]
Leave == task' = NoTask /\ UNCHANGED call

(* changeMode(server, MOVIE), called by the server's ServerReader when a   *)
(* header brings the motion bit.  Motion is written under the lock only.   *)
ChangeModeEnter(server) ==
  /\ Free
  /\ task' = [method |-> "changeMode", server |-> server, at |-> 2]
  /\ motionDetected' = [motionDetected EXCEPT ![1] = (server = 1)]
  /\ Setter(1)
  /\ UNCHANGED <<movieModeOn, changed, viewVars, mode, swing, writer, skipped>>

InChangeMode(at) == task.method = "changeMode" /\ call.phase = "none" /\ task.at = at

(* Mutant: the other camera's lamp is not put out.                         *)
ChangeModeSecondLamp_Keeps ==
  /\ InChangeMode(2)
  /\ task' = [task EXCEPT !.at = 3]
  /\ motionDetected' = [motionDetected EXCEPT ![2] = @ \/ (task.server = 2)]
  /\ Setter(2)
  /\ UNCHANGED <<movieModeOn, changed, viewVars, mode, swing, writer, skipped>>

ChangeModeSecondLamp ==
  /\ InChangeMode(2)
  /\ task' = [task EXCEPT !.at = 3]
  /\ motionDetected' = [motionDetected EXCEPT ![2] = (task.server = 2)]
  /\ Setter(2)
  /\ UNCHANGED <<movieModeOn, changed, viewVars, mode, swing, writer, skipped>>

(* Mutant: the test is inverted.                                           *)
ChangeModeTest_Inverted(c) ==
  /\ InChangeMode(2 * c + 1)
  /\ task' = [task EXCEPT !.at = IF movieModeOn[c] THEN 2 * c + 2 ELSE 2 * c + 3]
  /\ UNCHANGED <<modelVars, viewVars, mode, swing, call, writer, skipped>>

(* if (!camera.isMovieModeOn()), then camera.setMovieMode(true)            *)
ChangeModeTest(c) ==
  /\ InChangeMode(2 * c + 1)
  /\ task' = [task EXCEPT !.at = IF movieModeOn[c] THEN 2 * c + 3 ELSE 2 * c + 2]
  /\ UNCHANGED <<modelVars, viewVars, mode, swing, call, writer, skipped>>

ChangeModeMovieOn(c) ==
  /\ InChangeMode(2 * c + 2)
  /\ task' = [task EXCEPT !.at = 2 * c + 3]
  /\ movieModeOn' = [movieModeOn EXCEPT ![c] = TRUE]
  /\ Setter(c)
  /\ UNCHANGED <<motionDetected, changed, viewVars, mode, swing, writer, skipped>>

ChangeModeLeave ==
  /\ InChangeMode(7)
  /\ SetModes(Cameras, MODE_MOVIE)
  /\ Leave
  /\ UNCHANGED <<modelVars, viewVars, swing, skipped>>

(* update by the Updater: setNewImage, setDelayTime.  Which frame, and     *)
(* when, is left to a model of its own.                                    *)
UpdateEnter(c) ==
  /\ Free
  /\ task' = [method |-> "update", server |-> c, at |-> 1]
  /\ Setter(c)
  /\ UNCHANGED <<modelVars, viewVars, mode, swing, writer, skipped>>

UpdateDelay ==
  /\ task.method = "update" /\ call.phase = "none" /\ task.at = 1
  /\ task' = [task EXCEPT !.at = 2]
  /\ Setter(task.server)
  /\ UNCHANGED <<modelVars, viewVars, mode, swing, writer, skipped>>

UpdateLeave ==
  /\ task.method = "update" /\ call.phase = "none" /\ task.at = 2
  /\ Leave
  /\ UNCHANGED <<modelVars, viewVars, mode, swing, writer, skipped>>

(* addFrame wakes the writers too.                                         *)
AddFrame ==
  /\ Free
  /\ SetModes({}, MODE_IDLE)
  /\ UNCHANGED <<modelVars, viewVars, swing, taskVars, skipped>>

-----------------------------------------------------------------------------
(* ServerWriter.run and nextMode                                           *)

WriterMoves(c, place, m) ==
  /\ writer' = [writer EXCEPT ![c] = [at |-> place, mode |-> m]]
  /\ UNCHANGED <<modelVars, viewVars, mode, swing, taskVars, skipped>>

(* oldMode is the mode found now, whatever was returned and written last.  *)
NextModeEnter(c) ==
  /\ writer[c].at = "enter" /\ Free
  /\ WriterMoves(c, "wait", mode[c])

(* Mutant: the wait is not in a loop.                                      *)
NextModeWoken_Once(c) ==
  /\ writer[c].at = "woken" /\ Free
  /\ WriterMoves(c, "write", mode[c])

NextModeWoken(c) ==
  /\ writer[c].at = "woken" /\ Free
  /\ IF mode[c] = writer[c].mode THEN WriterMoves(c, "wait", writer[c].mode)
                                 ELSE WriterMoves(c, "write", mode[c])

WriteMode(c) ==
  /\ writer[c].at = "write"
  /\ WriterMoves(c, "enter", writer[c].mode)

(* IOException: the thread closes the socket and ends.                     *)
WriteFails(c) ==
  /\ writer[c].at = "write"
  /\ WriterMoves(c, "closed", writer[c].mode)

-----------------------------------------------------------------------------
Swing == SwingSetChanged \/ SwingNotify \/ SwingUpdateGui \/ SwingSelect

Owner ==
  \/ OwnerSetChanged \/ OwnerNotify \/ OwnerView \/ OwnerDraw
  \/ OwnerGuiOn \/ OwnerGuiOff \/ OwnerGuiIdle
  \/ ChangeModeSecondLamp \/ ChangeModeLeave
  \/ \E c \in Cameras : ChangeModeTest(c) \/ ChangeModeMovieOn(c)
  \/ UpdateDelay \/ UpdateLeave

Writer(c) == NextModeEnter(c) \/ NextModeWoken(c) \/ WriteMode(c) \/ WriteFails(c)

Presses == \E c \in Pressable, movie \in BOOLEAN : Press(c, movie)
MotionReports == \E c \in Connected : ChangeModeEnter(c)

Next ==
  \/ Presses \/ MotionReports
  \/ Swing \/ Owner
  \/ AddFrame
  \/ \E c \in Connected : UpdateEnter(c) \/ Writer(c)

ShowsFrame(c) == writer[c].at # "closed" /\ UpdateEnter(c)

Spec == Init /\ [][Next]_vars

(* Every thread runs; one that competes for the lock gets it in the end;   *)
(* and each connected camera goes on sending frames, which are shown, as   *)
(* long as its socket is open.                                             *)
FairSpec ==
  /\ Spec
  /\ WF_vars(Owner)
  /\ SF_vars(Swing)
  /\ \A c \in Connected : SF_vars(Writer(c)) /\ SF_vars(ShowsFrame(c))

-----------------------------------------------------------------------------
TypeOK ==
  /\ movieModeOn \in [Cameras -> BOOLEAN] /\ motionDetected \in [Cameras -> BOOLEAN]
  /\ changed \in [Cameras -> BOOLEAN] /\ skipped \in [Cameras -> BOOLEAN]
  /\ onOption \in [Cameras -> BOOLEAN] /\ stale \in [Cameras -> BOOLEAN]
  /\ mode \in [Cameras -> Modes]
  /\ swing \in Swings
  /\ task \in Tasks /\ call \in Calls
  /\ writer \in [Connected -> [at : {"enter", "wait", "woken", "write", "closed"}, mode : Modes]]

(* No lost wakeup: a writer that waits has seen the present mode.  Every   *)
(* change of a mode, nested or not, is followed by notifyAll.              *)
WaitersAreUpToDate == \A c \in Connected : writer[c].at = "wait" => writer[c].mode = mode[c]

(* The models of two cameras do not show motion at once when no method     *)
(* runs.                                                                   *)
OneMotionLamp == Free => ~(motionDetected[1] /\ motionDetected[2])

Agree(c) == movieModeOn[c] <=> mode[c] = MODE_MOVIE
Shows(c) == onOption[c] = movieModeOn[c]

(* With the Swing thread idle and no method running, a camera's model has  *)
(* its mode, unless another thread cleared the flag between the Swing      *)
(* thread's setChanged and its notifyObservers; and its button shows what  *)
(* the model has, unless the thread that drew it last came too late: the   *)
(* other had changed the model since this one read it, or since the press. *)
ButtonsShowMode ==
  \A c \in Cameras : Free /\ swing.at = "idle" =>
    /\ ~Agree(c) => skipped[c]
    /\ ~Shows(c) => stale[c]

(* Once nobody presses a button and no motion is reported, the buttons,    *)
(* models and modes of the connected cameras come to agree and stay so,    *)
(* but for a camera whose socket has been closed.                          *)
FramesHealButtons ==
  <>[][~(Presses \/ MotionReports)]_vars =>
    \A c \in Connected : <>[](Agree(c) /\ Shows(c)) \/ <>(writer[c].at = "closed")

(* The mode as the writers will see it: while changeMode runs, which they  *)
(* cannot, what it sets in the end.                                        *)
ModesAhead == IF task.method = "changeMode" THEN [c \in Cameras |-> MODE_MOVIE] ELSE mode

WriterAhead ==
  [c \in Connected |->
     [at |-> IF writer[c].at = "woken" THEN "wait" ELSE writer[c].at, mode |-> writer[c].mode]]

Client == INSTANCE ClientModes WITH clientMode <- ModesAhead, writer <- WriterAhead

(* To the writers the monitor is one mode per camera that changes at once: *)
(* the setters that changeMode and update call, the notifications that     *)
(* nest in them and the Swing thread that comes between never let one see  *)
(* anything else, and nextMode returns only what is new.                   *)
ImplementsClientModes == Client!Spec

(* What nextMode promises the writer, to block "until a request for a new  *)
(* mode of operation has been received" and return it: no writer starts to *)
(* wait while the present mode is not the last it was given and sent, or,  *)
(* before its first call, not the Idle in which client and server begin.   *)
RequestsAreSent ==
  [][\A c \in Connected :
       writer[c].at = "enter" /\ writer'[c].at = "wait" => writer[c].mode = mode[c]]_vars
=============================================================================
