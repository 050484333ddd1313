------------------------------ MODULE Playout ------------------------------
(***************************************************************************)
(* When the client shows a frame: Monitor.addFrame, called by the          *)
(* ServerReaders, and Monitor.update, called by the Updater for ever, with *)
(* the frame buffer between them and a clock.                              *)
(*                                                                         *)
(* Both methods hold the monitor's lock but for the two waits of update,   *)
(* so a step is what a thread does from taking the lock to giving it back. *)
(* What update then does to the camera's model is in ClientMonitor; how    *)
(* the settings' buttons reach updateGui is in SyncMode, and one step      *)
(* here.  Times are milliseconds; the clock stops at a few instants only.  *)
(***************************************************************************)
EXTENDS FrameBuffer

CONSTANTS
  Server,                  \* by which server each frame is sent; they are
                           \* numbered in the order they are sent
  Instants,                \* bound: the times at which the clock is read
  SYNC_TIME_MS,            \* 500
  SYNC_TIME_HYSTERESIS_MS  \* 50

ASSUME FramesAssumption ==
  /\ Frames \subseteq Nat /\ Server \in [Frames -> {1, 2}]
  /\ \A f, g \in Frames : f < g /\ Server[f] = Server[g] => SentTime[f] <= SentTime[g]
ASSUME TimesAssumption ==
  /\ Instants \subseteq Nat /\ Instants # {} /\ SYNC_TIME_MS \in Nat \ {0}
  /\ SYNC_TIME_HYSTERESIS_MS \in 0 .. SYNC_TIME_MS

Servers == {1, 2}

VARIABLES
  now,                \* System.currentTimeMillis
  reader,             \* each ServerReader's receivedFrame, and when it was received
  movingAverage,      \* movingAverageServerOne, movingAverageServerTwo
  currentSyncTimeMs,
  currentState,       \* FALSE is ASYNCHRONOUS_MODE
  syncAuto,
  updater,            \* where update is, and the end of its timed wait
  shown,              \* history: which branch of update showed a frame
  inTime,             \* history: the frames that joined the buffer within SYNC_TIME_MS
  longest             \* history: the longest delay of a frame of the first server

delayVars == <<movingAverage, currentSyncTimeMs>>
modeVars == <<currentState, syncAuto>>
historyVars == <<shown, inTime, longest>>
vars == <<now, bufferVars, reader, delayVars, modeVars, updater, historyVars>>

Earliest == CHOOSE t \in Instants : \A other \in Instants : t <= other

Init ==
  /\ now = Earliest
  /\ BufferInit
  /\ reader = [s \in Servers |-> [frame |-> NoFrame, received |-> 0]]
  /\ movingAverage = [s \in Servers |-> 0] /\ currentSyncTimeMs = SYNC_TIME_MS
  /\ currentState = FALSE /\ syncAuto = FALSE
  /\ updater = [at |-> "enter", until |-> 0]
  /\ shown = [f \in Frames |-> "no"] /\ inTime = {} /\ longest = 0

(* The clock goes to the next instant, whatever the threads do.            *)
Tick ==
  /\ \E t \in Instants :
       /\ t > now /\ \A other \in Instants : other <= now \/ other >= t
       /\ now' = t
  /\ UNCHANGED <<bufferVars, reader, delayVars, modeVars, updater, historyVars>>

-----------------------------------------------------------------------------
(* A ServerReader                                                          *)

Arrived(f) ==
  \/ shown[f] # "no" \/ \E i \in DOMAIN frames : frames[i] = f
  \/ reader[Server[f]].frame = f

(* The reader has read the next frame of its server and constructs the     *)
(* ServerFrame, which notes the time.                                      *)
Receive(f) ==
  /\ ~Arrived(f) /\ reader[Server[f]].frame = NoFrame
  /\ \A g \in Frames : g < f /\ Server[g] = Server[f] => Arrived(g)
  /\ SentTime[f] <= now
  /\ reader' = [reader EXCEPT ![Server[f]] = [frame |-> f, received |-> now]]
  /\ UNCHANGED <<now, bufferVars, delayVars, modeVars, updater, historyVars>>

(* What (long)(average * 0.8 + delay * (1.0 - 0.8)) may be: truncated, and *)
(* a whole number may come out just below itself.                          *)
Averages(average, delay) ==
  LET sum == 4 * average + delay IN
  {sum \div 5} \cup (IF sum % 5 = 0 /\ sum > 0 THEN {sum \div 5 - 1} ELSE {})

(* Mutant: notifyAll is missing.                                           *)
Wake_Not == UNCHANGED updater

(* notifyAll wakes update from either wait.                                *)
Wake ==
  updater' = [updater EXCEPT !.at =
    CASE @ = "empty" -> "enter" [] @ = "sleep" -> "roused" [] OTHER -> @]

Delay(s) == reader[s].received - SentTime[reader[s].frame]

AddFrame(s) ==
  LET f == reader[s].frame IN
  /\ f # NoFrame
  /\ Add(f)
  /\ \E average \in Averages(movingAverage[s], Delay(s)) :
       movingAverage' = [movingAverage EXCEPT ![s] = average]
  /\ Wake
  /\ reader' = [reader EXCEPT ![s].frame = NoFrame, ![s].received = 0]
  /\ inTime' = IF now <= SentTime[f] + SYNC_TIME_MS THEN inTime \cup {f} ELSE inTime
  /\ longest' = IF s = 1 /\ Delay(s) > longest THEN Delay(s) ELSE longest
  /\ UNCHANGED <<now, currentSyncTimeMs, modeVars, shown>>

-----------------------------------------------------------------------------
(* The Updater                                                             *)

Difference ==
  LET d == movingAverage[1] - movingAverage[2] IN IF d < 0 THEN -d ELSE d

Peek == frames[Len(frames)]

(* The frame is taken and shown, and update returns.                       *)
Show(branch) ==
  /\ Pop
  /\ shown' = [shown EXCEPT ![popped'] = branch]
  /\ updater' = [at |-> "enter", until |-> 0]

UpdateWaitsForFrame ==
  /\ updater.at = "enter" /\ frames = <<>>
  /\ updater' = [updater EXCEPT !.at = "empty"]
  /\ UNCHANGED <<now, bufferVars, reader, delayVars, modeVars, historyVars>>

UpdateAsynchronous ==
  /\ updater.at = "enter" /\ frames # <<>> /\ ~currentState
  /\ Show("async")
  /\ currentState' = (syncAuto /\ Difference < SYNC_TIME_MS - SYNC_TIME_HYSTERESIS_MS)
  /\ UNCHANGED <<now, reader, delayVars, syncAuto, inTime, longest>>

(* Mutant: the average of the other server.                                *)
GrownSyncTime_Other ==
  IF 2 * currentSyncTimeMs < movingAverage[2] THEN 4 * currentSyncTimeMs ELSE currentSyncTimeMs

(* Line 92 compares the first server's average, twice.                     *)
GrownSyncTime ==
  IF 2 * currentSyncTimeMs < movingAverage[1] THEN 4 * currentSyncTimeMs ELSE currentSyncTimeMs

(* Mutant: the frame is shown when the wait ends, whatever ended it.       *)
ShowWhenDue_Once(syncTime) ==
  IF updater.at = "enter" /\ SentTime[Peek] + syncTime > now
  THEN /\ updater' = [at |-> "sleep", until |-> SentTime[Peek] + syncTime]
       /\ UNCHANGED <<bufferVars, currentState, shown>>
  ELSE /\ Show("sync")
       /\ currentState' = (currentState /\ ~(syncAuto /\ Difference > SYNC_TIME_MS + SYNC_TIME_HYSTERESIS_MS))

(* The loop of lines 105-113 and what follows it; the time to wait for is  *)
(* that of the frame that is now at the head.                              *)
ShowWhenDue(syncTime) ==
  LET due == SentTime[Peek] + syncTime IN
  IF due > now
  THEN /\ updater' = [at |-> "sleep", until |-> due]
       /\ UNCHANGED <<bufferVars, currentState, shown>>
  ELSE /\ Show("sync")
       /\ currentState' = (currentState /\ ~(syncAuto /\ Difference > SYNC_TIME_MS + SYNC_TIME_HYSTERESIS_MS))

UpdateSynchronous ==
  /\ updater.at = "enter" /\ frames # <<>> /\ currentState
  /\ currentSyncTimeMs' = GrownSyncTime
  /\ ShowWhenDue(GrownSyncTime)
  /\ UNCHANGED <<now, reader, movingAverage, syncAuto, inTime, longest>>

(* wait(nextDispTime - currentTime) returns, notified or at its time.      *)
UpdateWakes ==
  /\ updater.at = "roused" \/ (updater.at = "sleep" /\ now >= updater.until)
  /\ ShowWhenDue(currentSyncTimeMs)
  /\ UNCHANGED <<now, reader, delayVars, syncAuto, inTime, longest>>

-----------------------------------------------------------------------------
(* What else happens to the monitor                                        *)

(* updateGui has seen a button Synchronous or Asynchronous: the automatic  *)
(* mode is switched off with it.  Nothing is notified.                     *)
PressSync(on) ==
  /\ currentState # on
  /\ currentState' = on /\ syncAuto' = FALSE
  /\ UNCHANGED <<now, bufferVars, reader, delayVars, updater, historyVars>>

PressAuto ==
  /\ syncAuto' = ~syncAuto
  /\ UNCHANGED <<now, bufferVars, reader, delayVars, currentState, updater, historyVars>>

(* A mode of operation changes (ClientMonitor): notifyAll.                 *)
ModeChanges ==
  /\ Wake
  /\ UNCHANGED <<now, bufferVars, reader, delayVars, modeVars, historyVars>>

-----------------------------------------------------------------------------
Updater == UpdateWaitsForFrame \/ UpdateAsynchronous \/ UpdateSynchronous \/ UpdateWakes

Next ==
  \/ Tick
  \/ \E f \in Frames : Receive(f)
  \/ \E s \in Servers : AddFrame(s)
  \/ Updater
  \/ \E on \in BOOLEAN : PressSync(on)
  \/ PressAuto \/ ModeChanges

Spec == Init /\ [][Next]_vars

(* Time passes, and the threads that can run do.                           *)
FairSpec ==
  /\ Spec
  /\ WF_vars(Tick) /\ WF_vars(Updater)
  /\ \A s \in Servers : WF_vars(AddFrame(s))

-----------------------------------------------------------------------------
TypeOK ==
  /\ now \in Instants
  /\ frames \in Seq(Frames) /\ popped \in Frames \cup {NoFrame}
  /\ reader \in [Servers -> [frame : Frames \cup {NoFrame}, received : Nat]]
  /\ movingAverage \in [Servers -> Nat] /\ currentSyncTimeMs \in Nat
  /\ currentState \in BOOLEAN /\ syncAuto \in BOOLEAN
  /\ updater \in [at : {"enter", "empty", "sleep", "roused"}, until : Nat]
  /\ shown \in [Frames -> {"no", "sync", "async"}]
  /\ inTime \subseteq Frames /\ longest \in Nat

IsShown(f) == shown[f] = "no" /\ shown'[f] # "no"

(* In synchronous mode no frame is shown before its time, whatever is      *)
(* added while update waits and whoever wakes it.                          *)
NeverEarly ==
  [][\A f \in Frames :
       IsShown(f) /\ shown'[f] = "sync" => now >= SentTime[f] + currentSyncTimeMs]_vars

(* A frame is shown after one that was sent later and shown synchronously  *)
(* only if it came more than SYNC_TIME_MS after it was sent itself: what   *)
(* the synchronous mode delays frames for, across the two cameras.         *)
InOrderIfInTime ==
  [][\A f, g \in Frames :
       IsShown(f) /\ shown[g] = "sync" /\ SentTime[f] < SentTime[g] => f \notin inTime]_vars

(* The frames of one camera are shown in the order it sent them, in either *)
(* mode and across changes of mode, those of the same millisecond apart.   *)
PerCameraOrder ==
  [][\A f, g \in Frames :
       IsShown(f) /\ shown[g] # "no" /\ Server[f] = Server[g] => SentTime[g] <= SentTime[f]]_vars

(* While update sleeps it sleeps until the time of the frame at the head,  *)
(* and there is one: a frame that came in between has woken it.            *)
NoOversleep ==
  updater.at = "sleep" => frames # <<>> /\ updater.until = SentTime[Peek] + currentSyncTimeMs

(* update does not wait for a frame that is there.                         *)
NoLostFrame == updater.at = "empty" => frames = <<>>

(* The sync time follows the first server's delays only, and stays below   *)
(* twice the longest of them.                                              *)
SyncTimeBounded == currentSyncTimeMs > SYNC_TIME_MS => currentSyncTimeMs < 2 * longest

(* Every frame put in the buffer is shown.                                 *)
EveryFrameIsShown == \A f \in Frames : (\E i \in DOMAIN frames : frames[i] = f) ~> (shown[f] # "no")
=============================================================================
