------------------------------ MODULE SyncMode ------------------------------
(***************************************************************************)
(* The settings: the synchronous mode and the automatic mode.  Each is     *)
(* kept three times, in SettingsModel, in the Monitor and in the buttons,  *)
(* and changed from two sides: by the user, in the Swing thread, and by    *)
(* Monitor.update, in the Updater, when the delays of the cameras tell the *)
(* automatic mode to.                                                      *)
(*                                                                         *)
(* SettingsModel and the buttons have no lock, so a step is one access to  *)
(* one of their variables.  Only Monitor.updateGui needs the monitor's     *)
(* lock, which update holds from its decision to its return.  A setter     *)
(* called by updateGui is the last thing it does, so that no thread ever   *)
(* has more than its place and its lock to remember.                       *)
(*                                                                         *)
(* The names differ from those of ClientMonitor, the other half of the     *)
(* Monitor: ClientMonitor_proofs extends both.                             *)
(***************************************************************************)

VARIABLES
  settings,    \* SettingsModel, with its flag as an Observable
  monitor,     \* Monitor, and who has its lock
  buttons,     \* the two options of SwitchButton; AutoButton's field, and how it looks
  at,          \* where each thread is
  argument,    \* what it will pass to a setter
  pressed,     \* the button the Swing thread is handling
  overlapped,  \* history: did the threads' last calls overlap
  choice       \* history: the mode the user's press changed to, or "none"

threadVars == <<argument, pressed>>
historyVars == <<overlapped, choice>>
syncVars == <<settings, monitor, buttons, at, threadVars, historyVars>>

Threads == {"swing", "updater"}
Labels == {"idle", "asleep", "toggle", "setAuto", "setSync", "setChanged", "notify",
           "readSync", "activeOn", "activeOff", "readAuto", "activate", "select",
           "updateGui", "takeSync", "isAuto", "resetAuto", "testAuto", "takeAuto",
           "returnGui", "selectOn", "selectOff"}
Unlocked == "free"

SyncInit ==
  /\ settings = [syncModeOn |-> FALSE, autoActivated |-> FALSE, changed |-> FALSE]
  /\ monitor = [currentState |-> FALSE, syncAuto |-> FALSE, owner |-> Unlocked]
  /\ buttons = [onOption |-> FALSE, offOption |-> TRUE, auto |-> FALSE, selected |-> FALSE]
  /\ at = [t \in Threads |-> "idle"] /\ argument = [t \in Threads |-> FALSE]
  /\ pressed = "Auto" /\ overlapped = FALSE /\ choice = "none"

Go(t, from, to) == at[t] = from /\ at' = [at EXCEPT ![t] = to]

InCall(t) == at[t] \notin {"idle", "asleep"}
Quiet == \A t \in Threads : ~InCall(t)

(* One access to a setting, a button, or the settings' value for a setter. *)
Store(t, from, to, setting, value) ==
  /\ Go(t, from, to)
  /\ settings' = [settings EXCEPT ![setting] = value]
  /\ UNCHANGED <<monitor, buttons, threadVars, historyVars>>

Draw(t, from, to, button, value) ==
  /\ Go(t, from, to)
  /\ buttons' = [buttons EXCEPT ![button] = value]
  /\ UNCHANGED <<settings, monitor, threadVars, historyVars>>

Read(t, from, to, setting) ==
  /\ Go(t, from, to)
  /\ argument' = [argument EXCEPT ![t] = settings[setting]]
  /\ UNCHANGED <<settings, monitor, buttons, pressed, historyVars>>

-----------------------------------------------------------------------------
(* The Swing thread                                                        *)

Chosen == pressed' = "Synchronous"

(* The user presses Synchronous or Asynchronous.  The button toggles by    *)
(* itself before its listener is called.                                   *)
PressMode ==
  /\ Go("swing", "idle", "setSync")
  /\ pressed' \in {"Synchronous", "Asynchronous"}
  /\ buttons' = [buttons EXCEPT ![IF Chosen THEN "onOption" ELSE "offOption"] = ~@]
  /\ argument' = [argument EXCEPT !["swing"] = Chosen]
  /\ overlapped' = InCall("updater")
  /\ choice' = IF overlapped' \/ settings.autoActivated # monitor.syncAuto THEN "none"
               ELSE IF Chosen # monitor.currentState THEN pressed' ELSE choice
  /\ UNCHANGED <<settings, monitor>>

(* The user presses Auto, which toggles too.                               *)
PressAuto ==
  /\ Go("swing", "idle", "toggle")
  /\ pressed' = "Auto" /\ buttons' = [buttons EXCEPT !.selected = ~@]
  /\ overlapped' = InCall("updater") /\ choice' = "none"
  /\ UNCHANGED <<settings, monitor, argument>>

(* The field is read again for the call of setAutoMode.                    *)
Toggle == Draw("swing", "toggle", "setAuto", "auto", ~buttons.auto)
SetAuto == Store("swing", "setAuto", "setChanged", "autoActivated", buttons.auto)

(* setOn or setOff, after setSyncMode has returned.                        *)
SelectOn == Draw("swing", "selectOn", "selectOff", "onOption", pressed = "Synchronous")
SelectOff == Draw("swing", "selectOff", "idle", "offOption", pressed # "Synchronous")

-----------------------------------------------------------------------------
(* The Updater                                                             *)

(* update has the lock and finds that the mode is to be on, or not.        *)
Switches(on) ==
  /\ monitor.owner = Unlocked /\ monitor.syncAuto
  /\ monitor' = [monitor EXCEPT !.currentState = on, !.owner = "updater"]
  /\ argument' = [argument EXCEPT !["updater"] = on]
  /\ overlapped' = InCall("swing")
  /\ choice' = IF overlapped' THEN "none" ELSE choice
  /\ UNCHANGED <<settings, buttons, pressed>>

SwitchToSynchronous ==
  ~monitor.currentState /\ Go("updater", "idle", "setSync") /\ Switches(TRUE)

(* In the synchronous branch update may wait before it decides, without    *)
(* the lock; what it decides then is for the mode it found before.         *)
Sleep ==
  /\ monitor.owner = Unlocked /\ monitor.currentState
  /\ Go("updater", "idle", "asleep")
  /\ UNCHANGED <<settings, monitor, buttons, threadVars, historyVars>>

SwitchToAsynchronous == Go("updater", "asleep", "setSync") /\ Switches(FALSE)

StayAsIs ==
  /\ monitor.owner = Unlocked
  /\ Go("updater", "asleep", "idle")
  /\ UNCHANGED <<settings, monitor, buttons, threadVars, historyVars>>

-----------------------------------------------------------------------------
(* SettingsModel, in either thread                                         *)

SetSync(t) == Store(t, "setSync", "setChanged", "syncModeOn", argument[t])
SetChanged(t) == Store(t, "setChanged", "notify", "changed", TRUE)

(* notifyObservers goes on only if the flag is still set, and the window,  *)
(* registered last, is told first.                                         *)
Notify(t) == settings.changed /\ Store(t, "notify", "readSync", "changed", FALSE)

(* The monitor when t's call is over.                                      *)
Released(t) == IF monitor.owner = t THEN [monitor EXCEPT !.owner = Unlocked] ELSE monitor

EndCall(t, from) ==
  /\ Go(t, from, IF t = "swing" /\ pressed # "Auto" THEN "selectOn" ELSE "idle")
  /\ monitor' = Released(t)
  /\ UNCHANGED <<settings, buttons, threadVars, historyVars>>

NotifyNobody(t) == ~settings.changed /\ EndCall(t, "notify")

-----------------------------------------------------------------------------
(* Window.update, in either thread                                         *)

ReadSync(t) == Read(t, "readSync", "activeOn", "syncModeOn")
ActiveOn(t) == Draw(t, "activeOn", "activeOff", "onOption", argument[t])
ActiveOff(t) == Draw(t, "activeOff", "readAuto", "offOption", ~argument[t])
ReadAuto(t) == Read(t, "readAuto", "activate", "autoActivated")
Activate(t) == Draw(t, "activate", "select", "auto", argument[t])

(* Mutant: the button is set but not drawn as it is set.                   *)
Select_Not(t) == Draw(t, "select", "updateGui", "selected", buttons.selected)

Select(t) == Draw(t, "select", "updateGui", "selected", argument[t])

-----------------------------------------------------------------------------
(* Monitor.updateGui, in either thread                                     *)

HasLock(t) == monitor.owner \in {Unlocked, t} /\ monitor' = [monitor EXCEPT !.owner = t]

(* The lock is taken, or had already, and the modes are compared.          *)
UpdateGui(t) ==
  /\ HasLock(t)
  /\ Go(t, "updateGui", IF settings.syncModeOn # monitor.currentState THEN "takeSync" ELSE "testAuto")
  /\ UNCHANGED <<settings, buttons, threadVars, historyVars>>

(* The mode is read again.                                                 *)
TakeSync(t) ==
  /\ Go(t, "takeSync", "isAuto")
  /\ monitor' = [monitor EXCEPT !.currentState = settings.syncModeOn]
  /\ UNCHANGED <<settings, buttons, threadVars, historyVars>>

Continue(t, from, to) ==
  Go(t, from, to) /\ UNCHANGED <<settings, monitor, buttons, threadVars, historyVars>>

(* Mutant: a change of the mode by hand leaves the automatic mode on.      *)
IsAuto_Keeps(t) == EndCall(t, "isAuto")

IsAuto(t) == IF settings.autoActivated THEN Continue(t, "isAuto", "resetAuto") ELSE EndCall(t, "isAuto")

(* setAutoMode(false), and through its notification updateGui once more.   *)
ResetAuto(t) == Store(t, "resetAuto", "setChanged", "autoActivated", FALSE)

(* Mutant: the wrong copy is compared.                                     *)
TestAuto_Sync(t) ==
  IF settings.autoActivated # monitor.currentState
  THEN Continue(t, "testAuto", "takeAuto") ELSE EndCall(t, "testAuto")

TestAuto(t) ==
  IF settings.autoActivated # monitor.syncAuto
  THEN Continue(t, "testAuto", "takeAuto") ELSE EndCall(t, "testAuto")

(* Mutant: the setting is set again instead of the monitor's copy.         *)
TakeAuto_Sets(t) == Continue(t, "takeAuto", "setChanged")

TakeAuto(t) ==
  /\ Go(t, "takeAuto", "returnGui")
  /\ monitor' = [monitor EXCEPT !.syncAuto = settings.autoActivated]
  /\ UNCHANGED <<settings, buttons, threadVars, historyVars>>

ReturnGui(t) == EndCall(t, "returnGui")

-----------------------------------------------------------------------------
InCallStep(t) ==
  \/ SetSync(t) \/ SetChanged(t) \/ Notify(t) \/ NotifyNobody(t)
  \/ ReadSync(t) \/ ActiveOn(t) \/ ActiveOff(t) \/ ReadAuto(t) \/ Activate(t) \/ Select(t)
  \/ UpdateGui(t) \/ TakeSync(t) \/ IsAuto(t) \/ ResetAuto(t)
  \/ TestAuto(t) \/ TakeAuto(t) \/ ReturnGui(t)

SwingStep == InCallStep("swing") \/ Toggle \/ SetAuto \/ SelectOn \/ SelectOff

SyncNext ==
  \/ PressMode \/ PressAuto \/ SwingStep
  \/ SwitchToSynchronous \/ Sleep \/ SwitchToAsynchronous \/ StayAsIs \/ InCallStep("updater")

SyncSpec == SyncInit /\ [][SyncNext]_syncVars

(* Each thread goes on, and the Swing thread gets the lock in the end      *)
(* though the Updater comes for it again and again.                        *)
FairSyncSpec == SyncSpec /\ SF_syncVars(SwingStep) /\ WF_syncVars(InCallStep("updater"))

-----------------------------------------------------------------------------
SyncTypeOK ==
  /\ settings \in [syncModeOn : BOOLEAN, autoActivated : BOOLEAN, changed : BOOLEAN]
  /\ monitor \in [currentState : BOOLEAN, syncAuto : BOOLEAN, owner : {t \in Threads : InCall(t)} \cup {Unlocked}]
  /\ buttons \in [onOption : BOOLEAN, offOption : BOOLEAN, auto : BOOLEAN, selected : BOOLEAN]
  /\ at \in [Threads -> Labels]
  /\ argument \in [Threads -> BOOLEAN]
  /\ pressed \in {"Synchronous", "Asynchronous", "Auto"}
  /\ overlapped \in BOOLEAN /\ choice \in {"none", "Synchronous", "Asynchronous"}

(* When neither thread is in a call the monitor has the mode that is in    *)
(* the settings, however the calls overlapped.  The automatic mode it may  *)
(* miss, since updateGui takes one change at a time; but only when it is   *)
(* switched off, and it does so again after a press of Auto that nothing   *)
(* overlaps.                                                               *)
MonitorFollowsSettings ==
  Quiet =>
    /\ monitor.currentState = settings.syncModeOn
    /\ settings.autoActivated => monitor.syncAuto
    /\ pressed = "Auto" /\ ~overlapped => monitor.syncAuto = settings.autoActivated

(* And the buttons show them, unless the last calls overlapped.            *)
ButtonsShowSettings ==
  Quiet /\ ~overlapped =>
    /\ buttons.onOption = settings.syncModeOn /\ buttons.offOption = ~settings.syncModeOn
    /\ buttons.auto = settings.autoActivated /\ buttons.selected = settings.autoActivated

(* A press that changes the mode is a choice, if it overlaps no call and   *)
(* the monitor had not missed the automatic mode.  It switches the         *)
(* automatic mode off, and the chosen mode stays, until Auto is pressed or *)
(* another call overlaps.  A press on the mode in effect changes nothing:  *)
(* the automatic mode, when it is on, stays on and may switch.             *)
ChoiceStays ==
  Quiet /\ choice # "none" =>
    monitor.currentState = (choice = "Synchronous") /\ ~monitor.syncAuto

(* A press is dealt with: the Swing thread is never stuck in it.           *)
PressesEnd == at["swing"] # "idle" ~> at["swing"] = "idle"
=============================================================================
