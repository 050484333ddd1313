# Verification of the video surveillance system

The system is a camera server (`src/Server`, C with POSIX threads) that streams
JPEG frames to one client at a time, serves a web page, and switches between
the modes Idle and Movie by request or when it detects motion; and a client
(`src/Client`, Java with Swing) that shows the frames of one or two such
cameras and sends the mode requests.  This directory models the parts of it
whose correctness depends on threads, locks and unlocked shared state, checks
them with TLC on small instances, and proves the main facts with TLAPS.

## Inventory

### Server

| Part | State | Operations | Meets |
|---|---|---|---|
| `mode_handler.c` | `mode`, `mode_mutex`, callback list | `set_mode`, `get_mode` (no caller), `register_on_change_callback`, `close_mode_handler` | called by every listener and by the motion thread; calls `socket_set_mode` with its mutex held |
| `socket_writer.c` | `mode` (a copy), `motion_bit`, `lock`; the local `stream_socket` whose address goes to the listener | `stream_callback`, `output_header`, `output_jpeg`, `socket_set_mode` | reads `mode` and `motion_bit` without a lock; reopens the socket after every session |
| `socket_listener.c` | its copy of the descriptor, `nothing_count` | reads one byte at a time; `0`, `1` set the mode; after more than 10 junk reads it closes the descriptor and writes -1 into the stream thread's variable | one thread per accepted connection, never joined |
| `socket.c` | `jpeg_socket`, `web_socket`, `mutex` | open and close of the two listening sockets | the stream thread and `main` |
| `webb_listener.c` | `newsockfd`, `web_running` | accept, read, answer with page or picture, close | shares the descriptor numbers with everybody |
| `http_server.c` | `running` | starts three threads, spins, closes everything on SIGINT | |
| `motion_listener.c`, `camera.c` | none | compares two frames, asks for Movie | `set_mode` |

Hard: five kinds of thread, two locks and several variables read outside them;
descriptors that are closed by one thread while another writes to them, and
numbers that come back for other connections; a client that goes away; `accept`
whose result is not tested; a shutdown that stops no thread.

### Client

| Part | State | Operations | Meets |
|---|---|---|---|
| `Monitor.java` | one mode per camera, frame buffer, delay averages, synchronous and automatic mode | `update`, `nextMode`, `changeMode`, `addFrame`, `updateGui`, all synchronized | every thread; observer of the models |
| `CameraControlModel.java` | image, delay, `movieModeOn`, `motionDetected`, and the `changed` flag of `Observable` | setters, each followed by `setChanged` and `notifyObservers` | written without a lock by the Swing thread, and under the monitor's lock by the others |
| `SettingsModel.java` | synchronous and automatic mode | setters | the same |
| `ServerReader.java` | the parser's position, `motion` | `read`, `run` | `changeMode`, `addFrame` |
| `ServerWriter.java` | the mode to send | `run` | waits in `nextMode` |
| `FrameBuffer.java` | frames by sending time | `add`, `peek`, `pop` | under the monitor's lock |
| `Updater.java` | none | calls `update` for ever | |
| `GUI/` | widgets | buttons call the setters, and are drawn by them and by the views the models notify | drawn by the Swing thread and by the thread in the monitor, without a lock |

Hard: `Observable`'s flag, set and tested in two calls that two threads can
interleave; buttons drawn from a mode another thread has changed since it was
read; setters that call back into the monitor whose method called them;
conditions that `notifyAll` must announce from three methods; a wait until a
time that a new frame may change.

## What is modelled

**ModeRegister** is what the mode handling promises: one register with the mode
and whether motion asked for it, changed by one atomic request.

**ModeHandler** is the code.  A step takes a thread from one lock operation to
the next, or makes one access to a variable that is read without a lock.
`Call` is a thread's call with its arguments; `SetModeEnter` is `MODE_LOCK`
with the test and assignment under it; `SocketSetModeEnter`, `StoreMotionBit`,
`StoreMode` and `SocketSetModeLeave` are `socket_set_mode`; `SetModeLeave` is
`MODE_UNLOCK`.  The two stores may come in either order, since one variable is
not volatile.  `SampleMode` and `SendModeByte` are the two reads of
`output_header`.  `CloseModeHandler` is the last call of `main`; what a thread
does with the destroyed mutex is undefined and the model ends there.
The callback list is the one entry `main` registers before it starts a thread.

**StreamServer** has the descriptors.  `socket` and `accept` return the lowest
free number, as the kernel does.  `stream_socket` is the stream thread's
variable, which the listeners overwrite.  One action stands for each statement
that touches it, a descriptor or a socket variable (`Stream...`, `Listener...`,
`Web...`, `Main...`).  The connections and TCP are outside the repository; they
are modelled from how the code uses them: a client closes or resets, the side
that closes first holds the local port until `LingerExpires`, a write on a
reset connection raises SIGPIPE.  `set_mode` is one step here, as
`SetModeIsAtomic` in `ModeHandler_proofs` entitles it to be.  `bind` without
`SO_REUSEADDR` fails while the port is held, and the process exits, as in
`open_socket`.  `Fds` bounds the descriptors: the three actions that open one are
guarded by there being a free number, which in the runs there always is (at
most four of seven are in use).  Which answer the browser gets is in
`WebListener`, the bytes of a frame are in `ServerReader`.

**ClientModes** is what the `Monitor` promises the `ServerWriter`s: a mode per
camera, which changes in one step, one camera's by request and all cameras'
when motion is reported, and `nextMode` on it.

**ClientMonitor** has the modes of the two cameras, their models and buttons, and
the threads.  The owner of the monitor's lock takes a step for each access to a
model, because the Swing thread can come between any two; everything else it
does belongs to the step before.  `Setter` starts a call of a model's setter,
`OwnerSetChanged` and `OwnerNotify` are `setChanged` and `notifyObservers`, and
`OwnerGuiOn`, `OwnerGuiOff`, `OwnerGuiIdle` the reads of `updateGui`, which runs
in the notifying thread; a setter called from it nests once (`call.depth`).
`OwnerView` and `OwnerDraw` come between the flag and `updateGui`, as the view
registered last: `CameraControlView.update` reads the mode and then draws the
button.  `Press`, `SwingSetChanged`, `SwingNotify` and `SwingUpdateGui` are the
same for a press, and `SwingSelect` is the `setOn` or `setOff` that follows
whatever the setter did (`SwitchButton.java:83`, `:87`).  `onOption` is whether a
camera's button has Movie selected; the other option is drawn by the same calls
right after it, to the opposite, and read by nobody, so that whatever is said of
one option holds of the other.  `stale` remembers that a button was last drawn
to what the model no longer was.  `SetModes` joins the assignment of a mode and the `notifyAll` that
follows under the same lock.  `UpdateEnter` only makes the calls of setters
`update` makes; which frame it shows and when is in `Playout`.  A `ServerReader`
may report motion at any time, which is more than the parser of `ServerReader`
does.  The module implements `ClientModes`: while `changeMode` runs, the modes it
will set stand for the modes (`ModesAhead`), and a writer that has been woken is
one that waits (`WriterAhead`).

**FrameSet** is what the frame buffer promises: a set of frames from which the
one taken is always an oldest.

**FrameBuffer** is the linked list of `FrameBuffer.java`.  `InsertionIndex` is
the loop of `add`: the place of the first frame that is older, or the end.
`Add` and `Pop` are the two methods that change the list; the monitor calls them
under its lock, and `pop` only after `peek` has returned a frame.  Frames sent
in the same millisecond come out last in, first out, which is why `FrameSet`
asks for an oldest frame and not for the oldest.

**Playout** puts the buffer between the threads that fill and empty it.
`Receive` and `AddFrame` are a `ServerReader` with its `ServerFrame` and
`addFrame`; `UpdateWaitsForFrame`, `UpdateAsynchronous`, `UpdateSynchronous` and
`UpdateWakes` are `update`, cut at its two waits, where it gives up the lock.
`Tick` is the clock, which stops at the instants of `Instants` only; what a
thread does takes no time, so any number of steps may fall on one instant.  The
running average is a `long` assigned from `double` arithmetic: `Averages` allows
the truncated value and, where the exact one is a whole number, one less.
`PressSync`, `PressAuto` and `ModeChanges` are the other methods of the monitor,
one step each; `SyncMode` and `ClientMonitor` have their details.  The module
assumes that the servers' clocks are not ahead of the client's (no negative
delay), that a timed wait does not end by itself, and that nobody interrupts a
thread, as nobody does.

**MotionReader** is what a `ServerReader` promises: it acts on the mode byte of
each header once and in the order they were sent, and notes motion when a header
brings it after one that did not.  A connection that ends inside a header makes
it act on one more, which nobody sent and which says motion (`MakeUp`).

**ServerReader** has the bytes.  The server's half is `output_start_flag`,
`output_header` and `output_jpeg` (`CaptureAndOutput`, `Write`, `ServerCloses`);
the client's is `read`, one byte a step, with the part of `run` that follows.
A word of the header has two bytes, the higher first (`Bytes`), instead of eight
and four, and the flag in the run two: the first byte of a word still holds the
sign, a word may still be cut off between its bytes, and a partial flag still
occurs.  Any mode
byte may be sent, since `ModeHandler` shows that a header can be torn.  A reset
loses any of the bytes on the wire.  `available()` never announces the end of
a stream, and `read()` there gives -1 for ever, which the code casts to a byte.  The
module implements `MotionReader`: the mode bytes sent and not yet acted on stand
for the headers under way (`Ahead`), until the reader acts on one that was made
up (`AllSent`).

**SyncMode** has the three copies of the two settings (in `SettingsModel`,
`Monitor` and the buttons) and the two threads that change them, one access a
step: `PressMode`, `PressAuto` and what the buttons do afterwards; `Switches`
for the automatic change in `update`; `SettingsModel`'s setters with the
`Observable` flag; `Window.update`; and the settings part of `updateGui`, with
the call of `setAutoMode` from inside it.  The fields are not volatile, but each
is read after the synchronized methods of `Observable` that its writer called
in between, so a read sees the last write here.  The module shares
no name with `ClientMonitor`, so that one module of proofs can extend both.

**VideoSystem** is the composition: for each camera the client's mode, its
`ServerWriter`, the requests under way, the server's register, the headers under
way and the `ServerReader`'s memory of motion.  It rests on three abstract
modules, each implemented by a module below and each kept to by the composition, which is proved: `ModeRegister` for the servers
(`ModeHandler`; `ServersAreRegisters`), `ClientModes` for the client's modes and
writers (`ClientMonitor`; `ClientIsClientModes`), and `MotionReader` for each
`ServerReader` (`ServerReader`; `ReadersAreMotionReaders`).  The server's two
reads of mode and bit for a header are the two of `ModeHandler`.  No connection
ends here: the readers act on mode bytes that were sent only, and no writer
closes its socket.

**WebListener** is the web thread: `Listen`, `Accept`, `Read` with the search
for `STOP` (compiled in, because `socket.h` defines `DEBUG`), `Choose` between
picture and page, `Written`, `Close`.  A request is a sequence of parts as they
arrive, each the set of words it completes; `ReadLimit` parts stand for the 1023
bytes of the buffer.  `clilen` is not initialised, so an `accept` may fail and
drop the connection (`AcceptFails`, `ServeNobody`).

**MotionDetect** is the motion thread and `analyse_frames`, with signed bytes as
`char` is on the camera's processor (MIPS) and the stride taken as `Width`.
`Round` is one round of the two loops and the recursive function `sum` what they
have added up after each.  A capture is assumed to succeed.

The proof modules (`ModeHandler_proofs`, `StreamServer_proofs`,
`WebListener_proofs`, `ClientMonitor_proofs` with those of `SyncMode`,
`Playout_proofs` with those of `FrameBuffer`, `ServerReader_proofs`, `MotionDetect_proofs`,
`VideoSystem_proofs`) hold the theorems; the modules named `MC...` instantiate
the others for TLC.  `SyncMode` has no constants and
`MCSyncMode` only extends it.

How they depend on each other: `ModeHandler` and `VideoSystem` have an `INSTANCE`
of `ModeRegister`, `ClientMonitor` and `VideoSystem` of `ClientModes`,
`ServerReader` and `VideoSystem` of `MotionReader`, and `FrameBuffer` of
`FrameSet`; `Playout` extends
`FrameBuffer`, whose `Add` and `Pop` its actions call.
The other cuts are by abstraction: one module treats as a step what another
takes apart, as said above.

## Runs

| Configuration | Asks | Checks |
|---|---|---|
| `MCModeHandler` | two listeners and the motion thread in `set_mode` while headers are sent | `ModesAgree`, `MotionBitMeansMovie`, `TornOnlyByOverlap`, `MutexReleased`, and that it implements `ModeRegister` |
| `MCStreamServer` | two sessions, a browser, an `accept` that fails, a shutdown at any moment | `NoDescriptorLeak`, `ListenerOwnsDescriptor`, `StraysOnlyWhileClosing` |
| `MCStreamServerLive` | the same without browser and failure: does it go on | `LostClientsAreReleased`, `ServesAgain`, `ShutdownCompletes` |
| `MCClientMonitor` | both cameras: presses and buttons, motion, frames, requests | `WaitersAreUpToDate`, `OneMotionLamp`, `ButtonsShowMode`, and that it implements `ClientModes` |
| `MCClientMonitorLive` | one camera connected: do frames repair button, model and mode | `FramesHealButtons` |
| `MCClientMonitorLost` | is every request sent, as `nextMode` documents | `RequestsAreSent`, **violated** |
| `MCPlayout` | two cameras, quick frames and frames held up for seconds, changes of mode at any time | `NeverEarly`, `InOrderIfInTime`, `PerCameraOrder`, `SyncTimeBounded`, `EveryFrameIsShown`, and that the buffer implements `FrameSet` |
| `MCServerReader` | any mode bytes, images that hold the flag, a connection that ends anywhere | `DeliversWhatWasSent`, `HeadersWereSent`, `MotionReportedOnce`, `FramesArrive`, and that it implements `MotionReader` |
| `MCSyncMode` | presses and automatic switches that overlap | `MonitorFollowsSettings`, `ButtonsShowSettings`, `ChoiceStays`, `PressesEnd` |
| `MCVideoSystem` | two cameras end to end | `AgreeAtRest`, `ClientIsClientModes`, `MotionGetsThrough`, `IdleGetsThrough` |
| `MCWebListener` | three browsers: parts of requests, silence, STOP | `AnswersFit`, `StopEndsService`, `EveryoneIsServed` |
| `MCMotionDetect` | does `analyse_frames` find motion where it looks, and only then | `FoundWhereWatched`, `BitMeansMotion` |

Every run but `MCClientMonitorLost` passes.  The types are theorems, and no run
checks them again; nor does one check `ServersAreRegisters`,
`ReadersAreMotionReaders` and the other facts that are proved only.

### The violation

`nextMode` compares with the mode it finds on entry
(`src/Client/Control/Monitor.java:161`) and not with the one it last returned.
A change of a camera's mode while its `ServerWriter` is not waiting in `nextMode`
is taken for the old mode and not sent: the camera stays in the mode it had until
the next change.  TLC's trace shows the shortest case, a press of Movie before
the writer's first call of `nextMode`, which then finds Movie and waits for
another mode although the server is in Idle.  The same happens to a change while
the writer writes the one before.

### What else the models show

These are behaviours of the code that the models have and that no passing
property denies; where a property is weaker than one might expect, this is why.

- `main` may destroy `mode_mutex` and free the callback list while a listener
  or the motion thread is in `set_mode`: the lock and unlock that
  `src/Server/mode_handler.c:50` announces are commented out.  The process
  returns from `main` right after.
- `src/Server/socket_listener.c:56-58` closes the descriptor before it
  publishes -1.  Meanwhile the web thread may be given the number, and the
  stream thread sends a browser the rest of its frame.
  `StraysOnlyWhileClosing` says that no frame is begun on the number once -1 has
  been published; one already begun goes on to its end, since the number is
  passed by value.
- A frame written to a client that has reset raises SIGPIPE, which is neither
  handled nor ignored, and the process ends.  The liveness properties accept
  the end of the process for this reason, and for the next.
- After a session that the server closed first, the port cannot be bound again
  at once, and the process exits (`process = "aborted"`).
- When an `accept` fails, the listener started for it may run so late that it
  copies the descriptor of the next connection; two listeners then read and
  close it, and two connections with one failure are enough for it.  With a
  third, the stray listener publishes -1 into a session that is not its own:
  the stream thread goes on to the next client, and nobody closes the session's
  descriptor.  `ListenerOwnsDescriptor`, `StraysOnlyWhileClosing` and what
  `NoDescriptorLeak` says of the sessions' descriptors therefore speak of the
  time before the first failure; what it says of the listening socket is so
  always.
- The loop at `src/Client/Control/Monitor.java:105-113` looks at the time only,
  and `updateGui` notifies nobody when it changes the mode, so a frame that
  `update` waits for is held although the comment at line 69 wants it shown at
  once in the asynchronous mode.
- Idle is pressed while the mode is Movie, and before the Swing thread calls
  `setChanged` a reader's `changeMode` finds `movieModeOn` off and restores Movie.
  Then `setOff` runs (`src/Client/GUI/SwitchButton.java:87`): button Idle, model
  and mode Movie, until the next frame or notification draws the button.  The
  same follows when the thread in the monitor has read the mode for the view
  and draws it only when a press has come and gone.  The second half of `ButtonsShowMode` says that a
  button is wrong only in these ways (`stale`), the first that a model and its
  mode differ only after a swallowed notification (`skipped`);
  `FramesHealButtons` that frames repair both.
- A press of Synchronous or Asynchronous when that mode is already in effect
  changes nothing, and leaves the automatic mode on (`Monitor.java:283`), which
  may then switch: `ChoiceStays` is about presses that change the mode, that
  overlap no other call and find the monitor with the automatic mode of the
  settings.
- Calls of the Updater and the Swing thread that overlap may leave the settings'
  buttons wrong: `ButtonsShowSettings` says nothing of such calls.
- `src/Client/Control/Monitor.java:92` takes the average of the first server
  twice, so the delay of the second camera never raises the sync time.
  `GrownSyncTime` is as the code has it.
- A header cut off by the end of the stream is filled up with 0xFF.  Its mode
  byte reports motion (`src/Client/Control/ServerReader.java:116`) before the
  timestamp is found negative: the last case of `HeadersWereSent`, and `MakeUp`
  of `MotionReader`.
- -1 at the end of the stream is not an exception, so the reader searches for
  the flag for ever and its thread does not end.
- `updateGui` takes one change at a time (the `else if` at `Monitor.java:289`).
  After a notification has been swallowed, the monitor's automatic mode may
  stay on though the setting is off, until Auto is pressed again;
  `MonitorFollowsSettings` says exactly how far the two may differ.
- When a request for Idle and new motion fall between two headers, the server
  ends in Movie and the client in Idle: the last case of `AgreeAtRest`.
- `src/Server/camera.c:61` indexes with `i + j`, the stride commented out: the
  first width + height - 1 bytes of the frames are compared, most of them many
  times, and no others.  `FoundWhereWatched` is about those.

### Bounds, and why they are enough

- `Listeners = {l1, l2}`, `Motions = {m1}`: the code has one motion thread and
  may have an old listener beside a new one.  `set_mode` distinguishes threads
  only by their arguments, and with three that compete for a mutex a holder
  and two that wait all occur.  The theorems hold for any number.
- `StreamConns`: a second session meets whatever the first left behind, and
  while no `accept` fails the proofs need no more of a session than that.  After
  a failure it takes a third to see a descriptor lost: with three, a tolerance
  of 0 and one failure TLC takes a few minutes (6.9 million states) and finds
  `NoDescriptorLeak` violated if its premise `failures = 0` is dropped.  The
  theorems hold for any number.  `WebConns`: one browser is enough to take a
  number the stream gives up; the liveness run has none, since the browser
  shares only descriptors with the stream.  `Fds` has more numbers than are
  ever in use.  `JIBBERISH_TOLERANCE = 1` instead of 10 makes the count pass
  through below, at and above the tolerance.  `MaxAcceptFailures` bounds the
  failures.
- `Connected = {1, 2}` is the program with two arguments, `{1}` with one; the
  liveness run uses one camera, as the cameras' buttons do not meet.
  `Pressable = {2}` in the first run: with the buttons of both cameras pressed
  (11.8 million states, a few minutes with four workers) TLC finds no error
  either, and the theorems hold for both; in the other runs both are pressed.
- `Playout`: three frames of two cameras, one camera with two, so that a frame
  of the other can come before, between and after.  The clock stops at the
  times of sending, at those 500 ms later, and at one that makes the averages
  pass the thresholds of `update`, upwards with the frame held up and downwards
  with the one after it.  The theorems hold for any frames and times.
- `ServerReader`: images that begin with the flag and images of one byte of it,
  so that a search that begins in an image is possible; three frames for motion,
  its end and its return; two bytes on the wire, as the reader never looks
  further than one.  `MaxImageSize = 300` is more than a size whose lower byte
  was filled up at the end of the stream (255), as 100000000 is more than
  0x00FFFFFF: the reader then waits for an image that never comes, while a size
  filled up in full is negative, and `new byte[]` throws.  The theorems hold for
  any flag, images and bounds below the largest word.
- `SyncMode` needs no bound: its state space is finite and TLC sees all of it.
- `VideoSystem`: two presses are enough to lose a request, one detection beside
  them to have motion between two headers; one header under way.  The theorems
  hold for any number of each.
- `WebListener`: three browsers, one with its request in two parts, one with
  more than a read returns, and one with STOP; with `Backlog = 1` the queue
  fills.
- `MotionDetect`: six bytes of four bits, in pictures that differ at any places,
  by one across the sign, by little, or everywhere.  `HalfByte = 8` makes the
  bytes those of four bits.  The theorems hold for any size, pictures and
  threshold.
- Deadlock is checked wherever the system goes on for ever; `Returned` and
  `Ended` are the steps of a process that has ended.  It is not checked where
  the system may really stop: `ServerReader` (the bound of frames, and a reader
  that waits) and `WebListener` (STOP, SIGPIPE, silent clients).

### Fairness

- `ModeHandler`: a thread inside `set_mode` goes on when it can (weak).  No
  thread is assumed to call it or to get a contended mutex.
- `StreamServer`: the stream thread and `main` go on when they can.  A listener
  goes on too, except in a read from a client that is open and may stay silent
  for ever.  Reads from a client that has closed return, and in the end return
  nothing, since what it sent was finite: this is strong fairness, as commands
  it had sent may come first.  Nothing is assumed of clients or the port timer.
- `ClientMonitor`: the owner of the lock goes on (weak); the Swing thread and
  the writers get the lock in the end though others take it in between (strong,
  because Java monitors are handed over by chance and not in order); and a
  connected camera's frames go on being shown, which is how the server streams.
- `Playout`: time passes, the Updater goes on when it can, and a `ServerReader`
  adds the frame it has read (weak).  Nothing is assumed of the network.
- `ServerReader`: the reader goes on, and the server writes to its end what it
  has begun while the connection is open (weak).
- `SyncMode`: the Updater ends a call it is in (weak); the Swing thread gets the
  monitor's lock in the end though the Updater comes back for it (strong).
  Nobody is assumed to press.
- `VideoSystem`: both threads of the client, the listener and the streaming
  thread go on (weak).  Neither user nor camera is assumed to do anything.
- `WebListener`: the web thread goes on when it can (weak).  `EveryoneIsServed`
  states its premise itself: no client keeps the thread for ever, by silence or
  by not taking its picture.

## Proofs

Each module of proofs gives an invariant that is inductive, one lemma that it
holds initially, one that every step keeps it, and the theorems that follow.
The assumptions are those the modules state of their constants.

`ModeHandler_proofs` proves, for any set of listeners and motion threads, type
correctness, `OneThreadInSetMode`, `ModesAgree`, `MotionBitMeansMovie`,
`TornOnlyByOverlap` and that `Spec` implements `ModeRegister!Spec`.  None of
the invariants is inductive alone.  `Inv` adds that the thread inside `set_mode`
is the owner of `mode_mutex`, that the owner of `lock` is that thread while it
writes, what `pending` may hold at each label, and how the mode, its copy and
the bit relate at each.  The refinement maps the change to the assignment in
`mode_handler.c`: until the callback has stored the motion bit, the value it is
about to store stands for it (`EffectiveMotion`).

`StreamServer_proofs` proves, for any connections, descriptors, tolerance and
listeners, in two layers.  `Base` holds whatever `accept` returns: types, that
whoever is about to use a descriptor has one, that a listener with too much junk
is closing, and `LeakOnlyInShutdown`.  `Owners` holds while no accept has failed:
the only stream connection with a descriptor is the session's, in
`stream_socket` (`SessionOnly`); a listener's copy is that descriptor
(`Holding`); at most one listener is at work (`OneAtWork`), none between two
sessions (`QuietBetween`, `NoneBetween`), and a new one starts on its own session
(`StartsOnSession`); a listener that publishes has closed (`ClosedFirst`); and
the listening and web descriptors are who they should be (`OneJpeg`, `WebOwn`).
From it follows `ListenerOwnsDescriptor`; with `Astray`, also
`StraysOnlyWhileClosing`.  Because `failures` only grows, the layer is proved as
`failures = 0 => Owners`.  `ListensOnce` (a listening socket is the one in
`jpeg_socket`, which is empty when it is reopened) is inductive whatever
`accept` returns, and `NoDescriptorLeak` needs both: the descriptors of sessions
are from `Owners`, the one listening socket from `ListensOnce`.

`ClientMonitor_proofs` proves type correctness, `WaitersAreUpToDate` (no lost
wakeup), `OneMotionLamp` and `ButtonsShowMode`.  For the third the invariant
says where in `changeMode` both lamps may be lit: between its first two
statements, and then camera 1 did not call it unless its own lamp is on.  For
the last, `Settling` says when a camera's model and mode may differ though the
Swing thread has been in `updateGui` and has skipped no notification (`Excused`):
while `changeMode` has yet to set the modes, where the model is already as the
mode will be, and while `updateGui` is about to set the mode to Idle
(`DecidesIdle`), where the model is off.  `Drawn` says when button and model may
differ though the button was not drawn too late: while the owner of the lock has
still to draw it (`WillDraw`: its flag is set, or will be, or has been found
set), or while the Swing thread is at work on it, which ends by drawing it.
Every setter of a call nests once at most, which is what `CallOK` bounds, and
calls and presses are of one of the two cameras (`InModel`).  `ModesAreAtomic` is that the module implements
`ClientModes`: the modes are all set where `changeMode` takes the lock, which it
keeps until it has set them, and nobody sees what it and its setters set in
between; elsewhere under the lock at most one mode is set at a time.
The assumption is that the connected cameras are among 1
and 2, which `Window.main` ensures.

Its last section is about `SyncMode`, and proves the types,
`MonitorFollowsSettings`, `ButtonsShowSettings` and `ChoiceStays`.  The first two
of these properties speak of states in which no thread is in a call, and so say
nothing of a step inside one.  `SyncInv` adds what a thread in a call still owes:
a mode or automatic mode that the monitor does not have is on its way to it
(`ModeIsComing`, `AutoIsComing`); in a call that overlaps no other, the settings
and the buttons already have what the statements before have given them
(`Alone`); and a mode the user has changed to is either on its way to the monitor or
has ended the automatic mode there (`ChoiceMade`).

`Playout_proofs` begins with the buffer: for any set of frames and any sending
times, `NewestFirst` and that the list implements `FrameSet`.  The lemmas it
rests on say what an insertion does to each element (`Inserted`) and that in a
list in order the first older frame separates the older from the rest
(`InsertionPlace`), which uses that a set of numbers has a least one.  Then come
the threads, for any frames, delays and instants.  The invariant has the types; `NewestFirst`; that a frame is read, in the buffer
or shown, and one of these only (`InOnePlace`); that `update` waits for a frame
only while there is none, and for a time only while it is that of the head
(`WaitsRightly`); that the sync time only grows, by a delay (`SyncTimeGrows`,
with `Averaging`: an average lies between what it is taken of); that a frame
shown synchronously was due and overtook none in time (`NoneOvertaken`); and
that frames of one camera come one by one (`CameraInOrder`).  The theorems are
`NoOversleep`, `NoLostFrame`, `SyncTimeBounded`, `NeverEarly`, `InOrderIfInTime`
and `PerCameraOrder`.  `BufferIsASet` shows that every step of `Playout` is a
step of `FrameBuffer` or leaves it alone, so that the client as a whole
implements `FrameSet`.

`ServerReader_proofs` proves, for any flag of bytes below 128, any images and any
bounds, type correctness, `DeliversWhatWasSent`, `HeadersWereSent`,
`MotionReportedOnce` and that `Spec` implements `MotionReader!Spec`.  Its invariant numbers the bytes of all the frames sent:
`Layout` gives each frame the number of its first byte, `Follow` and `UnderWay`
say that what is on the wire and still to be written are those that follow the
last one read.  The reader is then in one of three states.  In step (`InStep`),
the number of the byte it has reached is the start of the current frame and as
much as `Offset` says of its position, and what it has of flag, header and image
are the frame's (`Parsed`); so the flag is searched for only where one begins,
whatever bytes the images hold.  Off it (`OffStep`), it has read past the end of
a closed connection, where there is nothing to come and at most one header to
complete.  Or its thread has ended (`Ended`).  `MotionMemory` is what the
variable `motion` remembers: whether a report was followed by Movie only.
The refinement rests on `HeadersWereSent`: a mode byte the reader acts on is the
first one ahead, or the one that 0xFF makes up, after which it acts on no other.

`MotionDetect_proofs` proves, for frames of any size, any pictures and any
threshold, type correctness, `FoundWhereWatched` and `BitMeansMotion`.  What the
loops add up is a recursive function, and nothing about it can be had without
induction: that it exists (`SumExists`), that it is at least (`SumAtLeast`) or
at most (`SumAtMost`) so many times a bound of its terms, are each proved from a
least number for which they fail.  The mean is then on the same side of the
bound (`Mean`), and the places the loops visit are those of `Watched`
(`WatchedPlaces`).

`WebListener_proofs` proves `AnswersFit`, `StopEndsService` and `EachInOnePlace`
for any clients, requests and backlog.  The invariant adds that no client is in
the queue twice (`QueuedOnce`), that `quick_msg` holds what was read of the
client in service (`FoundWords`), and that `web_running` is set exactly while
nobody has been heard to say STOP (`Running`).

`VideoSystem_proofs` proves `AgreeAtRest`, for any cameras, requests, motion and
channels.  At rest nothing is under way, so the invariant must say what holds
before: the last request under way is for the mode the writer last sent, and
with none under way the server is in that mode or went to Movie by motion
(`Told`), unless the writer is about to send or has lost a change
(`ToldUnlessLost`).  `RegistersOnly`, `ClientModesOnly` and `MotionReadersOnly`
show that the composition keeps to `ModeRegister`, `ClientModes` and
`MotionReader`: what its theorem says of a server, a client and a reader, it says
of what `ModeHandler`, `ClientMonitor` and `ServerReader` implement.

Every invariant and every action property of the passing runs is a theorem, and
so is every refinement.  Only model-checked are the liveness properties
(`MutexReleased`, `LostClientsAreReleased`, `ServesAgain`, `ShutdownCompletes`,
`FramesHealButtons`, `EveryFrameIsShown`, `FramesArrive`, `PressesEnd`,
`MotionGetsThrough`, `IdleGetsThrough`, `EveryoneIsServed`), because liveness
under fairness and ENABLED are out of the prover's reach.  The library's induction theorems take an operator as a parameter, which
the provers cannot instantiate; where induction over numbers is needed, the
proofs take a least counterexample instead (`LeastNumber`).

## Plan

What is left are the bytes of the header of `output_header` with their widths
(eight for the time, four for the size).

## Not modelled

Layout and drawing (`SplitView`, `MenuBar`, `DelayLabel`, most of `Window`):
no state that others depend on.  `fakecapture.c` and the `FAKE` parts of
`camera.c`: not linked into the server (`src/Server/Makefile`, `OBJS`).  The
camera's accessors and `camera_close`: they return or free what is there.
`get_mode`, `sockets_init`, `sockets_close` and the IDLE branch of `changeMode`:
no caller.  `src/socket.c` and `src/socket.h`: older copies that are not built.
`src/Server/http_server`: a binary.
