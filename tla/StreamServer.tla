---------------------------- MODULE StreamServer ----------------------------
(***************************************************************************)
(* The camera server's sockets and the threads that share them: the        *)
(* streaming thread (socket_writer.c), one listener thread per stream      *)
(* connection (socket_listener.c), the web thread (webb_listener.c), the   *)
(* functions of socket.c, and main (http_server.c) from the moment its     *)
(* threads run until it returns.                                           *)
(*                                                                         *)
(* Descriptors are numbers; socket and accept return the lowest free one.  *)
(* The streaming thread's local stream_socket is shared: each listener     *)
(* gets its address, copies it when it starts, and overwrites it with      *)
(* SOCKET_INACTIVE after it has closed the descriptor.                     *)
(*                                                                         *)
(* set_mode is one step here; ModeHandler_proofs shows that it is.         *)
(***************************************************************************)
EXTENDS Naturals, FiniteSets

CONSTANTS
  StreamConns,          \* connections clients make to the stream port
  WebConns,             \* connections browsers make to the web port
  Fds,                  \* bound: descriptor numbers the process may be given
  Listeners,            \* listener threads, in the order they are created
  JIBBERISH_TOLERANCE,  \* 10 in socket_listener.h
  MaxAcceptFailures,    \* bound: accept calls that fail (clilen is not initialised)
  SOCKET_INACTIVE,      \* -1 in socket.h
  NoConn

ASSUME ConnsAssumption ==
  /\ StreamConns \cap WebConns = {}
  /\ NoConn \notin StreamConns \cup WebConns
  /\ {"free", "jpeg", "web"} \cap (StreamConns \cup WebConns) = {}
  /\ StreamConns # {}
(* main takes the two lowest numbers, which follow each other.             *)
ASSUME FdsAssumption ==
  /\ Fds \subseteq Nat /\ SOCKET_INACTIVE \notin Fds
  /\ \E n \in Fds : n + 1 \in Fds /\ \A m \in Fds : n <= m
ASSUME BoundsAssumption == JIBBERISH_TOLERANCE \in Nat /\ MaxAcceptFailures \in Nat
ASSUME ListenersAssumption ==
  Listeners = 1 .. Cardinality(StreamConns) + MaxAcceptFailures + 1

MODE_IDLE == "MODE_IDLE"
MODE_MOVIE == "MODE_MOVIE"
Conns == StreamConns \cup WebConns

VARIABLES
  process,        \* "running", or how it ended
  main,           \* 0 while main spins, then the step of its shutdown
  fdTable,        \* what each descriptor refers to
  conn,           \* the state of each connection
  jpeg_socket,    \* socket.c
  web_socket,     \* socket.c
  mutexLeaked,    \* socket.c's mutex is locked by a thread that has gone on
  mode,           \* the server's mode of operation
  streamer,       \* where stream_callback is
  stream_socket,  \* its local variable, which the listeners write
  session,        \* history: the connection last accepted there
  out,            \* the descriptor of the frame being sent
  listener,       \* the listener threads
  failures,       \* accept calls that have failed
  web,            \* where web_callback is
  newsockfd       \* webb_listener.c

vars == <<process, main, fdTable, conn, jpeg_socket, web_socket, mutexLeaked, mode,
          streamer, stream_socket, session, out, listener, failures, web, newsockfd>>

socketVars == <<jpeg_socket, web_socket, mutexLeaked>>
streamVars == <<streamer, stream_socket, session, out>>
webVars == <<web, newsockfd>>
(* what a step of one thread that uses no socket leaves alone *)
outside == <<process, main, fdTable, conn, socketVars, failures>>
(* what the environment leaves alone                                       *)
server == <<process, main, fdTable, socketVars, mode, streamVars, listener, failures, webVars>>

(* none     not connected yet          fin    the client has closed; reads  *)
(* pending  connected, not accepted           return 0                      *)
(* open     accepted                   reset  the client's TCP answered RST *)
(* linger   closed by the server first: still holds the local port          *)
(* gone     over                                                            *)
ConnStates == {"none", "pending", "open", "fin", "reset", "linger", "gone"}

(* A listener thread: where it is, its stream_socket and nothing_count.    *)
ListenerStates ==
  [at : {"unborn", "start", "test", "read", "close", "publish", "done"},
   fd : Fds \cup {SOCKET_INACTIVE},
   nothing_count : 0 .. JIBBERISH_TOLERANCE + 1]

Free == {fd \in Fds : fdTable[fd] = "free"}
NextFd == CHOOSE fd \in Free : \A other \in Free : fd <= other
Lowest == CHOOSE fd \in Fds : \A other \in Fds : fd <= other

(* main has opened the web socket, then the jpeg socket, and started its   *)
(* three threads.                                                          *)
Init ==
  /\ process = "running" /\ main = 0
  /\ web_socket = Lowest /\ jpeg_socket = Lowest + 1
  /\ fdTable = [fd \in Fds |->
       CASE fd = Lowest -> "web" [] fd = Lowest + 1 -> "jpeg" [] OTHER -> "free"]
  /\ conn = [c \in Conns |-> "none"]
  /\ mutexLeaked = FALSE
  /\ mode = MODE_IDLE
  /\ streamer = "top" /\ stream_socket = SOCKET_INACTIVE
  /\ session = NoConn /\ out = SOCKET_INACTIVE
  /\ listener = [l \in Listeners |->
       [at |-> "unborn", fd |-> SOCKET_INACTIVE, nothing_count |-> 0]]
  /\ failures = 0
  /\ web = "accept" /\ newsockfd = SOCKET_INACTIVE

-----------------------------------------------------------------------------
(* The other ends of the connections, and TCP.                             *)

(* Connected, but accept has not returned it; its client may have closed.  *)
Queued(c) == conn[c] \in {"pending", "fin", "reset"} /\ \A fd \in Fds : fdTable[fd] # c

(* Only a socket that listens takes connections.                           *)
Listening(c) ==
  IF c \in StreamConns
  THEN /\ streamer # "top"
       /\ jpeg_socket # SOCKET_INACTIVE /\ fdTable[jpeg_socket] = "jpeg"
  ELSE web_socket # SOCKET_INACTIVE /\ fdTable[web_socket] = "web"

Connect(c) ==
  /\ process = "running" /\ conn[c] = "none" /\ Listening(c)
  /\ conn' = [conn EXCEPT ![c] = "pending"]
  /\ UNCHANGED server

(* A client closes; with data it has not read its TCP resets instead.      *)
Disconnect(c) ==
  /\ process = "running" /\ conn[c] \in {"pending", "open"}
  /\ \E s \in {"fin", "reset"} : conn' = [conn EXCEPT ![c] = s]
  /\ UNCHANGED server

LingerExpires(c) ==
  /\ process = "running" /\ conn[c] = "linger"
  /\ conn' = [conn EXCEPT ![c] = "gone"]
  /\ UNCHANGED server

(* close on a connection: the side that closes first keeps the port, but   *)
(* if input was left unread TCP resets and keeps nothing.                  *)
ConnClosed(c) ==
  \E s \in {"gone"} \cup (IF c \in StreamConns /\ conn[c] \in {"pending", "open"} THEN {"linger"} ELSE {}) :
    conn' = [conn EXCEPT ![c] = s]

(* close on the listening socket drops what is in its queue.               *)
QueueDropped(conns) ==
  conn' = [c \in Conns |-> IF c \in conns /\ Queued(c) THEN "gone" ELSE conn[c]]

CloseFd(fd) ==
  /\ fdTable' = [fdTable EXCEPT ![fd] = "free"]
  /\ CASE fdTable[fd] \in Conns -> ConnClosed(fdTable[fd])
       [] fdTable[fd] = "jpeg"   -> QueueDropped(StreamConns)
       [] fdTable[fd] = "web"    -> QueueDropped(WebConns)
       [] fdTable[fd] = "free"   -> UNCHANGED conn

(* write(fd): on a connection that was reset SIGPIPE, which nobody handles *)
(* or ignores, ends the process; a client that has closed answers with a   *)
(* reset; on a descriptor that is not a connection it just fails.          *)
Write(fd) ==
  IF fd \in Fds /\ fdTable[fd] \in Conns
  THEN LET c == fdTable[fd] IN
       /\ process' = IF conn[c] = "reset" THEN "killed" ELSE process
       /\ \/ UNCHANGED conn
          \/ conn[c] = "fin" /\ conn' = [conn EXCEPT ![c] = "reset"]
  ELSE UNCHANGED <<process, conn>>

-----------------------------------------------------------------------------
(* socket.c                                                                *)

(* Mutant: pthread_mutex_unlock is missing.                                *)
CloseJpegSocket_NoUnlock ==
  /\ ~mutexLeaked
  /\ mutexLeaked' = TRUE
  /\ IF jpeg_socket = SOCKET_INACTIVE
     THEN UNCHANGED <<jpeg_socket, web_socket, fdTable, conn>>
     ELSE /\ CloseFd(jpeg_socket)
          /\ jpeg_socket' = SOCKET_INACTIVE
          /\ UNCHANGED web_socket

(* Called by the streaming thread and by main.  The early return leaves    *)
(* the mutex locked.                                                       *)
CloseJpegSocket ==
  /\ ~mutexLeaked
  /\ IF jpeg_socket = SOCKET_INACTIVE
     THEN /\ mutexLeaked' = TRUE
          /\ UNCHANGED <<jpeg_socket, web_socket, fdTable, conn>>
     ELSE /\ CloseFd(jpeg_socket)
          /\ jpeg_socket' = SOCKET_INACTIVE
          /\ UNCHANGED <<web_socket, mutexLeaked>>

(* Only main calls it, once: its early return is never taken.              *)
CloseWebSocket ==
  /\ ~mutexLeaked
  /\ CloseFd(web_socket)
  /\ web_socket' = SOCKET_INACTIVE
  /\ UNCHANGED <<jpeg_socket, mutexLeaked>>

(* SO_REUSEADDR is not set: bind fails while a connection the server       *)
(* closed first holds the port, and the process exits.                     *)
OpenJpegSocket ==
  /\ ~mutexLeaked /\ Free # {}
  /\ jpeg_socket' = NextFd
  /\ fdTable' = [fdTable EXCEPT ![NextFd] = "jpeg"]
  /\ process' = IF \E c \in StreamConns : conn[c] = "linger" THEN "aborted" ELSE process
  /\ UNCHANGED <<web_socket, mutexLeaked, conn>>

-----------------------------------------------------------------------------
(* stream_callback                                                         *)

(* The socket is listened to before it is accepted from.                   *)
StreamTop ==
  /\ process = "running" /\ streamer = "top"
  /\ streamer' = IF jpeg_socket = SOCKET_INACTIVE THEN "reopen" ELSE "accept"
  /\ UNCHANGED <<outside, mode, stream_socket, session, out, listener, webVars>>

(* after sleep(SLEEPING_TIME)                                              *)
StreamReopen ==
  /\ process = "running" /\ streamer = "reopen"
  /\ OpenJpegSocket
  /\ streamer' = "accept"
  /\ UNCHANGED <<main, mode, stream_socket, session, out, failures, listener, webVars>>

StreamAccept(c) ==
  /\ process = "running" /\ streamer = "accept" /\ Listening(c) /\ Queued(c)
  /\ Free # {}
  /\ fdTable' = [fdTable EXCEPT ![NextFd] = c]
  /\ conn' = [conn EXCEPT ![c] = IF @ = "pending" THEN "open" ELSE @]
  /\ stream_socket' = NextFd /\ session' = c
  /\ streamer' = "spawn"
  /\ UNCHANGED <<process, main, socketVars, mode, out, failures, listener, webVars>>

(* accept returns -1, which is SOCKET_INACTIVE: clilen held a negative     *)
(* number and the connection is dropped, or main had closed the socket.    *)
StreamAcceptFails ==
  /\ process = "running" /\ streamer = "accept"
  /\ \/ /\ failures < MaxAcceptFailures
        /\ \E c \in StreamConns : Queued(c) /\ ConnClosed(c)
        /\ failures' = failures + 1
     \/ /\ \A c \in StreamConns : ~Listening(c)
        /\ UNCHANGED <<conn, failures>>
  /\ stream_socket' = SOCKET_INACTIVE
  /\ streamer' = "spawn"
  /\ UNCHANGED <<process, main, fdTable, socketVars, mode, session, out, listener, webVars>>

(* pthread_create, whether or not accept succeeded                         *)
StreamSpawn ==
  /\ process = "running" /\ streamer = "spawn"
  /\ \E l \in Listeners :
       /\ \A k \in Listeners : listener[k].at = "unborn" <=> k >= l
       /\ listener' = [listener EXCEPT ![l].at = "start"]
  /\ streamer' = "loop"
  /\ UNCHANGED <<outside, mode, stream_socket, session, out, webVars>>

(* while (stream_socket != SOCKET_INACTIVE): the descriptor is passed by   *)
(* value to capture_and_output_socket for the whole frame                  *)
StreamLoop ==
  /\ process = "running" /\ streamer = "loop"
  /\ streamer' = IF stream_socket = SOCKET_INACTIVE THEN "close" ELSE "flag"
  /\ out' = stream_socket
  /\ UNCHANGED <<outside, mode, stream_socket, session, listener, webVars>>

(* output_start_flag, output_header, output_jpeg                           *)
StreamWrite ==
  /\ process = "running" /\ streamer \in {"flag", "header", "jpeg"}
  /\ Write(out)
  /\ streamer' = CASE streamer = "flag" -> "header"
                    [] streamer = "header" -> "jpeg"
                    [] streamer = "jpeg" -> "pace"
  /\ UNCHANGED <<main, fdTable, socketVars, mode, stream_socket, session, out, failures,
                 listener, webVars>>

(* In Idle the thread sleeps SLEEPING_TIME between frames.                 *)
StreamPace ==
  /\ process = "running" /\ streamer = "pace"
  /\ streamer' = IF mode = MODE_IDLE THEN "sleep" ELSE "loop"
  /\ UNCHANGED <<outside, mode, stream_socket, session, out, listener, webVars>>

StreamWakes ==
  /\ process = "running" /\ streamer = "sleep"
  /\ streamer' = "loop"
  /\ UNCHANGED <<outside, mode, stream_socket, session, out, listener, webVars>>

StreamClose ==
  /\ process = "running" /\ streamer = "close"
  /\ CloseJpegSocket
  /\ streamer' = "top"
  /\ UNCHANGED <<process, main, mode, stream_socket, session, out, failures, listener,
                 webVars>>

-----------------------------------------------------------------------------
(* stream_listener_callback                                                *)

(* Mutants: close is not called; the listener's own stream_socket is not   *)
(* set to SOCKET_INACTIVE.                                                 *)
AfterNothing_NoClose == "publish"
ForgetFd_Kept(fd) == fd

(* What a listener does when nothing_count exceeds the tolerance, and what *)
(* its stream_socket is once it has closed fd.                             *)
AfterNothing == "close"
ForgetFd(fd) == SOCKET_INACTIVE

ListenerStart(l) ==
  /\ process = "running" /\ listener[l].at = "start"
  /\ listener' = [listener EXCEPT ![l].at = "test", ![l].fd = stream_socket]
  /\ UNCHANGED <<outside, mode, streamVars, webVars>>

(* the condition of its while                                              *)
ListenerTest(l) ==
  /\ process = "running" /\ listener[l].at = "test"
  /\ listener' = [listener EXCEPT ![l].at =
       IF jpeg_socket # SOCKET_INACTIVE /\ listener[l].fd # SOCKET_INACTIVE THEN "read" ELSE "done"]
  /\ UNCHANGED <<outside, mode, streamVars, webVars>>

Input(l) == fdTable[listener[l].fd] \in Conns /\ conn[fdTable[listener[l].fd]] \in {"open", "fin"}

(* '0' and '1' call set_mode; '2' is read and ignored.                     *)
ListenerReadsCommand(l) ==
  /\ process = "running" /\ listener[l].at = "read" /\ Input(l)
  /\ mode' \in {MODE_IDLE, MODE_MOVIE}
  /\ listener' = [listener EXCEPT ![l].at = "test"]
  /\ UNCHANGED <<outside, streamVars, webVars>>

(* Mutant: only reads from a client that is there count, not end of file.  *)
CountsAsNothing_DataOnly(l) == fdTable[listener[l].fd] \in Conns /\ conn[fdTable[listener[l].fd]] = "open"

Intolerable(n) == n > JIBBERISH_TOLERANCE

(* read fails, returns 0, or returns some other byte.                      *)
CountsAsNothing(l) == TRUE

ListenerReadsNothing(l) ==
  /\ process = "running" /\ listener[l].at = "read"
  /\ LET n == IF CountsAsNothing(l) THEN listener[l].nothing_count + 1 ELSE listener[l].nothing_count
     IN  listener' = [listener EXCEPT
           ![l].nothing_count = n,
           ![l].at = IF Intolerable(n) THEN AfterNothing ELSE "test"]
  /\ UNCHANGED <<outside, mode, streamVars, webVars>>

ListenerClose(l) ==
  /\ process = "running" /\ listener[l].at = "close"
  /\ CloseFd(listener[l].fd)
  /\ listener' = [listener EXCEPT ![l].at = "publish", ![l].fd = ForgetFd(@)]
  /\ UNCHANGED <<process, main, socketVars, mode, streamVars, failures, webVars>>

(* Mutant: the listener sets its own copy, not the variable it was given.  *)
ListenerPublish_Copy(l) ==
  /\ process = "running" /\ listener[l].at = "publish"
  /\ listener' = [listener EXCEPT ![l].at = "test"]
  /\ UNCHANGED <<outside, mode, streamVars, webVars>>

ListenerPublish(l) ==
  /\ process = "running" /\ listener[l].at = "publish"
  /\ stream_socket' = SOCKET_INACTIVE
  /\ listener' = [listener EXCEPT ![l].at = "test"]
  /\ UNCHANGED <<outside, mode, streamer, session, out, webVars>>

-----------------------------------------------------------------------------
(* motion_callback, web_callback and main                                  *)

MotionDetected ==
  /\ process = "running" /\ mode' = MODE_MOVIE
  /\ UNCHANGED <<outside, streamVars, listener, webVars>>

WebAccept(c) ==
  /\ process = "running" /\ web = "accept" /\ Listening(c) /\ Queued(c)
  /\ Free # {}
  /\ fdTable' = [fdTable EXCEPT ![NextFd] = c]
  /\ conn' = [conn EXCEPT ![c] = IF @ = "pending" THEN "open" ELSE @]
  /\ newsockfd' = NextFd
  /\ web' = "respond"
  /\ UNCHANGED <<process, main, socketVars, mode, streamVars, listener, failures>>

(* accept returns -1; what read_socket then does to -1 just fails.         *)
WebAcceptFails(c) ==
  /\ process = "running" /\ web = "accept" /\ Listening(c) /\ Queued(c)
  /\ failures < MaxAcceptFailures
  /\ failures' = failures + 1
  /\ ConnClosed(c)
  /\ newsockfd' = SOCKET_INACTIVE
  /\ UNCHANGED <<process, main, fdTable, socketVars, mode, streamVars, listener, web>>

(* one of the writes of output_web_jpeg or output_web_page                 *)
WebWrite ==
  /\ process = "running" /\ web = "respond"
  /\ Write(newsockfd)
  /\ web' \in {"respond", "close"}
  /\ UNCHANGED <<main, fdTable, socketVars, mode, streamVars, listener, failures, newsockfd>>

(* A request with the word STOP ends the web thread after its answer.      *)
WebClose ==
  /\ process = "running" /\ web = "close"
  /\ CloseFd(newsockfd)
  /\ web' \in {"accept", "stopped"}
  /\ UNCHANGED <<process, main, socketVars, mode, streamVars, listener, failures, newsockfd>>

Sigint ==
  /\ process = "running" /\ main = 0
  /\ main' = 1
  /\ UNCHANGED <<process, fdTable, conn, socketVars, mode, streamVars, listener, failures,
                 webVars>>

(* Mutant: the two sockets are closed in the other order.                  *)
CloseOrder_Swapped == <<"jpeg", "web">>

CloseOrder == <<"web", "jpeg">>

MainCloses ==
  /\ process = "running" /\ main \in {1, 2}
  /\ IF CloseOrder[main] = "web" THEN CloseWebSocket ELSE CloseJpegSocket
  /\ main' = main + 1
  /\ UNCHANGED <<process, mode, streamVars, listener, failures, webVars>>

(* close_mode_handler, whose effect is in ModeHandler, and the return that *)
(* ends every thread                                                       *)
MainReturns ==
  /\ process = "running" /\ main = 3
  /\ process' = "exited"
  /\ UNCHANGED <<main, fdTable, conn, socketVars, mode, streamVars, listener, failures,
                 webVars>>

-----------------------------------------------------------------------------
Environment ==
  \/ \E c \in Conns : Connect(c) \/ Disconnect(c) \/ LingerExpires(c)
  \/ MotionDetected
  \/ Sigint

Streamer ==
  \/ StreamTop \/ StreamReopen
  \/ \E c \in StreamConns : StreamAccept(c)
  \/ StreamAcceptFails
  \/ StreamSpawn \/ StreamLoop \/ StreamWrite \/ StreamPace \/ StreamWakes
  \/ StreamClose

Listener(l) ==
  \/ ListenerStart(l) \/ ListenerTest(l)
  \/ ListenerReadsCommand(l) \/ ListenerReadsNothing(l)
  \/ ListenerClose(l) \/ ListenerPublish(l)

Web ==
  \/ \E c \in WebConns : WebAccept(c) \/ WebAcceptFails(c)
  \/ WebWrite \/ WebClose

Main == MainCloses \/ MainReturns

Ended == process # "running" /\ UNCHANGED vars

Next ==
  \/ Environment \/ Streamer \/ (\E l \in Listeners : Listener(l)) \/ Web \/ Main
  \/ Ended

Spec == Init /\ [][Next]_vars

(* Every runnable thread runs: Streamer and Main whenever they can, and a  *)
(* listener but for a read that waits for an open client's input.  What a  *)
(* client sent before it closed is finite, so reads keep returning nothing *)
(* after it (strong fairness: commands may still be read before).          *)
ListenerRuns(l) ==
  ListenerStart(l) \/ ListenerTest(l) \/ ListenerClose(l) \/ ListenerPublish(l)

ListenerReadsEnd(l) ==
  /\ ListenerReadsNothing(l)
  /\ fdTable[listener[l].fd] \in Conns => conn[fdTable[listener[l].fd]] # "open"

FairSpec ==
  /\ Spec
  /\ WF_vars(Streamer)
  /\ WF_vars(Main)
  /\ \A l \in Listeners : WF_vars(ListenerRuns(l)) /\ SF_vars(ListenerReadsEnd(l))

-----------------------------------------------------------------------------
TypeOK ==
  /\ process \in {"running", "killed", "aborted", "exited"} /\ main \in 0 .. 3
  /\ fdTable \in [Fds -> {"free", "jpeg", "web"} \cup Conns]
  /\ conn \in [Conns -> ConnStates]
  /\ jpeg_socket \in Fds \cup {SOCKET_INACTIVE} /\ web_socket \in Fds \cup {SOCKET_INACTIVE}
  /\ mutexLeaked \in BOOLEAN /\ mode \in {MODE_IDLE, MODE_MOVIE}
  /\ streamer \in {"top", "reopen", "accept", "spawn", "loop",
                   "flag", "header", "jpeg", "pace", "sleep", "close"}
  /\ stream_socket \in Fds \cup {SOCKET_INACTIVE} /\ out \in Fds \cup {SOCKET_INACTIVE}
  /\ session \in StreamConns \cup {NoConn}
  /\ listener \in [Listeners -> ListenerStates]
  /\ failures \in 0 .. MaxAcceptFailures
  /\ web \in {"accept", "respond", "close", "stopped"}
  /\ newsockfd \in Fds \cup {SOCKET_INACTIVE}

(* Whenever the streaming thread waits for the next client, the last one's *)
(* descriptor has been closed and one listening socket at most is open: no *)
(* sequence of sessions runs the process out of descriptors.  After a      *)
(* failed accept only the latter is so: the listener started for it may    *)
(* copy the next connection's descriptor, and what it publishes later may  *)
(* end a session whose own descriptor nobody closes.                       *)
NoDescriptorLeak ==
  streamer \in {"top", "reopen", "accept"} =>
    /\ failures = 0 => \A fd \in Fds : fdTable[fd] \notin StreamConns
    /\ Cardinality({fd \in Fds : fdTable[fd] = "jpeg"}) <= 1

(* A listener reads and closes its own connection and no other: no number  *)
(* it still holds has come to mean another socket.  After a failed accept  *)
(* that is no longer so: the listener started for it may run so late that  *)
(* it copies the next connection's descriptor.                             *)
ListenerOwnsDescriptor ==
  failures = 0 =>
    \A l \in Listeners :
      listener[l].at \in {"test", "read", "close"} /\ listener[l].fd # SOCKET_INACTIVE
        => /\ fdTable[listener[l].fd] = session
           /\ \A k \in Listeners \ {l} : listener[k].fd # listener[l].fd

(* A frame may be begun on a descriptor that is not the session's, and go  *)
(* to a browser that was given the number, but only between its listener's *)
(* close and its publication of SOCKET_INACTIVE.  The thread passes the    *)
(* number on by value, so a frame begun by then goes on to its end, after  *)
(* the publication too; but no later one is begun.                         *)
StraysOnlyWhileClosing ==
  failures = 0 /\ streamer = "loop" /\ stream_socket # SOCKET_INACTIVE
               /\ fdTable[stream_socket] # session
    => \E l \in Listeners : listener[l].at = "publish"

(* The early returns that leave socket.c's mutex locked are taken only     *)
(* once main is shutting down.                                             *)
LeakOnlyInShutdown == mutexLeaked => main > 0

(* A session whose client has gone is ended, or the process has: the junk  *)
(* count reaches the tolerance on end of file alone.                       *)
LostClientsAreReleased ==
  \A c \in StreamConns :
    (session = c /\ conn[c] \in {"fin", "reset"}) ~> (conn[c] = "gone" \/ process # "running")

(* After a session the streaming thread listens again, whatever the        *)
(* listeners and the web thread do, or the process has ended.              *)
ServesAgain == (streamer = "close") ~> (streamer = "accept" \/ process # "running")

(* main's shutdown is never stuck on socket.c's mutex.                     *)
ShutdownCompletes == (main = 1) ~> (process # "running")
=============================================================================
