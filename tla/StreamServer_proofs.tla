------------------------ MODULE StreamServer_proofs ------------------------
(***************************************************************************)
(* Proofs about StreamServer, for any connections, descriptors, tolerance  *)
(* and number of listeners.  What Base says holds whatever accept does;    *)
(* Owners and Astray, who may use which descriptor, hold while no accept   *)
(* has failed with something to accept.                                    *)
(***************************************************************************)
EXTENDS StreamServer, FiniteSetTheorems, WellFoundedInduction, TLAPS

(* A listener that is not, or no longer, at work.                          *)
Quiet(l) == listener[l].fd = SOCKET_INACTIVE /\ listener[l].at \in {"unborn", "test", "done"}

(* Whoever is about to use a descriptor has one.                           *)
FdsAreTyped ==
  /\ \A l \in Listeners : listener[l].at \in {"read", "close"} => listener[l].fd \in Fds
  /\ web \in {"respond", "close"} => newsockfd \in Fds
  /\ main <= 1 => web_socket \in Fds

(* A listener that has had too much junk closes and reads no more.         *)
JunkIsCounted ==
  \A l \in Listeners :
    listener[l].nothing_count > JIBBERISH_TOLERANCE =>
      \/ listener[l].at = "close"
      \/ listener[l].fd = SOCKET_INACTIVE /\ listener[l].at \in {"publish", "test", "done"}

(* Past its reopen the streaming thread has a listening socket, or main    *)
(* has closed it.                                                          *)
OpenWhileServing ==
  jpeg_socket = SOCKET_INACTIVE /\ streamer \notin {"top", "reopen"} => main = 3

Base == TypeOK /\ FdsAreTyped /\ JunkIsCounted /\ OpenWhileServing /\ LeakOnlyInShutdown

(* The only stream connection with a descriptor is the current session's,  *)
(* and the descriptor is the one in the streaming thread's variable.       *)
SessionOnly ==
  \A fd \in Fds : fdTable[fd] \in StreamConns => fd = stream_socket /\ fdTable[fd] = session

(* A listener's copy of the variable still is the session's descriptor.    *)
Holding ==
  \A l \in Listeners : listener[l].fd # SOCKET_INACTIVE =>
    /\ listener[l].at \in {"test", "read", "close", "done"}
    /\ listener[l].fd = stream_socket
    /\ fdTable[listener[l].fd] = session /\ session \in StreamConns

OneAtWork == \A l, k \in Listeners : Quiet(l) \/ Quiet(k) \/ l = k

(* The listener of a session is done before the next client is accepted,   *)
(* or has leaked the mutex that keeps the streaming thread from it.        *)
QuietBetween ==
  /\ streamer \in {"accept", "spawn"} => \A l \in Listeners : Quiet(l)
  /\ streamer \in {"top", "reopen"} =>
       \A l \in Listeners : Quiet(l) \/ (listener[l].at = "start" /\ mutexLeaked)
  /\ stream_socket = SOCKET_INACTIVE =>
       \A l \in Listeners : Quiet(l) \/ listener[l].at = "start"

(* Between sessions the variable, and while it reopens the socket, is -1.  *)
NoneBetween ==
  /\ streamer \in {"top", "reopen", "accept", "close"} => stream_socket = SOCKET_INACTIVE
  /\ streamer = "reopen" => jpeg_socket = SOCKET_INACTIVE

Starting == streamer = "spawn" \/ \E l \in Listeners : listener[l].at = "start"

(* A listener about to copy the variable finds its session there, or       *)
(* nothing, and then main has closed the socket for good.                  *)
StartsOnSession ==
  Starting =>
    IF stream_socket = SOCKET_INACTIVE THEN jpeg_socket = SOCKET_INACTIVE
    ELSE fdTable[stream_socket] = session /\ session \in StreamConns

(* A listener overwrites the variable when the connection is closed.       *)
ClosedFirst ==
  \A l \in Listeners : listener[l].at = "publish" => \A fd \in Fds : fdTable[fd] \notin StreamConns

(* jpeg_socket, newsockfd and web_socket mean what they are named for.     *)
OneJpeg ==
  /\ jpeg_socket # SOCKET_INACTIVE => fdTable[jpeg_socket] = "jpeg"
  /\ \A fd \in Fds : fdTable[fd] = "jpeg" => fd = jpeg_socket

(* No number but jpeg_socket's is a listening socket, and a new one is      *)
(* opened only when jpeg_socket has none.  A failed accept changes nothing *)
(* in that.                                                                *)
ListensOnce ==
  /\ \A fd \in Fds : fdTable[fd] = "jpeg" => fd = jpeg_socket
  /\ streamer = "reopen" => jpeg_socket = SOCKET_INACTIVE

WebOwn ==
  /\ web \in {"respond", "close"} => fdTable[newsockfd] \in WebConns
  /\ main <= 1 => fdTable[web_socket] = "web"

Owners ==
  /\ SessionOnly /\ Holding /\ OneAtWork /\ QuietBetween /\ NoneBetween
  /\ StartsOnSession /\ ClosedFirst /\ OneJpeg /\ WebOwn

SessionHeld == fdTable[stream_socket] = session /\ session \in StreamConns

Publishing == \E l \in Listeners : listener[l].at = "publish"

(* The streaming thread's variable names its session's connection, or the  *)
(* listener that closed it is about to say so.                             *)
Astray == stream_socket # SOCKET_INACTIVE => SessionHeld \/ Publishing
-----------------------------------------------------------------------------
(* Descriptor numbers: there is a least free one while one is free.        *)
LEMMA LeastNumber ==
  ASSUME NEW S \in SUBSET Nat, S # {}
  PROVE  \E n \in S : \A m \in S : n <= m
<1> DEFINE R == OpToRel(<, Nat)
<1>1. IsWellFoundedOn(R, Nat)
  BY NatLessThanWellFounded
<1>2. PICK n \in S : \A m \in S : <<m, n>> \notin R
  <2> HIDE DEF R
  <2> QED BY <1>1, WFMin
<1>3. \A m \in S : ~(m < n)
  BY <1>2 DEF OpToRel
<1> QED BY <1>3

LEMMA NextFdIsFree ==
  ASSUME Free # {}
  PROVE  NextFd \in Fds /\ fdTable[NextFd] = "free"
<1>1. Free \in SUBSET Nat
  BY FdsAssumption DEF Free
<1>2. NextFd \in Free
  BY <1>1, LeastNumber DEF NextFd
<1> QED BY <1>2 DEF Free

LEMMA FirstFds ==
  /\ Lowest \in Fds /\ Lowest + 1 \in Fds /\ Lowest \in Nat
<1>1. PICK n \in Fds : n + 1 \in Fds /\ \A m \in Fds : n <= m
  BY FdsAssumption
<1>2. Lowest \in Fds /\ \A m \in Fds : Lowest <= m
  BY <1>1 DEF Lowest
<1>3. Lowest = n
  BY <1>1, <1>2, FdsAssumption
<1> QED BY <1>1, <1>3, FdsAssumption

(* What the operators several steps share do to the typed variables.       *)
LEMMA ClosingFd ==
  ASSUME TypeOK, NEW fd \in Fds, CloseFd(fd)
  PROVE  /\ fdTable' = [fdTable EXCEPT ![fd] = "free"]
         /\ fdTable' \in [Fds -> {"free", "jpeg", "web"} \cup Conns]
         /\ conn' \in [Conns -> ConnStates]
<1>1. fdTable' = [fdTable EXCEPT ![fd] = "free"]
  BY DEF CloseFd
<1>2. fdTable[fd] \in {"free", "jpeg", "web"} \cup Conns
  BY DEF TypeOK
<1>3. conn' \in [Conns -> ConnStates]
  <2>1. CASE fdTable[fd] \in Conns
    <3>1. ConnClosed(fdTable[fd])
      BY <2>1, ConnsAssumption DEF CloseFd, Conns
    <3> QED BY <3>1, <2>1 DEF ConnClosed, TypeOK, ConnStates
  <2>2. CASE fdTable[fd] \in {"jpeg", "web"}
    <3>1. QueueDropped(StreamConns) \/ QueueDropped(WebConns)
      BY <2>2, ConnsAssumption DEF CloseFd, Conns
    <3> QED BY <3>1 DEF QueueDropped, TypeOK, ConnStates
  <2>3. CASE fdTable[fd] = "free"
    <3>1. UNCHANGED conn
      BY <2>3, ConnsAssumption DEF CloseFd, Conns
    <3> QED BY <3>1 DEF TypeOK
  <2> QED BY <1>2, <2>1, <2>2, <2>3
<1> QED BY <1>1, <1>3 DEF TypeOK

LEMMA Writing ==
  ASSUME TypeOK, NEW fd, Write(fd)
  PROVE  /\ process' \in {process, "killed"}
         /\ conn' \in [Conns -> ConnStates]
BY DEF Write, TypeOK, ConnStates

LEMMA Reopening ==
  ASSUME TypeOK, OpenJpegSocket
  PROVE  /\ jpeg_socket' \in Fds /\ fdTable[jpeg_socket'] = "free"
         /\ fdTable' = [fdTable EXCEPT ![jpeg_socket'] = "jpeg"]
         /\ fdTable' \in [Fds -> {"free", "jpeg", "web"} \cup Conns]
         /\ process' \in {process, "aborted"}
         /\ ~mutexLeaked /\ UNCHANGED <<web_socket, conn, mutexLeaked>>
BY NextFdIsFree DEF OpenJpegSocket, TypeOK

LEMMA ClosingJpeg ==
  ASSUME TypeOK, CloseJpegSocket
  PROVE  /\ ~mutexLeaked /\ jpeg_socket' = SOCKET_INACTIVE
         /\ mutexLeaked' = (jpeg_socket = SOCKET_INACTIVE)
         /\ jpeg_socket = SOCKET_INACTIVE => UNCHANGED fdTable
         /\ jpeg_socket # SOCKET_INACTIVE => fdTable' = [fdTable EXCEPT ![jpeg_socket] = "free"]
         /\ fdTable' \in [Fds -> {"free", "jpeg", "web"} \cup Conns]
         /\ conn' \in [Conns -> ConnStates]
         /\ UNCHANGED web_socket
<1>1. CASE jpeg_socket = SOCKET_INACTIVE
  BY <1>1 DEF CloseJpegSocket, TypeOK
<1>2. CASE jpeg_socket # SOCKET_INACTIVE
  <2>1. jpeg_socket \in Fds /\ CloseFd(jpeg_socket)
    BY <1>2 DEF CloseJpegSocket, TypeOK
  <2> QED BY <1>2, <2>1, ClosingFd DEF CloseJpegSocket, TypeOK
<1> QED BY <1>1, <1>2

LEMMA ClosingWeb ==
  ASSUME TypeOK, CloseWebSocket, web_socket \in Fds
  PROVE  /\ fdTable' = [fdTable EXCEPT ![web_socket] = "free"]
         /\ fdTable' \in [Fds -> {"free", "jpeg", "web"} \cup Conns]
         /\ conn' \in [Conns -> ConnStates]
         /\ web_socket' = SOCKET_INACTIVE
         /\ ~mutexLeaked /\ UNCHANGED <<jpeg_socket, mutexLeaked>>
BY ClosingFd DEF CloseWebSocket

(* A step that changes one listener.                                       *)
LEMMA OneListener ==
  ASSUME TypeOK, NEW l \in Listeners, NEW r \in ListenerStates,
         listener' = [listener EXCEPT ![l] = r]
  PROVE  /\ listener' \in [Listeners -> ListenerStates]
         /\ listener'[l] = r
         /\ \A k \in Listeners \ {l} : listener'[k] = listener[k]
BY DEF TypeOK
-----------------------------------------------------------------------------
(* Base: types, and what they rest on.                                     *)
LEMMA BaseInit == Init => Base
<1> SUFFICES ASSUME Init PROVE Base
  OBVIOUS
<1>1. Lowest \in Fds /\ Lowest + 1 \in Fds
  BY FirstFds
<1>2. 0 \in 0 .. JIBBERISH_TOLERANCE + 1 /\ 0 \in 0 .. MaxAcceptFailures /\ ~(0 > JIBBERISH_TOLERANCE)
  BY BoundsAssumption
<1>3. fdTable \in [Fds -> {"free", "jpeg", "web"} \cup Conns]
  BY DEF Init
<1>4. listener \in [Listeners -> ListenerStates]
  BY <1>2 DEF Init, ListenerStates
<1>5. conn \in [Conns -> ConnStates]
  BY DEF Init, ConnStates
<1>6. TypeOK
  <2>1. /\ process = "running" /\ main = 0 /\ web_socket = Lowest /\ jpeg_socket = Lowest + 1
        /\ mutexLeaked = FALSE /\ mode = MODE_IDLE /\ streamer = "top"
        /\ stream_socket = SOCKET_INACTIVE /\ session = NoConn /\ out = SOCKET_INACTIVE
        /\ failures = 0 /\ web = "accept" /\ newsockfd = SOCKET_INACTIVE
    BY DEF Init
  <2>2. web_socket \in Fds /\ jpeg_socket \in Fds
    BY <1>1, <2>1
  <2>3. mode \in {MODE_IDLE, MODE_MOVIE} /\ mutexLeaked \in BOOLEAN
    BY <2>1
  <2> QED BY <1>2, <1>3, <1>4, <1>5, <2>1, <2>2, <2>3 DEF TypeOK
<1>7. FdsAreTyped
  BY <1>1 DEF Init, FdsAreTyped
<1>8. JunkIsCounted /\ OpenWhileServing /\ LeakOnlyInShutdown
  BY <1>1, <1>2, FdsAssumption DEF Init, JunkIsCounted, OpenWhileServing, LeakOnlyInShutdown
<1> QED BY <1>6, <1>7, <1>8 DEF Base

LEMMA BaseEnvironment == Base /\ (Environment \/ Ended) => Base'
<1> SUFFICES ASSUME Base, Environment \/ Ended PROVE Base'
  OBVIOUS
<1> USE DEF Base
<1>1. ASSUME NEW c \in Conns, Connect(c) \/ Disconnect(c) \/ LingerExpires(c) PROVE Base'
  <2>1. UNCHANGED server /\ conn' \in [Conns -> ConnStates]
    BY <1>1 DEF Connect, Disconnect, LingerExpires, TypeOK, ConnStates
  <2> QED BY <2>1 DEF server, socketVars, streamVars, webVars, TypeOK, FdsAreTyped,
       JunkIsCounted, OpenWhileServing, LeakOnlyInShutdown
<1>2. ASSUME MotionDetected PROVE Base'
  BY <1>2 DEF MotionDetected, outside, socketVars, streamVars, webVars, TypeOK, FdsAreTyped,
       JunkIsCounted, OpenWhileServing, LeakOnlyInShutdown
<1>3. ASSUME Sigint PROVE Base'
  BY <1>3 DEF Sigint, socketVars, streamVars, webVars, TypeOK, FdsAreTyped,
       JunkIsCounted, OpenWhileServing, LeakOnlyInShutdown
<1>4. ASSUME Ended PROVE Base'
  BY <1>4 DEF Ended, vars, socketVars, streamVars, webVars, TypeOK, FdsAreTyped,
       JunkIsCounted, OpenWhileServing, LeakOnlyInShutdown
<1> QED BY <1>1, <1>2, <1>3, <1>4 DEF Environment

LEMMA BaseStreamer == Base /\ Streamer => Base'
<1> SUFFICES ASSUME Base, Streamer PROVE Base'
  OBVIOUS
<1> USE DEF Base
<1>1. ASSUME StreamTop PROVE Base'
  BY <1>1 DEF StreamTop, outside, socketVars, streamVars, webVars, TypeOK, FdsAreTyped,
       JunkIsCounted, OpenWhileServing, LeakOnlyInShutdown
<1>2. ASSUME StreamReopen PROVE Base'
  <2>1. OpenJpegSocket
    BY <1>2 DEF StreamReopen
  <2>2. /\ jpeg_socket' \in Fds /\ fdTable' \in [Fds -> {"free", "jpeg", "web"} \cup Conns]
        /\ process' \in {process, "aborted"}
        /\ UNCHANGED <<web_socket, conn, mutexLeaked>>
    BY <2>1, Reopening
  <2>3. /\ jpeg_socket' # SOCKET_INACTIVE /\ streamer' = "accept"
        /\ UNCHANGED <<main, mode, stream_socket, session, out, failures, listener, webVars>>
    BY <1>2, <2>2, FdsAssumption DEF StreamReopen
  <2> QED BY <2>2, <2>3 DEF webVars, TypeOK, FdsAreTyped,
       JunkIsCounted, OpenWhileServing, LeakOnlyInShutdown
<1>3. ASSUME NEW c \in StreamConns, StreamAccept(c) PROVE Base'
  <2>1. NextFd \in Fds /\ c \in Conns
    BY <1>3, NextFdIsFree DEF StreamAccept, Conns
  <2>2. conn' \in [Conns -> ConnStates] /\ fdTable' \in [Fds -> {"free", "jpeg", "web"} \cup Conns]
    BY <1>3, <2>1 DEF StreamAccept, TypeOK, ConnStates
  <2> QED BY <1>3, <2>1, <2>2 DEF StreamAccept, socketVars, webVars, TypeOK, FdsAreTyped,
       JunkIsCounted, OpenWhileServing, LeakOnlyInShutdown
<1>4. ASSUME StreamAcceptFails PROVE Base'
  <2>1. conn' \in [Conns -> ConnStates]
    BY <1>4 DEF StreamAcceptFails, ConnClosed, TypeOK, ConnStates, Conns
  <2>2. failures' \in 0 .. MaxAcceptFailures
    BY <1>4, BoundsAssumption DEF StreamAcceptFails, TypeOK
  <2> QED BY <1>4, <2>1, <2>2 DEF StreamAcceptFails, socketVars, webVars, TypeOK, FdsAreTyped,
       JunkIsCounted, OpenWhileServing, LeakOnlyInShutdown
<1>5. ASSUME StreamSpawn PROVE Base'
  <2>1. PICK l \in Listeners :
          /\ \A k \in Listeners : listener[k].at = "unborn" <=> k >= l
          /\ listener' = [listener EXCEPT ![l].at = "start"]
    BY <1>5 DEF StreamSpawn
  <2>2. listener[l].at = "unborn"
    BY <2>1, ListenersAssumption
  <2>3. [listener[l] EXCEPT !.at = "start"] \in ListenerStates
    BY DEF TypeOK, ListenerStates
  <2>4. listener' \in [Listeners -> ListenerStates] /\ \A k \in Listeners \ {l} : listener'[k] = listener[k]
    BY <2>1, <2>3 DEF TypeOK
  <2>5. listener'[l] = [listener[l] EXCEPT !.at = "start"]
    BY <2>1 DEF TypeOK
  <2> QED BY <1>5, <2>2, <2>4, <2>5 DEF StreamSpawn, outside, socketVars, webVars, TypeOK, FdsAreTyped, ListenerStates,
       JunkIsCounted, OpenWhileServing, LeakOnlyInShutdown
<1>6. ASSUME StreamLoop \/ StreamPace \/ StreamWakes PROVE Base'
  BY <1>6 DEF StreamLoop, StreamPace, StreamWakes, outside, socketVars, streamVars, webVars,
       TypeOK, FdsAreTyped, JunkIsCounted, OpenWhileServing, LeakOnlyInShutdown
<1>7. ASSUME StreamWrite PROVE Base'
  <2>1. process' \in {process, "killed"} /\ conn' \in [Conns -> ConnStates]
    BY <1>7, Writing DEF StreamWrite
  <2>2. streamer' \in {"header", "jpeg", "pace"} /\ streamer \in {"flag", "header", "jpeg"}
    BY <1>7 DEF StreamWrite
  <2> QED BY <1>7, <2>1, <2>2 DEF StreamWrite, socketVars, webVars, TypeOK, FdsAreTyped,
       JunkIsCounted, OpenWhileServing, LeakOnlyInShutdown
<1>8. ASSUME StreamClose PROVE Base'
  <2>1. CloseJpegSocket
    BY <1>8 DEF StreamClose
  <2>2. /\ jpeg_socket' = SOCKET_INACTIVE
        /\ mutexLeaked' = (jpeg_socket = SOCKET_INACTIVE)
        /\ fdTable' \in [Fds -> {"free", "jpeg", "web"} \cup Conns]
        /\ conn' \in [Conns -> ConnStates]
        /\ UNCHANGED web_socket
    BY <2>1, ClosingJpeg
  <2> QED BY <1>8, <2>2 DEF StreamClose, webVars, TypeOK, FdsAreTyped,
       JunkIsCounted, OpenWhileServing, LeakOnlyInShutdown
<1> QED BY <1>1, <1>2, <1>3, <1>4, <1>5, <1>6, <1>7, <1>8 DEF Streamer

LEMMA BaseListener ==
  ASSUME Base, NEW l \in Listeners, Listener(l)
  PROVE  Base'
<1> USE DEF Base
<1>l. listener[l] \in ListenerStates
  BY DEF TypeOK
<1>0. ASSUME NEW r \in ListenerStates, listener' = [listener EXCEPT ![l] = r],
             r.at \in {"read", "close"} => r.fd \in Fds,
             r.nothing_count > JIBBERISH_TOLERANCE =>
               r.at = "close" \/ (r.fd = SOCKET_INACTIVE /\ r.at \in {"publish", "test", "done"})
      PROVE  /\ listener' \in [Listeners -> ListenerStates]
             /\ JunkIsCounted'
             /\ \A k \in Listeners : listener'[k].at \in {"read", "close"} => listener'[k].fd \in Fds
  BY <1>0, OneListener DEF JunkIsCounted, FdsAreTyped
<1>1. ASSUME ListenerStart(l) PROVE Base'
  <2> DEFINE r == [listener[l] EXCEPT !.at = "test", !.fd = stream_socket]
  <2>1. listener[l].at = "start" /\ listener' = [listener EXCEPT ![l] = r]
    BY <1>1 DEF ListenerStart
  <2>2. r \in ListenerStates
    BY <1>l DEF TypeOK, ListenerStates
  <2>3. r.at = "test" /\ ~(r.nothing_count > JIBBERISH_TOLERANCE)
    BY <1>l, <2>1 DEF JunkIsCounted, ListenerStates
  <2> HIDE DEF r
  <2>4. /\ listener' \in [Listeners -> ListenerStates] /\ JunkIsCounted'
        /\ \A k \in Listeners : listener'[k].at \in {"read", "close"} => listener'[k].fd \in Fds
    BY <1>0, <2>1, <2>2, <2>3
  <2> QED BY <1>1, <2>4 DEF ListenerStart, outside, socketVars, streamVars, webVars, TypeOK,
       FdsAreTyped, OpenWhileServing, LeakOnlyInShutdown
<1>2. ASSUME ListenerTest(l) PROVE Base'
  <2> DEFINE at == IF jpeg_socket # SOCKET_INACTIVE /\ listener[l].fd # SOCKET_INACTIVE
                   THEN "read" ELSE "done"
             r == [listener[l] EXCEPT !.at = at]
  <2>1. listener[l].at = "test" /\ listener' = [listener EXCEPT ![l] = r]
    BY <1>2 DEF ListenerTest
  <2>2. r \in ListenerStates
    BY <1>l DEF ListenerStates
  <2>3. r.fd = listener[l].fd /\ r.nothing_count = listener[l].nothing_count /\ r.at = at
    BY <1>l DEF ListenerStates
  <2>4. r.nothing_count > JIBBERISH_TOLERANCE => r.fd = SOCKET_INACTIVE /\ r.at = "done"
    BY <2>1, <2>3 DEF JunkIsCounted
  <2>5. r.at \in {"read", "close"} => r.fd \in Fds
    BY <1>l, <2>3 DEF ListenerStates
  <2> HIDE DEF r
  <2>6. /\ listener' \in [Listeners -> ListenerStates] /\ JunkIsCounted'
        /\ \A k \in Listeners : listener'[k].at \in {"read", "close"} => listener'[k].fd \in Fds
    BY <1>0, <2>1, <2>2, <2>4, <2>5
  <2> QED BY <1>2, <2>6 DEF ListenerTest, outside, socketVars, streamVars, webVars, TypeOK,
       FdsAreTyped, OpenWhileServing, LeakOnlyInShutdown
<1>3. ASSUME ListenerReadsCommand(l) PROVE Base'
  <2> DEFINE r == [listener[l] EXCEPT !.at = "test"]
  <2>1. listener[l].at = "read" /\ listener' = [listener EXCEPT ![l] = r]
    BY <1>3 DEF ListenerReadsCommand
  <2>2. r \in ListenerStates
    BY <1>l DEF ListenerStates
  <2>3. r.at = "test" /\ ~(r.nothing_count > JIBBERISH_TOLERANCE)
    BY <1>l, <2>1 DEF JunkIsCounted, ListenerStates
  <2> HIDE DEF r
  <2>4. /\ listener' \in [Listeners -> ListenerStates] /\ JunkIsCounted'
        /\ \A k \in Listeners : listener'[k].at \in {"read", "close"} => listener'[k].fd \in Fds
    BY <1>0, <2>1, <2>2, <2>3
  <2> QED BY <1>3, <2>4 DEF ListenerReadsCommand, outside, socketVars, streamVars, webVars, TypeOK,
       FdsAreTyped, OpenWhileServing, LeakOnlyInShutdown
<1>4. ASSUME ListenerReadsNothing(l) PROVE Base'
  <2> DEFINE n == listener[l].nothing_count + 1
             r == [listener[l] EXCEPT !.nothing_count = n,
                                      !.at = IF n > JIBBERISH_TOLERANCE THEN "close" ELSE "test"]
  <2>1. listener[l].at = "read" /\ listener' = [listener EXCEPT ![l] = r]
    BY <1>4 DEF ListenerReadsNothing, CountsAsNothing, Intolerable, AfterNothing
  <2>2. listener[l].nothing_count \in 0 .. JIBBERISH_TOLERANCE + 1 /\ listener[l].fd \in Fds
    BY <1>l, <2>1 DEF ListenerStates, FdsAreTyped
  <2>3. listener[l].nothing_count <= JIBBERISH_TOLERANCE
    BY <2>1, <2>2, BoundsAssumption DEF JunkIsCounted
  <2>4. n \in 0 .. JIBBERISH_TOLERANCE + 1
    BY <2>2, <2>3, BoundsAssumption
  <2>5. /\ r \in ListenerStates
        /\ r.fd \in Fds /\ r.nothing_count = n
        /\ r.at = IF n > JIBBERISH_TOLERANCE THEN "close" ELSE "test"
    <3> HIDE DEF n
    <3> QED BY <1>l, <2>2, <2>4 DEF ListenerStates
  <2> HIDE DEF r
  <2>6. /\ listener' \in [Listeners -> ListenerStates] /\ JunkIsCounted'
        /\ \A k \in Listeners : listener'[k].at \in {"read", "close"} => listener'[k].fd \in Fds
    BY <1>0, <2>1, <2>5
  <2> QED BY <1>4, <2>6 DEF ListenerReadsNothing, outside, socketVars, streamVars, webVars, TypeOK,
       FdsAreTyped, OpenWhileServing, LeakOnlyInShutdown
<1>5. ASSUME ListenerClose(l) PROVE Base'
  <2> DEFINE r == [listener[l] EXCEPT !.at = "publish", !.fd = SOCKET_INACTIVE]
  <2>1. listener[l].at = "close" /\ listener' = [listener EXCEPT ![l] = r] /\ CloseFd(listener[l].fd)
    BY <1>5 DEF ListenerClose, ForgetFd
  <2>2. r \in ListenerStates /\ r.at = "publish" /\ r.fd = SOCKET_INACTIVE
    BY <1>l DEF ListenerStates
  <2> HIDE DEF r
  <2>3. /\ listener' \in [Listeners -> ListenerStates] /\ JunkIsCounted'
        /\ \A k \in Listeners : listener'[k].at \in {"read", "close"} => listener'[k].fd \in Fds
    BY <1>0, <2>1, <2>2
  <2>4. listener[l].fd \in Fds
    BY <2>1 DEF FdsAreTyped
  <2>5. /\ fdTable' \in [Fds -> {"free", "jpeg", "web"} \cup Conns]
        /\ conn' \in [Conns -> ConnStates]
    BY <2>1, <2>4, ClosingFd
  <2> QED BY <1>5, <2>3, <2>5 DEF ListenerClose, socketVars, streamVars, webVars, TypeOK,
       FdsAreTyped, OpenWhileServing, LeakOnlyInShutdown
<1>6. ASSUME ListenerPublish(l) PROVE Base'
  <2> DEFINE r == [listener[l] EXCEPT !.at = "test"]
  <2>1. listener[l].at = "publish" /\ listener' = [listener EXCEPT ![l] = r]
    BY <1>6 DEF ListenerPublish
  <2>2. r \in ListenerStates /\ r.at = "test" /\ r.fd = listener[l].fd
        /\ r.nothing_count = listener[l].nothing_count
    BY <1>l DEF ListenerStates
  <2>3. r.nothing_count > JIBBERISH_TOLERANCE => r.fd = SOCKET_INACTIVE
    BY <2>1, <2>2 DEF JunkIsCounted
  <2> HIDE DEF r
  <2>4. /\ listener' \in [Listeners -> ListenerStates] /\ JunkIsCounted'
        /\ \A k \in Listeners : listener'[k].at \in {"read", "close"} => listener'[k].fd \in Fds
    BY <1>0, <2>1, <2>2, <2>3
  <2> QED BY <1>6, <2>4 DEF ListenerPublish, outside, socketVars, streamVars, webVars, TypeOK,
       FdsAreTyped, OpenWhileServing, LeakOnlyInShutdown
<1> QED BY <1>1, <1>2, <1>3, <1>4, <1>5, <1>6 DEF Listener

LEMMA BaseWebAndMain == Base /\ (Web \/ Main) => Base'
<1> SUFFICES ASSUME Base, Web \/ Main PROVE Base'
  OBVIOUS
<1> USE DEF Base
<1>1. ASSUME NEW c \in WebConns, WebAccept(c) PROVE Base'
  <2>1. NextFd \in Fds /\ c \in Conns
    BY <1>1, NextFdIsFree DEF WebAccept, Conns
  <2>2. conn' \in [Conns -> ConnStates] /\ fdTable' \in [Fds -> {"free", "jpeg", "web"} \cup Conns]
    BY <1>1, <2>1 DEF WebAccept, TypeOK, ConnStates
  <2> QED BY <1>1, <2>1, <2>2 DEF WebAccept, socketVars, streamVars, TypeOK, FdsAreTyped,
       JunkIsCounted, OpenWhileServing, LeakOnlyInShutdown
<1>2. ASSUME NEW c \in WebConns, WebAcceptFails(c) PROVE Base'
  <2>1. conn' \in [Conns -> ConnStates]
    BY <1>2 DEF WebAcceptFails, ConnClosed, TypeOK, ConnStates, Conns
  <2>2. failures' \in 0 .. MaxAcceptFailures
    BY <1>2, BoundsAssumption DEF WebAcceptFails, TypeOK
  <2> QED BY <1>2, <2>1, <2>2 DEF WebAcceptFails, socketVars, streamVars, TypeOK, FdsAreTyped,
       JunkIsCounted, OpenWhileServing, LeakOnlyInShutdown
<1>3. ASSUME WebWrite PROVE Base'
  <2>1. process' \in {process, "killed"} /\ conn' \in [Conns -> ConnStates]
    BY <1>3, Writing DEF WebWrite
  <2> QED BY <1>3, <2>1 DEF WebWrite, socketVars, streamVars, TypeOK, FdsAreTyped,
       JunkIsCounted, OpenWhileServing, LeakOnlyInShutdown
<1>4. ASSUME WebClose PROVE Base'
  <2>1. newsockfd \in Fds /\ CloseFd(newsockfd)
    BY <1>4 DEF WebClose, FdsAreTyped
  <2>2. /\ fdTable' \in [Fds -> {"free", "jpeg", "web"} \cup Conns]
        /\ conn' \in [Conns -> ConnStates]
    BY <2>1, ClosingFd
  <2> QED BY <1>4, <2>2 DEF WebClose, socketVars, streamVars, TypeOK, FdsAreTyped,
       JunkIsCounted, OpenWhileServing, LeakOnlyInShutdown
<1>5. ASSUME MainCloses PROVE Base'
  <2>1. CASE main = 1
    <3>1. CloseWebSocket /\ web_socket \in Fds /\ main' = 2
      BY <1>5, <2>1 DEF MainCloses, CloseOrder, FdsAreTyped
    <3>2. /\ fdTable' \in [Fds -> {"free", "jpeg", "web"} \cup Conns]
          /\ conn' \in [Conns -> ConnStates]
          /\ web_socket' = SOCKET_INACTIVE
          /\ UNCHANGED <<jpeg_socket, mutexLeaked>>
      BY <3>1, ClosingWeb
    <3> QED BY <1>5, <2>1, <3>1, <3>2 DEF MainCloses, streamVars, webVars, TypeOK, FdsAreTyped,
         JunkIsCounted, OpenWhileServing, LeakOnlyInShutdown
  <2>2. CASE main = 2
    <3>1. CloseJpegSocket /\ main' = 3
      BY <1>5, <2>2 DEF MainCloses, CloseOrder
    <3>2. /\ fdTable' \in [Fds -> {"free", "jpeg", "web"} \cup Conns]
          /\ conn' \in [Conns -> ConnStates]
          /\ jpeg_socket' = SOCKET_INACTIVE
          /\ mutexLeaked' = (jpeg_socket = SOCKET_INACTIVE)
          /\ UNCHANGED web_socket
      BY <3>1, ClosingJpeg
    <3> QED BY <1>5, <2>2, <3>1, <3>2 DEF MainCloses, streamVars, webVars, TypeOK, FdsAreTyped,
         JunkIsCounted, OpenWhileServing, LeakOnlyInShutdown
  <2> QED BY <1>5, <2>1, <2>2 DEF MainCloses
<1>6. ASSUME MainReturns PROVE Base'
  BY <1>6 DEF MainReturns, socketVars, streamVars, webVars, TypeOK, FdsAreTyped,
       JunkIsCounted, OpenWhileServing, LeakOnlyInShutdown
<1> QED BY <1>1, <1>2, <1>3, <1>4, <1>5, <1>6 DEF Web, Main

LEMMA BaseStep == Base /\ [Next]_vars => Base'
<1> SUFFICES ASSUME Base, [Next]_vars PROVE Base'
  OBVIOUS
<1>1. CASE UNCHANGED vars
  BY <1>1 DEF vars, socketVars, streamVars, webVars, Base, TypeOK, FdsAreTyped,
       JunkIsCounted, OpenWhileServing, LeakOnlyInShutdown
<1> QED BY <1>1, BaseEnvironment, BaseStreamer, BaseListener, BaseWebAndMain DEF Next

(* TypeOK: the descriptors each thread uses are ones, and a listener       *)
(* counts no further than the junk that makes it close.                    *)
THEOREM TypeCorrect == Spec => []TypeOK
<1>1. Base => TypeOK
  BY DEF Base
<1> QED BY BaseInit, BaseStep, <1>1, PTL DEF Spec

(* LeakOnlyInShutdown: the early returns of socket.c that keep its mutex   *)
(* are not reached while the server serves, whatever accept returns: the   *)
(* streaming thread only closes a socket it has opened.                    *)
THEOREM LockedOnlyAtTheEnd == Spec => []LeakOnlyInShutdown
<1>1. Base => LeakOnlyInShutdown
  BY DEF Base
<1> QED BY BaseInit, BaseStep, <1>1, PTL DEF Spec
-----------------------------------------------------------------------------
(* Owners: who may use which descriptor.                                   *)
LEMMA Names ==
  /\ \A c \in StreamConns : c \notin WebConns /\ c \notin {"free", "jpeg", "web"}
  /\ \A c \in WebConns : c \notin {"free", "jpeg", "web"}
BY ConnsAssumption

LEMMA OwnersInit == Init => Owners
<1> SUFFICES ASSUME Init PROVE Owners
  OBVIOUS
<1>1. /\ Lowest \in Fds /\ Lowest + 1 \in Fds /\ Lowest + 1 # Lowest
      /\ Lowest + 1 # SOCKET_INACTIVE
  BY FirstFds, FdsAssumption
<1>2. /\ web_socket = Lowest /\ jpeg_socket = Lowest + 1
      /\ streamer = "top" /\ stream_socket = SOCKET_INACTIVE /\ web = "accept"
      /\ listener = [l \in Listeners |->
           [at |-> "unborn", fd |-> SOCKET_INACTIVE, nothing_count |-> 0]]
  BY DEF Init
<1>3. \A fd \in Fds :
        /\ fd = Lowest => fdTable[fd] = "web"
        /\ fd = Lowest + 1 => fdTable[fd] = "jpeg"
        /\ fd # Lowest /\ fd # Lowest + 1 => fdTable[fd] = "free"
  <2>1. fdTable = [fd \in Fds |->
          CASE fd = Lowest -> "web" [] fd = Lowest + 1 -> "jpeg" [] OTHER -> "free"]
    BY DEF Init
  <2> QED BY <2>1, <1>1
<1>4. SessionOnly /\ OneJpeg /\ WebOwn
  BY <1>1, <1>2, <1>3, Names DEF SessionOnly, OneJpeg, WebOwn
<1>5. \A l \in Listeners : Quiet(l) /\ listener[l].at = "unborn" /\ listener[l].fd = SOCKET_INACTIVE
  BY <1>2 DEF Quiet
<1>6. Holding /\ OneAtWork /\ QuietBetween /\ NoneBetween /\ StartsOnSession /\ ClosedFirst
  BY <1>2, <1>5 DEF Holding, OneAtWork, QuietBetween, NoneBetween, StartsOnSession, Starting,
     ClosedFirst
<1> QED BY <1>4, <1>6 DEF Owners

(* A step that only moves threads to places where nothing more is asked.   *)
LEMMA OwnersKept ==
  ASSUME Owners,
         UNCHANGED <<fdTable, jpeg_socket, web_socket, mutexLeaked, stream_socket, session,
                     listener, newsockfd>>,
         \/ streamer' = streamer
         \/ streamer' \notin {"top", "reopen", "accept", "spawn", "close"},
         web' \in {"respond", "close"} => web \in {"respond", "close"},
         main' <= 1 => main <= 1
  PROVE  Owners'
<1>1. Starting' => Starting
  BY DEF Starting
<1>2. \A l \in Listeners : Quiet(l)' <=> Quiet(l)
  BY DEF Quiet
<1>3. SessionOnly' /\ Holding' /\ OneAtWork' /\ ClosedFirst' /\ OneJpeg' /\ WebOwn'
  BY <1>2 DEF Owners, SessionOnly, Holding, OneAtWork, ClosedFirst, OneJpeg, WebOwn
<1>4. QuietBetween' /\ NoneBetween' /\ StartsOnSession'
  BY <1>1, <1>2 DEF Owners, QuietBetween, NoneBetween, StartsOnSession
<1> QED BY <1>3, <1>4 DEF Owners

LEMMA OwnersEnvironment == Base /\ Owners /\ (Environment \/ Ended) => Owners'
<1> SUFFICES ASSUME Base, Owners, Environment \/ Ended PROVE Owners'
  OBVIOUS
<1>1. ASSUME NEW c \in Conns, Connect(c) \/ Disconnect(c) \/ LingerExpires(c) PROVE Owners'
  <2>1. UNCHANGED server
    BY <1>1 DEF Connect, Disconnect, LingerExpires
  <2> QED BY <2>1, OwnersKept DEF server, socketVars, streamVars, webVars
<1>2. ASSUME MotionDetected PROVE Owners'
  BY <1>2, OwnersKept DEF MotionDetected, outside, socketVars, streamVars, webVars
<1>3. ASSUME Sigint PROVE Owners'
  BY <1>3, OwnersKept DEF Sigint, socketVars, streamVars, webVars
<1>4. ASSUME Ended PROVE Owners'
  BY <1>4, OwnersKept DEF Ended, vars, socketVars, streamVars, webVars
<1> QED BY <1>1, <1>2, <1>3, <1>4 DEF Environment

LEMMA OwnersStreamer ==
  ASSUME failures' = 0, Base, Owners, Streamer
  PROVE  Owners'
<1>t. /\ fdTable \in [Fds -> {"free", "jpeg", "web"} \cup Conns] /\ SOCKET_INACTIVE \notin Fds
      /\ listener \in [Listeners -> ListenerStates]
      /\ stream_socket \in Fds \cup {SOCKET_INACTIVE} /\ jpeg_socket \in Fds \cup {SOCKET_INACTIVE}
  BY FdsAssumption DEF Base, TypeOK
<1>q. ASSUME UNCHANGED listener PROVE \A l \in Listeners : Quiet(l)' <=> Quiet(l)
  BY <1>q DEF Quiet
<1>1. ASSUME StreamTop PROVE Owners'
  <2>1. /\ UNCHANGED <<fdTable, jpeg_socket, web_socket, mutexLeaked, stream_socket, session,
                       listener, web, newsockfd, main>>
        /\ streamer = "top"
        /\ streamer' = IF jpeg_socket = SOCKET_INACTIVE THEN "reopen" ELSE "accept"
    BY <1>1 DEF StreamTop, outside, socketVars, webVars
  <2>2. \A l \in Listeners : Quiet(l)' <=> Quiet(l)
    BY <2>1, <1>q
  <2>3. SessionOnly' /\ Holding' /\ OneAtWork' /\ ClosedFirst' /\ OneJpeg' /\ WebOwn'
    BY <2>1, <2>2 DEF Owners, SessionOnly, Holding, OneAtWork, ClosedFirst, OneJpeg, WebOwn
  <2>4. stream_socket = SOCKET_INACTIVE
    BY <2>1 DEF Owners, NoneBetween
  <2>5. jpeg_socket # SOCKET_INACTIVE => \A l \in Listeners : Quiet(l)
    BY <2>1, <2>4 DEF Owners, QuietBetween, StartsOnSession, Starting
  <2>6. QuietBetween' /\ NoneBetween' /\ StartsOnSession'
    BY <2>1, <2>2, <2>4, <2>5 DEF Owners, QuietBetween, NoneBetween, StartsOnSession, Starting
  <2> QED BY <2>3, <2>6 DEF Owners
<1>2. ASSUME StreamReopen PROVE Owners'
  <2>1. /\ UNCHANGED <<web_socket, stream_socket, session, listener, web, newsockfd, main>>
        /\ streamer = "reopen" /\ streamer' = "accept" /\ OpenJpegSocket
    BY <1>2 DEF StreamReopen, OpenJpegSocket, webVars
  <2>2. /\ jpeg_socket' \in Fds /\ fdTable[jpeg_socket'] = "free"
        /\ fdTable' = [fdTable EXCEPT ![jpeg_socket'] = "jpeg"]
        /\ ~mutexLeaked /\ UNCHANGED mutexLeaked
    BY <2>1, Reopening DEF Base
  <2>3. \A fd \in Fds : fdTable'[fd] = IF fd = jpeg_socket' THEN "jpeg" ELSE fdTable[fd]
    BY <2>2, <1>t
  <2>4. jpeg_socket = SOCKET_INACTIVE /\ stream_socket = SOCKET_INACTIVE
    BY <2>1 DEF Owners, NoneBetween
  <2>5. \A l \in Listeners : Quiet(l)
    BY <2>1, <2>2 DEF Owners, QuietBetween
  <2>6. \A l \in Listeners : Quiet(l)' /\ listener'[l] = listener[l] /\ listener[l].fd = SOCKET_INACTIVE
          /\ listener[l].at \in {"unborn", "test", "done"}
    BY <2>1, <2>5 DEF Quiet
  <2>7. SessionOnly' /\ OneJpeg'
    BY <2>1, <2>2, <2>3, <2>4, <1>t, Names DEF Owners, SessionOnly, OneJpeg
  <2>8. WebOwn'
    BY <2>1, <2>2, <2>3, Names DEF Owners, WebOwn, Base, FdsAreTyped
  <2>9. Holding' /\ OneAtWork' /\ ClosedFirst'
    BY <2>6 DEF Holding, OneAtWork, ClosedFirst
  <2>10. QuietBetween' /\ NoneBetween' /\ StartsOnSession'
    BY <2>1, <2>4, <2>6 DEF QuietBetween, NoneBetween, StartsOnSession, Starting
  <2> QED BY <2>7, <2>8, <2>9, <2>10 DEF Owners
<1>3. ASSUME NEW c \in StreamConns, StreamAccept(c) PROVE Owners'
  <2> DEFINE n == NextFd
  <2>1. n \in Fds /\ fdTable[n] = "free"
    BY <1>3, NextFdIsFree DEF StreamAccept
  <2>2. /\ UNCHANGED <<jpeg_socket, web_socket, mutexLeaked, listener, web, newsockfd, main>>
        /\ fdTable' = [fdTable EXCEPT ![n] = c]
        /\ stream_socket' = n /\ session' = c
        /\ streamer = "accept" /\ streamer' = "spawn"
    BY <1>3 DEF StreamAccept, socketVars, webVars
  <2> HIDE DEF n
  <2>3. \A fd \in Fds : fdTable'[fd] = IF fd = n THEN c ELSE fdTable[fd]
    BY <2>1, <2>2, <1>t
  <2>4. stream_socket = SOCKET_INACTIVE
    BY <2>2 DEF Owners, NoneBetween
  <2>5. \A l \in Listeners : Quiet(l)
    BY <2>2 DEF Owners, QuietBetween
  <2>6. \A l \in Listeners : Quiet(l)' /\ listener'[l] = listener[l] /\ listener[l].fd = SOCKET_INACTIVE
          /\ listener[l].at \in {"unborn", "test", "done"}
    BY <2>2, <2>5 DEF Quiet
  <2>7. SessionOnly' /\ OneJpeg'
    BY <2>1, <2>2, <2>3, <2>4, <1>t, Names DEF Owners, SessionOnly, OneJpeg
  <2>8. WebOwn'
    BY <2>1, <2>2, <2>3, Names DEF Owners, WebOwn, Base, FdsAreTyped
  <2>9. Holding' /\ OneAtWork' /\ ClosedFirst'
    BY <2>6 DEF Holding, OneAtWork, ClosedFirst
  <2>10. QuietBetween' /\ NoneBetween' /\ StartsOnSession'
    BY <2>1, <2>2, <2>3, <2>6, <1>t DEF QuietBetween, NoneBetween, StartsOnSession, Starting
  <2> QED BY <2>7, <2>8, <2>9, <2>10 DEF Owners
<1>4. ASSUME StreamAcceptFails PROVE Owners'
  <2>1. failures' # failures + 1
    BY DEF Base, TypeOK
  <2>2. /\ UNCHANGED <<fdTable, jpeg_socket, web_socket, mutexLeaked, session, listener, web,
                       newsockfd, main>>
        /\ streamer = "accept" /\ streamer' = "spawn" /\ stream_socket' = SOCKET_INACTIVE
        /\ \A c \in StreamConns : ~Listening(c)
    BY <1>4, <2>1 DEF StreamAcceptFails, socketVars, webVars
  <2>3. jpeg_socket = SOCKET_INACTIVE
    BY <2>2, ConnsAssumption DEF Listening, Owners, OneJpeg
  <2>4. stream_socket = SOCKET_INACTIVE
    BY <2>2 DEF Owners, NoneBetween
  <2>5. \A l \in Listeners : Quiet(l)' <=> Quiet(l)
    BY <2>2, <1>q
  <2>6. SessionOnly' /\ Holding' /\ OneAtWork' /\ ClosedFirst' /\ OneJpeg' /\ WebOwn'
    BY <2>2, <2>4, <2>5 DEF Owners, SessionOnly, Holding, OneAtWork, ClosedFirst, OneJpeg, WebOwn
  <2>7. QuietBetween' /\ NoneBetween' /\ StartsOnSession'
    BY <2>2, <2>3, <2>4, <2>5 DEF Owners, QuietBetween, NoneBetween, StartsOnSession
  <2> QED BY <2>6, <2>7 DEF Owners
<1>5. ASSUME StreamSpawn PROVE Owners'
  <2>1. PICK l \in Listeners :
          /\ \A k \in Listeners : listener[k].at = "unborn" <=> k >= l
          /\ listener' = [listener EXCEPT ![l].at = "start"]
    BY <1>5 DEF StreamSpawn
  <2>2. /\ UNCHANGED <<fdTable, jpeg_socket, web_socket, mutexLeaked, stream_socket, session, web,
                       newsockfd, main>>
        /\ streamer = "spawn" /\ streamer' = "loop"
    BY <1>5 DEF StreamSpawn, outside, socketVars, webVars
  <2>3. \A k \in Listeners : Quiet(k)
    BY <2>2 DEF Owners, QuietBetween
  <2>4. /\ listener'[l].at = "start" /\ listener'[l].fd = listener[l].fd
        /\ \A k \in Listeners \ {l} : listener'[k] = listener[k]
    BY <2>1, <1>t DEF ListenerStates
  <2>5. \A k \in Listeners :
          /\ k # l => Quiet(k)'
          /\ listener'[k].fd = SOCKET_INACTIVE
          /\ listener'[k].at # "publish"
          /\ Quiet(k)' \/ listener'[k].at = "start"
    BY <2>3, <2>4 DEF Quiet
  <2>6. SessionOnly' /\ OneJpeg' /\ WebOwn'
    BY <2>2 DEF Owners, SessionOnly, OneJpeg, WebOwn
  <2>7. Holding' /\ OneAtWork' /\ ClosedFirst'
    BY <2>5 DEF Holding, OneAtWork, ClosedFirst
  <2>8. QuietBetween' /\ NoneBetween' /\ StartsOnSession'
    BY <2>2, <2>5 DEF Owners, QuietBetween, NoneBetween, StartsOnSession, Starting
  <2> QED BY <2>6, <2>7, <2>8 DEF Owners
<1>6. ASSUME StreamLoop PROVE Owners'
  <2>1. /\ UNCHANGED <<fdTable, jpeg_socket, web_socket, mutexLeaked, stream_socket, session,
                       listener, web, newsockfd, main>>
        /\ streamer = "loop"
        /\ streamer' = IF stream_socket = SOCKET_INACTIVE THEN "close" ELSE "flag"
    BY <1>6 DEF StreamLoop, outside, socketVars, webVars
  <2>2. \A l \in Listeners : Quiet(l)' <=> Quiet(l)
    BY <2>1, <1>q
  <2>3. SessionOnly' /\ Holding' /\ OneAtWork' /\ ClosedFirst' /\ OneJpeg' /\ WebOwn'
    BY <2>1, <2>2 DEF Owners, SessionOnly, Holding, OneAtWork, ClosedFirst, OneJpeg, WebOwn
  <2>4. QuietBetween' /\ NoneBetween' /\ StartsOnSession'
    BY <2>1, <2>2 DEF Owners, QuietBetween, NoneBetween, StartsOnSession, Starting
  <2> QED BY <2>3, <2>4 DEF Owners
<1>7. ASSUME StreamWrite \/ StreamPace \/ StreamWakes PROVE Owners'
  <2>1. /\ UNCHANGED <<fdTable, jpeg_socket, web_socket, mutexLeaked, stream_socket, session,
                       listener, newsockfd, web, main>>
        /\ streamer' \in {"header", "jpeg", "pace", "sleep", "loop"}
    BY <1>7 DEF StreamWrite, StreamPace, StreamWakes, outside, socketVars, webVars
  <2> QED BY <2>1, OwnersKept
<1>8. ASSUME StreamClose PROVE Owners'
  <2>1. /\ UNCHANGED <<web_socket, stream_socket, session, listener, web, newsockfd, main>>
        /\ streamer = "close" /\ streamer' = "top" /\ CloseJpegSocket
    BY <1>8, ClosingJpeg DEF StreamClose, webVars, Base
  <2>2. /\ jpeg_socket' = SOCKET_INACTIVE
        /\ mutexLeaked' = (jpeg_socket = SOCKET_INACTIVE)
        /\ jpeg_socket = SOCKET_INACTIVE => UNCHANGED fdTable
        /\ jpeg_socket # SOCKET_INACTIVE => fdTable' = [fdTable EXCEPT ![jpeg_socket] = "free"]
    BY <2>1, ClosingJpeg DEF Base
  <2>3. \A fd \in Fds : fdTable'[fd] = IF fd = jpeg_socket THEN "free" ELSE fdTable[fd]
    BY <2>2, <1>t
  <2>4. stream_socket = SOCKET_INACTIVE
    BY <2>1 DEF Owners, NoneBetween
  <2>5. \A l \in Listeners : /\ Quiet(l)' <=> Quiet(l) /\ listener'[l] = listener[l]
                             /\ listener[l].fd = SOCKET_INACTIVE
    BY <2>1, <2>4, <1>q DEF Owners, Holding, OneAtWork
  <2>6. SessionOnly' /\ OneJpeg'
    BY <2>1, <2>2, <2>3, Names DEF Owners, SessionOnly, OneJpeg
  <2>7. WebOwn'
    BY <2>1, <2>2, <2>3, Names DEF Owners, WebOwn, Base, FdsAreTyped, OneJpeg
  <2>8. Holding' /\ OneAtWork' /\ ClosedFirst'
    BY <2>1, <2>3, <2>5, Names DEF Owners, Holding, OneAtWork, ClosedFirst
  <2>9. QuietBetween' /\ NoneBetween' /\ StartsOnSession'
    BY <2>1, <2>2, <2>4, <2>5 DEF Owners, QuietBetween, NoneBetween, StartsOnSession, Starting
  <2> QED BY <2>6, <2>7, <2>8, <2>9 DEF Owners
<1> QED BY <1>1, <1>2, <1>3, <1>4, <1>5, <1>6, <1>7, <1>8 DEF Streamer

LEMMA OwnersListener ==
  ASSUME Base, Owners, NEW l \in Listeners, Listener(l)
  PROVE  Owners'
<1>t. /\ fdTable \in [Fds -> {"free", "jpeg", "web"} \cup Conns] /\ SOCKET_INACTIVE \notin Fds
      /\ listener \in [Listeners -> ListenerStates] /\ listener[l] \in ListenerStates
      /\ stream_socket \in Fds \cup {SOCKET_INACTIVE}
  BY FdsAssumption DEF Base, TypeOK
<1>q. ASSUME NEW k \in Listeners, listener'[k] = listener[k] PROVE Quiet(k)' <=> Quiet(k)
  BY <1>q DEF Quiet
<1>1. ASSUME ListenerStart(l) PROVE Owners'
  <2>1. /\ UNCHANGED <<fdTable, jpeg_socket, web_socket, mutexLeaked, streamer, stream_socket,
                       session, web, newsockfd, main>>
        /\ listener[l].at = "start"
        /\ listener'[l].at = "test" /\ listener'[l].fd = stream_socket
        /\ \A k \in Listeners \ {l} : listener'[k] = listener[k]
    BY <1>1, <1>t DEF ListenerStart, outside, socketVars, streamVars, webVars, ListenerStates
  <2>2. \A k \in Listeners \ {l} : /\ Quiet(k) /\ Quiet(k)' /\ listener'[k].fd = SOCKET_INACTIVE
                                   /\ listener'[k].at \in {"unborn", "test", "done"}
    <3>1. ~Quiet(l)
      BY <2>1 DEF Quiet
    <3> QED BY <2>1, <3>1 DEF Owners, OneAtWork, Quiet
  <2>3. stream_socket # SOCKET_INACTIVE => fdTable[stream_socket] = session /\ session \in StreamConns
    BY <2>1 DEF Owners, StartsOnSession, Starting
  <2>4. stream_socket = SOCKET_INACTIVE => Quiet(l)'
    BY <2>1 DEF Quiet
  <2>5. streamer \notin {"accept", "spawn"}
    BY <2>1 DEF Owners, QuietBetween, Quiet
  <2>6. SessionOnly' /\ OneJpeg' /\ WebOwn'
    BY <2>1 DEF Owners, SessionOnly, OneJpeg, WebOwn
  <2>7. Holding' /\ OneAtWork' /\ ClosedFirst'
    BY <2>1, <2>2, <2>3 DEF Holding, OneAtWork, ClosedFirst
  <2>8. QuietBetween'
    BY <2>1, <2>2, <2>4, <2>5 DEF Owners, QuietBetween, NoneBetween
  <2>9. NoneBetween' /\ StartsOnSession'
    BY <2>1, <2>2, <2>5 DEF Owners, NoneBetween, StartsOnSession, Starting
  <2> QED BY <2>6, <2>7, <2>8, <2>9 DEF Owners
(* its while and its reads: it goes on, holding what it held               *)
<1>2. ASSUME ListenerTest(l) \/ ListenerReadsCommand(l) \/ ListenerReadsNothing(l) PROVE Owners'
  <2>1. /\ UNCHANGED <<fdTable, jpeg_socket, web_socket, mutexLeaked, streamer, stream_socket,
                       session, web, newsockfd, main>>
        /\ listener[l].at \in {"test", "read"}
        /\ listener[l].at = "read" => listener[l].fd \in Fds
    BY <1>2 DEF ListenerTest, ListenerReadsCommand, ListenerReadsNothing, outside, socketVars,
                streamVars, webVars, Base, FdsAreTyped
  <2>2. /\ listener'[l].at \in {"test", "read", "close", "done"}
        /\ listener'[l].fd = listener[l].fd
        /\ listener[l].fd = SOCKET_INACTIVE => listener'[l].at = "done"
        /\ \A k \in Listeners \ {l} : listener'[k] = listener[k]
    <3>1. CASE ListenerTest(l)
      BY <3>1, <1>t DEF ListenerTest, ListenerStates
    <3>2. CASE ListenerReadsCommand(l)
      BY <3>2, <2>1, <1>t DEF ListenerReadsCommand, ListenerStates
    <3>3. CASE ListenerReadsNothing(l)
      BY <3>3, <2>1, <1>t DEF ListenerReadsNothing, ListenerStates, AfterNothing
    <3> QED BY <1>2, <3>1, <3>2, <3>3
  <2>3. \A k \in Listeners : Quiet(k) => Quiet(k)'
    BY <2>1, <2>2 DEF Quiet
  <2>4. Quiet(l) <=> listener[l].fd = SOCKET_INACTIVE
    BY <2>1, <1>t DEF Quiet
  <2>5. SessionOnly' /\ OneJpeg' /\ WebOwn'
    BY <2>1 DEF Owners, SessionOnly, OneJpeg, WebOwn
  <2>6. Holding' /\ OneAtWork' /\ ClosedFirst'
    BY <2>1, <2>2, <2>3 DEF Owners, Holding, OneAtWork, ClosedFirst
  <2>7. QuietBetween'
    <3>1. \A k \in Listeners : listener[k].at = "start" => listener'[k].at = "start"
      BY <2>1, <2>2
    <3> QED BY <2>1, <2>3, <3>1 DEF Owners, QuietBetween
  <2>8. NoneBetween' /\ StartsOnSession'
    BY <2>1, <2>2 DEF Owners, NoneBetween, StartsOnSession, Starting
  <2> QED BY <2>5, <2>6, <2>7, <2>8 DEF Owners
<1>3. ASSUME ListenerClose(l) PROVE Owners'
  <2> DEFINE f == listener[l].fd
  <2>1. /\ UNCHANGED <<jpeg_socket, web_socket, mutexLeaked, streamer, stream_socket,
                       session, web, newsockfd, main>>
        /\ listener[l].at = "close" /\ f \in Fds /\ CloseFd(f)
        /\ listener'[l].at = "publish" /\ listener'[l].fd = SOCKET_INACTIVE
        /\ \A k \in Listeners \ {l} : listener'[k] = listener[k]
    BY <1>3, <1>t DEF ListenerClose, socketVars, streamVars, webVars, ListenerStates, ForgetFd,
       Base, FdsAreTyped
  <2>2. f = stream_socket /\ fdTable[f] = session /\ session \in StreamConns
    BY <2>1, <1>t DEF Owners, Holding
  <2>3. \A fd \in Fds : fdTable'[fd] = IF fd = f THEN "free" ELSE fdTable[fd]
    <3>1. fdTable' = [fdTable EXCEPT ![f] = "free"]
      BY <2>1, ClosingFd DEF Base
    <3> QED BY <3>1, <1>t
  <2> HIDE DEF f
  <2>4. \A fd \in Fds : fdTable'[fd] \notin StreamConns
    BY <2>2, <2>3, Names DEF Owners, SessionOnly
  <2>5. \A k \in Listeners \ {l} : /\ Quiet(k) /\ Quiet(k)' /\ listener'[k].fd = SOCKET_INACTIVE
                                   /\ listener'[k].at \in {"unborn", "test", "done"}
    <3>1. ~Quiet(l)
      BY <2>1 DEF Quiet
    <3> QED BY <2>1, <3>1 DEF Owners, OneAtWork, Quiet
  <2>6. streamer \notin {"accept", "spawn", "top", "reopen"} /\ stream_socket # SOCKET_INACTIVE
    BY <2>1, <2>2, <1>t DEF Owners, QuietBetween, NoneBetween, Quiet
  <2>7. SessionOnly' /\ ClosedFirst'
    BY <2>4 DEF SessionOnly, ClosedFirst
  <2>8. OneJpeg'
    BY <2>1, <2>2, <2>3, Names DEF Owners, OneJpeg, Base, TypeOK
  <2>9. WebOwn'
    BY <2>1, <2>2, <2>3, Names DEF Owners, WebOwn, Base, FdsAreTyped
  <2>10. Holding' /\ OneAtWork'
    BY <2>1, <2>5 DEF Holding, OneAtWork
  <2>11. QuietBetween' /\ NoneBetween' /\ StartsOnSession'
    BY <2>1, <2>5, <2>6 DEF Owners, QuietBetween, NoneBetween, StartsOnSession, Starting
  <2> QED BY <2>7, <2>8, <2>9, <2>10, <2>11 DEF Owners
<1>4. ASSUME ListenerPublish(l) PROVE Owners'
  <2>1. /\ UNCHANGED <<fdTable, jpeg_socket, web_socket, mutexLeaked, streamer,
                       session, web, newsockfd, main>>
        /\ stream_socket' = SOCKET_INACTIVE
        /\ listener[l].at = "publish"
        /\ listener'[l].at = "test" /\ listener'[l].fd = listener[l].fd
        /\ \A k \in Listeners \ {l} : listener'[k] = listener[k]
    BY <1>4, <1>t DEF ListenerPublish, outside, socketVars, webVars, ListenerStates
  <2>2. listener[l].fd = SOCKET_INACTIVE /\ \A fd \in Fds : fdTable[fd] \notin StreamConns
    BY <2>1 DEF Owners, Holding, ClosedFirst
  <2>3. \A k \in Listeners : /\ Quiet(k)' /\ listener'[k].fd = SOCKET_INACTIVE
                             /\ listener'[k].at \in {"unborn", "test", "done"}
    <3>1. ~Quiet(l)
      BY <2>1 DEF Quiet
    <3> QED BY <2>1, <2>2, <3>1 DEF Owners, OneAtWork, Quiet
  <2>4. streamer \notin {"accept", "spawn"}
    BY <2>1 DEF Owners, QuietBetween, Quiet
  <2>5. SessionOnly' /\ OneJpeg' /\ WebOwn'
    BY <2>1, <2>2 DEF Owners, SessionOnly, OneJpeg, WebOwn
  <2>6. Holding' /\ OneAtWork' /\ ClosedFirst' /\ QuietBetween' /\ NoneBetween' /\ StartsOnSession'
    BY <2>1, <2>3, <2>4 DEF Owners, Holding, OneAtWork, ClosedFirst, QuietBetween, NoneBetween,
       StartsOnSession, Starting
  <2> QED BY <2>5, <2>6 DEF Owners
<1> QED BY <1>1, <1>2, <1>3, <1>4 DEF Listener

LEMMA OwnersWebAndMain ==
  ASSUME failures' = 0, Base, Owners, Web \/ Main
  PROVE  Owners'
<1>t. /\ fdTable \in [Fds -> {"free", "jpeg", "web"} \cup Conns] /\ SOCKET_INACTIVE \notin Fds
      /\ stream_socket \in Fds \cup {SOCKET_INACTIVE} /\ jpeg_socket \in Fds \cup {SOCKET_INACTIVE}
  BY FdsAssumption DEF Base, TypeOK
(* A number that is no stream connection's comes to mean something else    *)
(* that is none either.                                                    *)
<1>k. ASSUME UNCHANGED <<mutexLeaked, streamer, stream_socket, session, listener>>,
             jpeg_socket' \in {jpeg_socket, SOCKET_INACTIVE},
             NEW n \in Fds, fdTable[n] \notin StreamConns,
             \A fd \in Fds \ {n} : fdTable'[fd] = fdTable[fd],
             fdTable'[n] \notin StreamConns
      PROVE  /\ SessionOnly' /\ Holding' /\ OneAtWork' /\ QuietBetween' /\ NoneBetween'
             /\ StartsOnSession' /\ ClosedFirst'
  <2>1. \A l \in Listeners : Quiet(l)' <=> Quiet(l)
    BY <1>k DEF Quiet
  <2>2. Starting' <=> Starting
    BY <1>k DEF Starting
  <2>3. \A fd \in Fds : fdTable[fd] \in StreamConns => fdTable'[fd] = fdTable[fd]
    BY <1>k
  <2>4. \A fd \in Fds : fdTable'[fd] \in StreamConns => fdTable'[fd] = fdTable[fd]
    BY <1>k
  <2>5. \A l \in Listeners : listener[l].fd \in Fds \cup {SOCKET_INACTIVE}
    BY DEF Base, TypeOK, ListenerStates
  <2>6. SessionOnly' /\ ClosedFirst'
    BY <1>k, <2>4 DEF Owners, SessionOnly, ClosedFirst
  <2>7. Holding'
    BY <1>k, <2>3, <2>5 DEF Owners, Holding
  <2>8. OneAtWork' /\ QuietBetween' /\ NoneBetween'
    BY <1>k, <2>1 DEF Owners, OneAtWork, QuietBetween, NoneBetween
  <2>9. StartsOnSession'
    BY <1>k, <1>t, <2>2, <2>3 DEF Owners, StartsOnSession
  <2> QED BY <2>6, <2>7, <2>8, <2>9
<1>1. ASSUME NEW c \in WebConns, WebAccept(c) PROVE Owners'
  <2> DEFINE n == NextFd
  <2>1. n \in Fds /\ fdTable[n] = "free"
    BY <1>1, NextFdIsFree DEF WebAccept
  <2>2. /\ UNCHANGED <<jpeg_socket, web_socket, mutexLeaked, streamer, stream_socket, session,
                       listener, main>>
        /\ fdTable' = [fdTable EXCEPT ![n] = c]
        /\ newsockfd' = n
    BY <1>1 DEF WebAccept, socketVars, streamVars
  <2> HIDE DEF n
  <2>3. \A fd \in Fds : fdTable'[fd] = IF fd = n THEN c ELSE fdTable[fd]
    BY <2>1, <2>2, <1>t
  <2>4. OneJpeg'
    BY <2>1, <2>2, <2>3, <1>t, Names DEF Owners, OneJpeg
  <2>5. WebOwn'
    BY <2>1, <2>2, <2>3, Names DEF Owners, WebOwn, Base, FdsAreTyped
  <2>6. fdTable[n] \notin StreamConns /\ fdTable'[n] \notin StreamConns
    BY <2>1, <2>3, Names
  <2> QED BY <2>1, <2>2, <2>3, <2>4, <2>5, <2>6, <1>k DEF Owners
<1>2. ASSUME NEW c \in WebConns, WebAcceptFails(c) PROVE Owners'
  BY <1>2 DEF WebAcceptFails, Base, TypeOK
<1>3. ASSUME WebWrite PROVE Owners'
  <2>1. /\ UNCHANGED <<fdTable, jpeg_socket, web_socket, mutexLeaked, stream_socket, session,
                       listener, newsockfd, streamer, main>>
        /\ web = "respond"
    BY <1>3 DEF WebWrite, socketVars, streamVars
  <2> QED BY <2>1, OwnersKept
<1>4. ASSUME WebClose PROVE Owners'
  <2>1. /\ UNCHANGED <<jpeg_socket, web_socket, mutexLeaked, streamer, stream_socket, session,
                       listener, main, newsockfd>>
        /\ web = "close" /\ web' \in {"accept", "stopped"} /\ CloseFd(newsockfd)
        /\ newsockfd \in Fds
    BY <1>4 DEF WebClose, socketVars, streamVars, Base, FdsAreTyped
  <2>2. fdTable[newsockfd] \in WebConns
    BY <2>1 DEF Owners, WebOwn
  <2>3. \A fd \in Fds : fdTable'[fd] = IF fd = newsockfd THEN "free" ELSE fdTable[fd]
    <3>1. fdTable' = [fdTable EXCEPT ![newsockfd] = "free"]
      BY <2>1, ClosingFd DEF Base
    <3> QED BY <3>1, <1>t
  <2>4. OneJpeg'
    BY <2>1, <2>2, <2>3, <1>t, Names DEF Owners, OneJpeg
  <2>5. WebOwn'
    BY <2>1, <2>2, <2>3, Names DEF Owners, WebOwn, Base, FdsAreTyped
  <2>6. fdTable[newsockfd] \notin StreamConns /\ fdTable'[newsockfd] \notin StreamConns
    BY <2>1, <2>2, <2>3, Names
  <2> QED BY <2>1, <2>3, <2>4, <2>5, <2>6, <1>k DEF Owners
<1>5. ASSUME MainCloses PROVE Owners'
  <2>0. UNCHANGED <<streamer, stream_socket, session, listener, web, newsockfd>>
    BY <1>5 DEF MainCloses, streamVars, webVars
  <2>1. CASE main = 1
    <3>1. CloseWebSocket /\ web_socket \in Fds /\ main' = 2 /\ fdTable[web_socket] = "web"
      BY <1>5, <2>1 DEF MainCloses, CloseOrder, Base, FdsAreTyped, Owners, WebOwn
    <3>2. /\ fdTable' = [fdTable EXCEPT ![web_socket] = "free"]
          /\ UNCHANGED <<jpeg_socket, mutexLeaked>>
      BY <3>1, ClosingWeb DEF Base
    <3>3. \A fd \in Fds : fdTable'[fd] = IF fd = web_socket THEN "free" ELSE fdTable[fd]
      BY <3>2, <1>t
    <3>4. OneJpeg' /\ WebOwn'
      BY <2>0, <3>1, <3>2, <3>3, <1>t, Names DEF Owners, OneJpeg, WebOwn, Base, FdsAreTyped
    <3>5. fdTable[web_socket] \notin StreamConns /\ fdTable'[web_socket] \notin StreamConns
      BY <3>1, <3>3, Names
    <3> QED BY <2>0, <3>1, <3>2, <3>3, <3>4, <3>5, <1>k DEF Owners
  <2>2. CASE main = 2
    <3>1. CloseJpegSocket /\ main' = 3
      BY <1>5, <2>2 DEF MainCloses, CloseOrder
    <3>2. /\ ~mutexLeaked /\ jpeg_socket' = SOCKET_INACTIVE
          /\ mutexLeaked' = (jpeg_socket = SOCKET_INACTIVE)
          /\ jpeg_socket = SOCKET_INACTIVE => UNCHANGED fdTable
          /\ jpeg_socket # SOCKET_INACTIVE => fdTable' = [fdTable EXCEPT ![jpeg_socket] = "free"]
          /\ UNCHANGED web_socket
      BY <3>1, ClosingJpeg DEF Base
    <3>3. \A fd \in Fds : fdTable'[fd] = IF fd = jpeg_socket THEN "free" ELSE fdTable[fd]
      BY <3>2, <1>t
    <3>4. OneJpeg' /\ WebOwn'
      BY <2>0, <3>1, <3>2, <3>3, <1>t, Names DEF Owners, OneJpeg, WebOwn, Base, FdsAreTyped
    <3>5. \A fd \in Fds : /\ fdTable[fd] \in StreamConns => fdTable'[fd] = fdTable[fd]
                          /\ fdTable'[fd] \in StreamConns => fdTable'[fd] = fdTable[fd]
      BY <3>2, <3>3, Names DEF Owners, OneJpeg
    <3>6. \A l \in Listeners : (Quiet(l)' <=> Quiet(l)) /\ listener[l].fd \in Fds \cup {SOCKET_INACTIVE}
      BY <2>0 DEF Quiet, Base, TypeOK, ListenerStates
    <3>7. SessionOnly' /\ Holding' /\ OneAtWork' /\ ClosedFirst'
      BY <2>0, <3>5, <3>6 DEF Owners, SessionOnly, Holding, OneAtWork, ClosedFirst
    <3>8. QuietBetween' /\ NoneBetween'
      BY <2>0, <3>2, <3>6 DEF Owners, QuietBetween, NoneBetween
    <3>9. StartsOnSession'
      BY <2>0, <3>2, <3>5, <1>t DEF Owners, StartsOnSession, Starting
    <3> QED BY <3>4, <3>7, <3>8, <3>9 DEF Owners
  <2> QED BY <1>5, <2>1, <2>2 DEF MainCloses
<1>6. ASSUME MainReturns PROVE Owners'
  BY <1>6, OwnersKept DEF MainReturns, socketVars, streamVars, webVars
<1> QED BY <1>1, <1>2, <1>3, <1>4, <1>5, <1>6 DEF Web, Main

LEMMA OwnersStep ==
  ASSUME failures' = 0, Base, Owners, [Next]_vars
  PROVE  Owners'
<1>1. CASE UNCHANGED vars
  BY <1>1, OwnersKept DEF vars, socketVars, streamVars, webVars
<1> QED BY <1>1, OwnersEnvironment, OwnersStreamer, OwnersListener, OwnersWebAndMain DEF Next

(* A failed accept is never forgotten.                                     *)
LEMMA FailuresStay ==
  ASSUME Base, [Next]_vars, failures' = 0
  PROVE  failures = 0
<1>0. failures \in Nat
  BY DEF Base, TypeOK
<1>1. ASSUME UNCHANGED failures PROVE failures = 0
  BY <1>1
<1>2. ASSUME failures' = failures + 1 PROVE failures = 0
  BY <1>0, <1>2
<1>3. CASE UNCHANGED vars
  BY <1>1, <1>3 DEF vars
<1>4. CASE Environment \/ Ended
  BY <1>1, <1>4 DEF Environment, Connect, Disconnect, LingerExpires, MotionDetected, Sigint,
     server, outside, Ended, vars
<1>5. CASE Streamer
  BY <1>1, <1>2, <1>5 DEF Streamer, StreamTop, StreamReopen, StreamAccept, StreamAcceptFails,
     StreamSpawn, StreamLoop, StreamWrite, StreamPace, StreamWakes, StreamClose, outside
<1>6. ASSUME NEW l \in Listeners, Listener(l) PROVE failures = 0
  BY <1>1, <1>6 DEF Listener, ListenerStart, ListenerTest, ListenerReadsCommand,
     ListenerReadsNothing, ListenerClose, ListenerPublish, outside
<1>7. CASE Web \/ Main
  BY <1>1, <1>2, <1>7 DEF Web, Main, WebAccept, WebAcceptFails, WebWrite, WebClose, MainCloses,
     MainReturns
<1> QED BY <1>3, <1>4, <1>5, <1>6, <1>7 DEF Next

LEMMA OwnersAlways == Spec => [](Base /\ (failures = 0 => Owners))
<1>1. Init => Base /\ (failures = 0 => Owners)
  BY BaseInit, OwnersInit
<1>2. Base /\ (failures = 0 => Owners) /\ [Next]_vars => (Base /\ (failures = 0 => Owners))'
  BY BaseStep, OwnersStep, FailuresStay
<1> QED BY <1>1, <1>2, PTL DEF Spec

-----------------------------------------------------------------------------
(* ListensOnce: what stays true after a failed accept.                     *)
LEMMA ListensInit == Init => ListensOnce
  BY FirstFds, Names DEF Init, ListensOnce

(* A step that makes no number the listening socket's and forgets none.    *)
LEMMA ListensKept ==
  ASSUME ListensOnce, jpeg_socket' = jpeg_socket,
         streamer' = "reopen" => jpeg_socket = SOCKET_INACTIVE,
         \A fd \in Fds : fdTable'[fd] = "jpeg" => fdTable[fd] = "jpeg"
  PROVE  ListensOnce'
  BY DEF ListensOnce

LEMMA ListensStep == Base /\ ListensOnce /\ [Next]_vars => ListensOnce'
<1> SUFFICES ASSUME Base, ListensOnce, [Next]_vars
             PROVE  ListensOnce'
  OBVIOUS
<1>1. TypeOK /\ FdsAreTyped /\ fdTable \in [Fds -> {"free", "jpeg", "web"} \cup Conns]
  BY DEF Base, TypeOK
<1>2. streamer = "reopen" => jpeg_socket = SOCKET_INACTIVE
  BY DEF ListensOnce
<1>3. ASSUME NEW fd \in Fds, CloseFd(fd), UNCHANGED <<jpeg_socket, streamer>>
      PROVE  ListensOnce'
  <2>1. fdTable' = [fdTable EXCEPT ![fd] = "free"]
    BY <1>1, <1>3, ClosingFd
  <2> QED BY <1>1, <1>2, <1>3, <2>1, ListensKept
<1>4. ASSUME NEW c \in Conns, Free # {}, fdTable' = [fdTable EXCEPT ![NextFd] = c],
             jpeg_socket' = jpeg_socket, streamer' = "reopen" => streamer = "reopen"
      PROVE  ListensOnce'
  <2>1. c # "jpeg"
    BY Names DEF Conns
  <2> QED BY <1>1, <1>2, <1>4, <2>1, NextFdIsFree, ListensKept
<1>5. ASSUME CloseJpegSocket, streamer' # "reopen" \/ streamer' = streamer
      PROVE  ListensOnce'
  BY <1>1, <1>5, ClosingJpeg DEF ListensOnce
<1>6. CASE UNCHANGED vars
  BY <1>6, <1>2, ListensKept DEF vars, socketVars, streamVars
<1>7. CASE Environment \/ Ended
  BY <1>7, <1>2, ListensKept DEF Environment, Connect, Disconnect, LingerExpires, MotionDetected,
     Sigint, server, outside, Ended, vars, socketVars, streamVars
<1>8. CASE Streamer
  <2>1. CASE StreamTop
    BY <2>1, ListensKept DEF StreamTop, outside, socketVars
  <2>2. CASE StreamReopen
    <3>1. jpeg_socket = SOCKET_INACTIVE
      BY <2>2, <1>2 DEF StreamReopen
    <3>2. /\ fdTable' = [fdTable EXCEPT ![jpeg_socket'] = "jpeg"]
          /\ streamer' = "accept"
      BY <2>2, <1>1, Reopening DEF StreamReopen
    <3> QED BY <3>1, <3>2, FdsAssumption DEF ListensOnce
  <2>3. ASSUME NEW c \in StreamConns, StreamAccept(c)
        PROVE  ListensOnce'
    BY <2>3, <1>4 DEF StreamAccept, socketVars, Conns
  <2>4. CASE StreamAcceptFails \/ StreamSpawn \/ StreamLoop \/ StreamWrite \/ StreamPace \/ StreamWakes
    BY <2>4, ListensKept DEF StreamAcceptFails, StreamSpawn, StreamLoop, StreamWrite, StreamPace,
       StreamWakes, outside, socketVars
  <2>5. CASE StreamClose
    BY <2>5, <1>5 DEF StreamClose
  <2> QED BY <1>8, <2>1, <2>2, <2>3, <2>4, <2>5 DEF Streamer
<1>9. ASSUME NEW l \in Listeners, Listener(l)
      PROVE  ListensOnce'
  <2>1. CASE ListenerClose(l)
    BY <2>1, <1>1, <1>3 DEF ListenerClose, FdsAreTyped, socketVars, streamVars
  <2>2. CASE ~ListenerClose(l)
    BY <2>2, <1>2, <1>9, ListensKept DEF Listener, ListenerStart, ListenerTest,
       ListenerReadsCommand, ListenerReadsNothing, ListenerPublish, outside, socketVars, streamVars
  <2> QED BY <2>1, <2>2
<1>10. CASE Web \/ Main
  <2>1. ASSUME NEW c \in WebConns, WebAccept(c)
        PROVE  ListensOnce'
    BY <2>1, <1>4 DEF WebAccept, socketVars, streamVars, Conns
  <2>2. CASE WebClose
    BY <2>2, <1>1, <1>3 DEF WebClose, FdsAreTyped, socketVars, streamVars
  <2>3. CASE WebWrite \/ MainReturns \/ \E c \in WebConns : WebAcceptFails(c)
    BY <2>3, <1>2, ListensKept DEF WebWrite, MainReturns, WebAcceptFails, socketVars, streamVars
  <2>4. CASE MainCloses
    <3>1. CASE CloseWebSocket
      <4>1. jpeg_socket' = jpeg_socket /\ streamer' = streamer /\ CloseFd(web_socket)
        BY <2>4, <3>1 DEF MainCloses, CloseWebSocket, streamVars
      <4>2. CASE web_socket \in Fds
        BY <4>1, <4>2, <1>3
      <4>3. CASE web_socket \notin Fds
        <5>1. fdTable' = fdTable
          BY <4>1, <4>3, <1>1 DEF CloseFd
        <5> QED BY <4>1, <5>1, <1>2, ListensKept
      <4> QED BY <4>2, <4>3
    <3>2. CASE CloseJpegSocket
      BY <2>4, <3>2, <1>5 DEF MainCloses, streamVars
    <3> QED BY <2>4, <3>1, <3>2 DEF MainCloses
  <2> QED BY <1>10, <2>1, <2>2, <2>3, <2>4 DEF Web, Main
<1> QED BY <1>6, <1>7, <1>8, <1>9, <1>10 DEF Next

LEMMA ListensAlways == Spec => []ListensOnce
BY BaseInit, BaseStep, ListensInit, ListensStep, PTL DEF Spec

(* NoDescriptorLeak: when the streaming thread has gone back to wait for a *)
(* client, the last session's descriptor is closed, while no accept has    *)
(* failed, and at most one socket listens, for any number of sessions.     *)
THEOREM NothingLeaks == Spec => []NoDescriptorLeak
<1>1. ASSUME ListensOnce
      PROVE  Cardinality({fd \in Fds : fdTable[fd] = "jpeg"}) <= 1
  <2> DEFINE J == {fd \in Fds : fdTable[fd] = "jpeg"}
  <2>1. J \subseteq {jpeg_socket}
    BY <1>1 DEF ListensOnce
  <2>2. IsFiniteSet({jpeg_socket}) /\ Cardinality({jpeg_socket}) = 1
    BY FS_Singleton
  <2>3. Cardinality(J) <= 1
    <3> HIDE DEF J
    <3> QED BY <2>1, <2>2, FS_Subset
  <2> QED BY <2>3
<1>2. ASSUME Owners, streamer \in {"top", "reopen", "accept"}
      PROVE  \A fd \in Fds : fdTable[fd] \notin StreamConns
  BY <1>2, FdsAssumption DEF Owners, NoneBetween, SessionOnly
<1>3. Base /\ (failures = 0 => Owners) /\ ListensOnce => NoDescriptorLeak
  BY <1>1, <1>2 DEF NoDescriptorLeak
<1> QED BY <1>3, OwnersAlways, ListensAlways, PTL

(* ListenerOwnsDescriptor: the number a listener copied when it started is *)
(* its session's for as long as it may read or close it, although numbers  *)
(* are reused and the streaming thread's variable is overwritten.          *)
THEOREM OwnConnectionOnly == Spec => []ListenerOwnsDescriptor
<1>1. ASSUME Base, Owners PROVE ListenerOwnsDescriptor
  <2>1. ASSUME NEW l \in Listeners, listener[l].fd # SOCKET_INACTIVE
        PROVE  /\ fdTable[listener[l].fd] = session
               /\ \A k \in Listeners \ {l} : listener[k].fd # listener[l].fd
    <3>1. ~Quiet(l)
      BY <2>1 DEF Quiet
    <3>2. \A k \in Listeners \ {l} : listener[k].fd = SOCKET_INACTIVE
      BY <1>1, <3>1 DEF Owners, OneAtWork, Quiet
    <3> QED BY <1>1, <2>1, <3>2 DEF Owners, Holding
  <2> QED BY <2>1 DEF ListenerOwnsDescriptor
<1>2. Base /\ (failures = 0 => Owners) => ListenerOwnsDescriptor
  BY <1>1 DEF ListenerOwnsDescriptor
<1> QED BY <1>2, OwnersAlways, PTL
-----------------------------------------------------------------------------
(* Astray: where a frame may be sent.                                      *)

(* A step that closes no stream connection and moves no session.           *)
LEMMA AstrayKept ==
  ASSUME Base, Astray, UNCHANGED <<stream_socket, session>>,
         \A fd \in Fds : fdTable[fd] \in StreamConns => fdTable'[fd] = fdTable[fd],
         \A l \in Listeners : listener[l].at = "publish" => listener'[l].at = "publish"
  PROVE  Astray'
<1>1. stream_socket \in Fds \cup {SOCKET_INACTIVE}
  BY DEF Base, TypeOK
<1>2. stream_socket # SOCKET_INACTIVE /\ SessionHeld => SessionHeld'
  BY <1>1 DEF SessionHeld
<1>3. Publishing => Publishing'
  BY DEF Publishing
<1> QED BY <1>2, <1>3 DEF Astray

LEMMA AstrayStep ==
  ASSUME failures' = 0, Base, Owners, Astray, [Next]_vars
  PROVE  Astray'
<1>t. /\ fdTable \in [Fds -> {"free", "jpeg", "web"} \cup Conns]
      /\ listener \in [Listeners -> ListenerStates] /\ failures \in Nat
  BY DEF Base, TypeOK
<1>0. ASSUME UNCHANGED <<fdTable, stream_socket, session, listener>> PROVE Astray'
  BY <1>0, AstrayKept
<1>1. CASE UNCHANGED vars
  BY <1>0, <1>1 DEF vars, streamVars
<1>2. CASE Environment \/ Ended
  BY <1>0, <1>2 DEF Environment, Connect, Disconnect, LingerExpires, MotionDetected, Sigint,
     server, outside, Ended, vars, streamVars
<1>3. CASE Streamer
  <2>1. ASSUME StreamTop \/ StreamLoop \/ StreamWrite \/ StreamPace \/ StreamWakes PROVE Astray'
    BY <1>0, <2>1 DEF StreamTop, StreamLoop, StreamWrite, StreamPace, StreamWakes, outside
  <2>2. ASSUME StreamReopen \/ StreamClose \/ StreamAcceptFails PROVE Astray'
    <3>1. stream_socket' = SOCKET_INACTIVE
      BY <2>2 DEF StreamReopen, StreamClose, StreamAcceptFails, Owners, NoneBetween
    <3> QED BY <3>1 DEF Astray
  <2>3. ASSUME NEW c \in StreamConns, StreamAccept(c) PROVE Astray'
    <3>1. NextFd \in Fds
      BY <2>3, NextFdIsFree DEF StreamAccept
    <3>2. fdTable'[stream_socket'] = c /\ session' = c
      BY <1>t, <2>3, <3>1 DEF StreamAccept
    <3> QED BY <3>2 DEF Astray, SessionHeld
  <2>4. ASSUME StreamSpawn PROVE Astray'
    <3>1. PICK l \in Listeners :
            /\ \A k \in Listeners : listener[k].at = "unborn" <=> k >= l
            /\ listener' = [listener EXCEPT ![l].at = "start"]
      BY <2>4 DEF StreamSpawn
    <3>2. listener[l].at = "unborn" /\ \A k \in Listeners \ {l} : listener'[k] = listener[k]
      BY <1>t, <3>1, ListenersAssumption
    <3> QED BY <2>4, <3>2, AstrayKept DEF StreamSpawn, outside
  <2> QED BY <1>3, <2>1, <2>2, <2>3, <2>4 DEF Streamer
<1>4. ASSUME NEW l \in Listeners, Listener(l) PROVE Astray'
  <2>1. ASSUME ListenerStart(l) \/ ListenerTest(l) \/ ListenerReadsCommand(l)
                 \/ ListenerReadsNothing(l)
        PROVE  Astray'
    <3>1. listener[l].at # "publish" /\ \A k \in Listeners \ {l} : listener'[k] = listener[k]
      BY <1>t, <2>1 DEF ListenerStart, ListenerTest, ListenerReadsCommand, ListenerReadsNothing
    <3>2. UNCHANGED <<fdTable, stream_socket, session>>
      BY <2>1 DEF ListenerStart, ListenerTest, ListenerReadsCommand, ListenerReadsNothing, outside,
         streamVars
    <3> QED BY <3>1, <3>2, AstrayKept
  <2>2. ASSUME ListenerClose(l) PROVE Astray'
    <3>1. listener'[l].at = "publish"
      BY <1>t, <2>2 DEF ListenerClose, ListenerStates
    <3> QED BY <3>1 DEF Astray, Publishing
  <2>3. ASSUME ListenerPublish(l) PROVE Astray'
    BY <2>3 DEF ListenerPublish, Astray
  <2> QED BY <1>4, <2>1, <2>2, <2>3 DEF Listener
<1>5. CASE Web \/ Main
  <2>1. ASSUME UNCHANGED <<stream_socket, session, listener>>,
               NEW n \in Fds, fdTable[n] \notin StreamConns,
               \E v : fdTable' = [fdTable EXCEPT ![n] = v]
        PROVE  Astray'
    <3>1. \A fd \in Fds \ {n} : fdTable'[fd] = fdTable[fd]
      BY <1>t, <2>1
    <3> QED BY <2>1, <3>1, AstrayKept
  <2>2. ASSUME NEW c \in WebConns, WebAccept(c) PROVE Astray'
    <3>1. NextFd \in Fds /\ fdTable[NextFd] \notin StreamConns
      BY <2>2, NextFdIsFree, Names DEF WebAccept
    <3> QED BY <2>1, <2>2, <3>1 DEF WebAccept, streamVars
  <2>3. ASSUME NEW c \in WebConns, WebAcceptFails(c) PROVE Astray'
    BY <1>t, <2>3 DEF WebAcceptFails
  <2>4. CASE WebWrite \/ MainReturns
    BY <1>0, <2>4 DEF WebWrite, MainReturns, streamVars
  <2>5. CASE WebClose
    <3>1. newsockfd \in Fds /\ fdTable[newsockfd] \notin StreamConns
      BY <2>5, Names DEF WebClose, Base, FdsAreTyped, Owners, WebOwn
    <3>2. fdTable' = [fdTable EXCEPT ![newsockfd] = "free"]
      BY <2>5, <3>1, ClosingFd DEF WebClose, Base
    <3> QED BY <2>1, <2>5, <3>1, <3>2 DEF WebClose, streamVars
  <2>6. CASE MainCloses
    <3>1. UNCHANGED <<stream_socket, session, listener>>
      BY <2>6 DEF MainCloses, streamVars
    <3>2. CASE main = 1
      <4>1. CloseWebSocket /\ web_socket \in Fds /\ fdTable[web_socket] \notin StreamConns
        BY <2>6, <3>2, Names DEF MainCloses, CloseOrder, Base, FdsAreTyped, Owners, WebOwn
      <4>2. fdTable' = [fdTable EXCEPT ![web_socket] = "free"]
        BY <4>1, ClosingWeb DEF Base
      <4> QED BY <2>1, <3>1, <4>1, <4>2
    <3>3. CASE main = 2
      <4>1. CloseJpegSocket
        BY <2>6, <3>3 DEF MainCloses, CloseOrder
      <4>2. /\ jpeg_socket = SOCKET_INACTIVE => UNCHANGED fdTable
            /\ jpeg_socket # SOCKET_INACTIVE => fdTable' = [fdTable EXCEPT ![jpeg_socket] = "free"]
        BY <4>1, ClosingJpeg DEF Base
      <4>3. jpeg_socket # SOCKET_INACTIVE =>
              jpeg_socket \in Fds /\ fdTable[jpeg_socket] \notin StreamConns
        BY Names DEF Base, TypeOK, Owners, OneJpeg
      <4> QED BY <1>0, <2>1, <3>1, <4>2, <4>3
    <3> QED BY <2>6, <3>2, <3>3 DEF MainCloses
  <2> QED BY <1>5, <2>2, <2>3, <2>4, <2>5, <2>6 DEF Web, Main
<1> QED BY <1>1, <1>2, <1>3, <1>4, <1>5 DEF Next

(* StraysOnlyWhileClosing: a frame is begun on a number that is no longer  *)
(* the session's only while the listener that closed it has still to write *)
(* SOCKET_INACTIVE into the streaming thread's variable.  Of the frame     *)
(* under way it says nothing: its rest goes to the number it began with.   *)
THEOREM FewGoAstray == Spec => []StraysOnlyWhileClosing
<1> DEFINE I == Base /\ (failures = 0 => Owners /\ Astray)
<1>1. Init => I
  BY BaseInit, OwnersInit DEF Init, Astray
<1>2. I /\ [Next]_vars => I'
  BY BaseStep, OwnersStep, AstrayStep, FailuresStay
<1>3. I => StraysOnlyWhileClosing
  BY DEF Astray, SessionHeld, Publishing, StraysOnlyWhileClosing
<1> QED BY <1>1, <1>2, <1>3, PTL DEF Spec
=============================================================================
