---------------------------- MODULE WebListener ----------------------------
(***************************************************************************)
(* The web thread of the server (webb_listener.c): it serves one browser   *)
(* after the other, with the picture or the page, as the words it finds in *)
(* one read of the request say, and stops when it finds STOP.              *)
(*                                                                         *)
(* A request is a sequence of parts, as they arrive; a part is the set of  *)
(* the words whose last byte is in it.  Who closes which descriptor is in  *)
(* StreamServer.  The connections are modelled from how the thread uses    *)
(* them: it waits for a client that is silent or does not take a picture,  *)
(* and may be killed by SIGPIPE when it writes to one that has left.       *)
(***************************************************************************)
EXTENDS Naturals, Sequences

CONSTANTS
  Clients,
  SOCKET_INACTIVE,
  Request,      \* the parts of what each client has to send
  Backlog,      \* how many connections wait to be accepted
  ReadLimit     \* how many parts one read returns, for the 1023 bytes of quick_msg

Words == {"GET", "image.jpg", "STOP"}

ASSUME ClientAssumption == SOCKET_INACTIVE \notin Clients
ASSUME RequestAssumption == Request \in [Clients -> Seq(SUBSET Words)]
ASSUME BoundsAssumption == Backlog \in Nat /\ ReadLimit \in Nat \ {0}

Answers == {"none", "page", "picture"}
Labels == {"listen", "accept", "read", "choose", "write", "close", "ended"}

VARIABLES
  thread,        \* where the web thread is
  newsockfd,     \* the client it serves
  web_running,
  found,         \* the words in quick_msg
  queue,         \* the connections to be accepted
  listening,     \* the socket takes connections
  killed,        \* SIGPIPE has ended the process
  connected,     \* the clients that have ever connected
  sent,          \* how many parts of each client's request have arrived
  heard,         \* how many of them read has returned
  left,          \* the clients that have closed their side
  answer,        \* what each client was answered
  taken,         \* the clients that have taken their answer off the connection
  dropped        \* the clients whose accept failed

serverVars == <<thread, newsockfd, web_running, found, killed>>
netVars == <<queue, listening, dropped, answer, heard>>
clientVars == <<connected, sent, left, taken>>
vars == <<serverVars, netVars, clientVars>>

Init ==
  /\ thread = "listen" /\ newsockfd = SOCKET_INACTIVE /\ web_running = TRUE /\ found = {}
  /\ queue = <<>> /\ listening = FALSE /\ killed = FALSE
  /\ connected = {} /\ left = {} /\ taken = {} /\ dropped = {}
  /\ sent = [c \in Clients |-> 0] /\ heard = [c \in Clients |-> 0]
  /\ answer = [c \in Clients |-> "none"]

-----------------------------------------------------------------------------
(* The clients                                                             *)

Connect(c) ==
  /\ listening /\ ~killed /\ c \notin connected /\ Len(queue) <= Backlog
  /\ connected' = connected \cup {c} /\ queue' = Append(queue, c)
  /\ UNCHANGED <<serverVars, listening, dropped, answer, heard, sent, left, taken>>

Send(c) ==
  /\ c \in connected \ left /\ sent[c] < Len(Request[c])
  /\ sent' = [sent EXCEPT ![c] = @ + 1]
  /\ UNCHANGED <<serverVars, netVars, connected, left, taken>>

Take(c) ==
  /\ c \notin left \cup taken /\ answer[c] # "none" /\ taken' = taken \cup {c}
  /\ UNCHANGED <<serverVars, netVars, connected, sent, left>>

Leave(c) ==
  /\ c \in connected \ left /\ left' = left \cup {c}
  /\ UNCHANGED <<serverVars, netVars, connected, sent, taken>>

-----------------------------------------------------------------------------
(* The web thread                                                          *)

At(label) == thread = label /\ ~killed

(* Mutant: the second listen starts with no connections.                   *)
Listen_Afresh ==
  /\ At("listen") /\ thread' = "accept" /\ listening' = TRUE /\ queue' = <<>>
  /\ UNCHANGED <<newsockfd, web_running, found, killed, dropped, answer, heard, clientVars>>

Listen ==
  /\ At("listen") /\ thread' = "accept" /\ listening' = TRUE
  /\ UNCHANGED <<newsockfd, web_running, found, killed, queue, dropped, answer, heard, clientVars>>

Accept ==
  /\ At("accept") /\ queue # <<>>
  /\ thread' = "read" /\ newsockfd' = Head(queue) /\ queue' = Tail(queue) /\ found' = {}
  /\ UNCHANGED <<web_running, killed, listening, dropped, answer, heard, clientVars>>

(* clilen is not initialized.  With a length accept takes for negative, it *)
(* fails after it has taken the connection, which is lost.                 *)
AcceptFails ==
  /\ At("accept") /\ queue # <<>>
  /\ thread' = "read" /\ newsockfd' = SOCKET_INACTIVE /\ queue' = Tail(queue) /\ found' = {}
  /\ dropped' = dropped \cup {Head(queue)}
  /\ UNCHANGED <<web_running, killed, listening, answer, heard, clientVars>>

WordsOf(c, n) == UNION {Request[c][i] : i \in 1 .. n}

(* One read returns what has arrived, up to the size of quick_msg; nothing *)
(* from a client that has left without a word, or has reset.  STOP is      *)
(* looked for at once: socket.h defines DEBUG.                             *)
Read ==
  /\ At("read") /\ newsockfd # SOCKET_INACTIVE
  /\ sent[newsockfd] > 0 \/ newsockfd \in left
  /\ \E n \in 0 .. ReadLimit :
       /\ \/ n = sent[newsockfd]
          \/ n = ReadLimit /\ n < sent[newsockfd]
          \/ n = 0 /\ newsockfd \in left
       /\ heard' = [heard EXCEPT ![newsockfd] = n]
       /\ found' = WordsOf(newsockfd, n)
       /\ web_running' = (web_running /\ "STOP" \notin WordsOf(newsockfd, n))
  /\ thread' = "choose"
  /\ UNCHANGED <<newsockfd, killed, queue, listening, dropped, answer, clientVars>>

(* Read, write and close on the descriptor -1 fail and are not tested.     *)
ServeNobody ==
  /\ At("read") /\ newsockfd = SOCKET_INACTIVE
  /\ thread' = IF web_running THEN "listen" ELSE "ended"
  /\ UNCHANGED <<newsockfd, web_running, found, killed, netVars, clientVars>>

(* Mutant: the type or the path will do.                                   *)
Choose_Either ==
  /\ At("choose") /\ thread' = "write"
  /\ answer' = [answer EXCEPT ![newsockfd] =
                  IF found \cap {"GET", "image.jpg"} # {} THEN "picture" ELSE "page"]
  /\ UNCHANGED <<newsockfd, web_running, found, killed, queue, listening, dropped, heard, clientVars>>

(* output_web_jpeg or output_web_page.                                     *)
Choose ==
  /\ At("choose") /\ thread' = "write"
  /\ answer' = [answer EXCEPT ![newsockfd] =
                  IF {"GET", "image.jpg"} \subseteq found THEN "picture" ELSE "page"]
  /\ UNCHANGED <<newsockfd, web_running, found, killed, queue, listening, dropped, heard, clientVars>>

(* The kernel holds a page; for a picture the client must make room.       *)
Written ==
  /\ At("write")
  /\ answer[newsockfd] = "page" \/ newsockfd \in taken \cup left
  /\ thread' = "close"
  /\ UNCHANGED <<newsockfd, web_running, found, killed, netVars, clientVars>>

BrokenPipe ==
  /\ At("write") /\ newsockfd \in left /\ killed' = TRUE
  /\ UNCHANGED <<thread, newsockfd, web_running, found, netVars, clientVars>>

(* Mutant: the loop does not look at web_running.                          *)
Close_Forever ==
  /\ At("close") /\ thread' = "listen"
  /\ UNCHANGED <<newsockfd, web_running, found, killed, netVars, clientVars>>

(* newsockfd is closed and keeps its number.                               *)
Close ==
  /\ At("close") /\ thread' = IF web_running THEN "listen" ELSE "ended"
  /\ UNCHANGED <<newsockfd, web_running, found, killed, netVars, clientVars>>

web_callback ==
  \/ Listen \/ Accept \/ AcceptFails \/ Read \/ ServeNobody
  \/ Choose \/ Written \/ BrokenPipe \/ Close

-----------------------------------------------------------------------------
Next ==
  \/ web_callback
  \/ \E c \in Clients : Connect(c) \/ Send(c) \/ Take(c) \/ Leave(c)

Spec == Init /\ [][Next]_vars

(* The web thread goes on when it can; nothing is assumed of the clients.  *)
FairSpec == Spec /\ WF_vars(web_callback)

-----------------------------------------------------------------------------
TypeOK ==
  /\ thread \in Labels /\ newsockfd \in Clients \cup {SOCKET_INACTIVE}
  /\ thread \in {"choose", "write", "close"} => newsockfd \in Clients
  /\ web_running \in BOOLEAN /\ found \subseteq Words
  /\ queue \in Seq(Clients) /\ {listening, killed} \subseteq BOOLEAN
  /\ {connected, left, taken, dropped} \subseteq SUBSET Clients
  /\ {sent, heard} \subseteq [Clients -> Nat]
  /\ \A c \in Clients : heard[c] <= sent[c] /\ sent[c] <= Len(Request[c])
  /\ answer \in [Clients -> Answers]

AsksForPicture(c) == {"GET", "image.jpg"} \subseteq WordsOf(c, Len(Request[c]))
AskedToStop(c) == "STOP" \in WordsOf(c, heard[c])

(* Whoever is sent the picture has asked for it, whatever the clients      *)
(* before it sent; and whoever asked for it is sent the page only if the   *)
(* one read of read_socket came too early or returned too little.          *)
AnswersFit ==
  \A c \in Clients :
    /\ answer[c] = "picture" => AsksForPicture(c)
    /\ answer[c] = "page" /\ AsksForPicture(c) => heard[c] < Len(Request[c])

(* STOP, once read, is the last request but those under way: the thread    *)
(* does not go back to accept; and nothing else ends it.                   *)
StopEndsService ==
  /\ thread \in {"listen", "accept"} => \A c \in Clients : ~AskedToStop(c)
  /\ thread = "ended" => \E c \in Clients : AskedToStop(c)

InService(c) == newsockfd = c /\ thread \in {"read", "choose"}
Waiting(c) == \E i \in DOMAIN queue : queue[i] = c

(* No connection is forgotten and none is served twice: each is waiting,   *)
(* in service, answered, or lost by a failed accept.                       *)
EachInOnePlace ==
  \A c \in Clients :
    /\ c \in connected <=> Waiting(c) \/ InService(c) \/ answer[c] # "none" \/ c \in dropped
    /\ Waiting(c) => ~InService(c) /\ answer[c] = "none" /\ c \notin dropped
    /\ InService(c) => answer[c] = "none" /\ c \notin dropped
    /\ answer[c] # "none" => c \notin dropped

(* The client in service sends nothing, or does not take the picture.      *)
Blocked ==
  /\ newsockfd \in Clients \ left
  /\ \/ At("read") /\ sent[newsockfd] = 0
     \/ At("write") /\ answer[newsockfd] = "picture" /\ newsockfd \notin taken

(* If no client keeps the thread for ever, every client that connects is   *)
(* answered, but for the clients that failed accepts, STOP and SIGPIPE     *)
(* leave without an answer.                                                *)
EveryoneIsServed ==
  []<>~Blocked =>
    \A c \in Clients :
      c \in connected ~> answer[c] # "none" \/ c \in dropped \/ thread = "ended" \/ killed
=============================================================================
