------------------------- MODULE WebListener_proofs -------------------------
(***************************************************************************)
(* Proofs about WebListener, for any clients, requests and backlog.  A     *)
(* connection leaves the queue for good only because it is there once      *)
(* (QueuedOnce), so EachInOnePlace needs it; AnswersFit needs what is in   *)
(* quick_msg before the answer is chosen (FoundWords), and that nothing is *)
(* read from a client already answered, which EachInOnePlace says.         *)
(***************************************************************************)
EXTENDS WebListener, SequenceTheorems, TLAPS

Once(q) == \A i, j \in DOMAIN q : q[i] = q[j] => i = j
In(c, q) == \E i \in DOMAIN q : q[i] = c

QueuedOnce == Once(queue)

FoundWords == thread = "choose" => found = WordsOf(newsockfd, heard[newsockfd])

(* web_running says that nobody was heard to ask for the end; the thread   *)
(* comes back to listen only while it is set.                              *)
Running ==
  /\ web_running <=> \A c \in Clients : ~AskedToStop(c)
  /\ thread \in {"listen", "accept", "read"} => web_running
  /\ thread = "ended" => ~web_running

Places == QueuedOnce /\ EachInOnePlace
Inv == TypeOK /\ Places /\ FoundWords /\ Running /\ AnswersFit
-----------------------------------------------------------------------------
(* A queue and what joins or leaves it.                                    *)
LEMMA Joined ==
  ASSUME NEW q \in Seq(Clients), NEW c \in Clients, Once(q), ~In(c, q)
  PROVE  /\ Append(q, c) \in Seq(Clients) /\ Once(Append(q, c))
         /\ \A d : In(d, Append(q, c)) <=> In(d, q) \/ d = c
<1>1. /\ Append(q, c) \in Seq(Clients) /\ Len(q) \in Nat
      /\ DOMAIN q = 1 .. Len(q) /\ DOMAIN Append(q, c) = 1 .. Len(q) + 1
      /\ \A i \in 1 .. Len(q) : Append(q, c)[i] = q[i]
      /\ Append(q, c)[Len(q) + 1] = c
  OBVIOUS
<1>2. Once(Append(q, c))
  BY <1>1 DEF Once, In
<1>3. ASSUME NEW d
      PROVE  In(d, Append(q, c)) <=> In(d, q) \/ d = c
  BY <1>1 DEF In
<1> QED
  BY <1>1, <1>2, <1>3

LEMMA TailItems ==
  ASSUME NEW q \in Seq(Clients), q # <<>>
  PROVE  /\ Head(q) \in Clients /\ Tail(q) \in Seq(Clients) /\ Len(q) \in Nat \ {0}
         /\ DOMAIN q = 1 .. Len(q) /\ DOMAIN Tail(q) = 1 .. Len(q) - 1
         /\ Head(q) = q[1] /\ \A i \in 1 .. Len(q) - 1 : Tail(q)[i] = q[i + 1]
<1>1. Len(q) \in Nat \ {0} /\ DOMAIN q = 1 .. Len(q) /\ Head(q) = q[1]
  BY EmptySeq
<1>2. Head(q) \in Clients /\ Tail(q) \in Seq(Clients) /\ Len(Tail(q)) = Len(q) - 1
  BY HeadTailProperties
<1>3. \A i \in 1 .. Len(q) - 1 : Tail(q)[i] = q[i + 1]
  BY HeadTailProperties
<1>4. DOMAIN Tail(q) = 1 .. Len(Tail(q))
  BY <1>2, LenProperties
<1> QED
  BY <1>1, <1>2, <1>3, <1>4

LEMMA Left ==
  ASSUME NEW q \in Seq(Clients), q # <<>>, Once(q)
  PROVE  /\ Head(q) \in Clients /\ Tail(q) \in Seq(Clients) /\ Once(Tail(q)) /\ In(Head(q), q)
         /\ \A d : In(d, Tail(q)) <=> In(d, q) /\ d # Head(q)
<1> USE TailItems
<1>1. Once(Tail(q))
  BY DEF Once
<1>2. In(Head(q), q)
  BY DEF In
<1>3. ASSUME NEW d, In(d, Tail(q))
      PROVE  In(d, q) /\ d # Head(q)
  BY <1>3 DEF In, Once
<1>4. ASSUME NEW d, In(d, q), d # Head(q)
      PROVE  In(d, Tail(q))
  <2>1. PICK i \in 1 .. Len(q) : q[i] = d
    BY <1>4 DEF In
  <2>2. i - 1 \in 1 .. Len(q) - 1 /\ Tail(q)[i - 1] = d
    BY <1>4, <2>1
  <2> QED
    BY <2>2 DEF In
<1> QED
  BY <1>1, <1>2, <1>3, <1>4

(* The words of fewer parts are among those of more.                       *)
LEMMA WordsGrow ==
  ASSUME NEW c \in Clients, NEW n \in Nat, NEW m \in Nat, n <= m
  PROVE  WordsOf(c, n) \subseteq WordsOf(c, m)
<1>1. 1 .. n \subseteq 1 .. m
  OBVIOUS
<1> QED
  BY <1>1 DEF WordsOf

LEMMA WordsAreWords ==
  ASSUME NEW c \in Clients, NEW n \in Nat, n <= Len(Request[c])
  PROVE  WordsOf(c, n) \subseteq Words
<1>1. Request[c] \in Seq(SUBSET Words)
  BY RequestAssumption
<1>2. \A i \in 1 .. n : Request[c][i] \in SUBSET Words
  BY <1>1
<1> QED
  BY <1>2 DEF WordsOf
-----------------------------------------------------------------------------
LEMMA InvInit == Init => Inv
<1> SUFFICES ASSUME Init PROVE Inv
  OBVIOUS
<1>1. TypeOK
  <2>1. \A c \in Clients : Len(Request[c]) \in Nat
    BY RequestAssumption
  <2>2. queue \in Seq(Clients)
    BY EmptySeq DEF Init
  <2>3. {sent, heard} \subseteq [Clients -> Nat] /\ answer \in [Clients -> Answers]
    BY DEF Init, Answers
  <2>4. \A c \in Clients : heard[c] <= sent[c] /\ sent[c] <= Len(Request[c])
    <3>1. \A c \in Clients : heard[c] = 0 /\ sent[c] = 0
      BY DEF Init
    <3>2. \A n \in Nat : 0 <= n
      OBVIOUS
    <3> QED
      BY <2>1, <3>1, <3>2
  <2>5. {connected, left, taken, dropped} \subseteq SUBSET Clients
    BY DEF Init
  <2>6. /\ thread \in Labels /\ newsockfd \in Clients \cup {SOCKET_INACTIVE}
        /\ thread \in {"choose", "write", "close"} => newsockfd \in Clients
        /\ web_running \in BOOLEAN /\ found \subseteq Words /\ {listening, killed} \subseteq BOOLEAN
    BY DEF Init, Labels
  <2> QED
    BY <2>2, <2>3, <2>4, <2>5, <2>6 DEF TypeOK
<1>2. Places /\ FoundWords /\ AnswersFit
  BY DEF Init, Places, QueuedOnce, Once, EachInOnePlace, Waiting, InService, FoundWords, AnswersFit
<1>3. Running
  <2>1. \A c \in Clients : WordsOf(c, 0) = {}
    BY DEF WordsOf
  <2> QED
    BY <2>1 DEF Init, Running, AskedToStop
<1> QED
  BY <1>1, <1>2, <1>3 DEF Inv

(* Clients only send, take and leave: what the server knows stays as it is. *)
LEMMA ClientsKeep ==
  ASSUME TypeOK, Places, FoundWords, Running, AnswersFit,
         UNCHANGED <<serverVars, heard, answer>>
  PROVE  FoundWords' /\ Running' /\ AnswersFit'
  BY DEF FoundWords, Running, AnswersFit, AskedToStop, AsksForPicture, WordsOf, serverVars

(* Nothing is heard or answered and STOP is not decided on: only where the *)
(* thread is has changed.                                                  *)
LEMMA PlacesKept ==
  ASSUME Places, UNCHANGED <<queue, dropped, answer, connected>>,
         \A c \in Clients : InService(c)' <=> InService(c)
  PROVE  Places'
  BY DEF Places, QueuedOnce, Once, EachInOnePlace, Waiting

LEMMA InvNext == Inv /\ [Next]_vars => Inv'
<1> SUFFICES ASSUME Inv, [Next]_vars PROVE Inv'
  OBVIOUS
<1> USE DEF Inv
<1>1. ASSUME NEW c \in Clients, Connect(c)
      PROVE  Inv'
  <2> USE <1>1 DEF Connect
  <2>1. queue \in Seq(Clients) /\ c \notin connected /\ queue' = Append(queue, c) /\ Once(queue)
    BY DEF TypeOK, Places, QueuedOnce
  <2>2. ~In(c, queue)
    BY <2>1 DEF Places, EachInOnePlace, Waiting, In
  <2>3. queue' \in Seq(Clients) /\ Once(queue') /\ \A d : In(d, queue') <=> In(d, queue) \/ d = c
    BY <2>1, <2>2, Joined
  <2>4. TypeOK'
    BY <2>3 DEF TypeOK, serverVars
  <2>5. \A d \in Clients : Waiting(d)' <=> Waiting(d) \/ d = c
    BY <2>3 DEF Waiting, In
  <2>6. Places'
    BY <2>1, <2>3, <2>5 DEF Places, QueuedOnce, EachInOnePlace, InService, serverVars
  <2> QED BY <2>4, <2>6, ClientsKeep
<1>2. ASSUME NEW c \in Clients, Send(c)
      PROVE  Inv'
  <2> USE <1>2 DEF Send, netVars
  <2>1. Len(Request[c]) \in Nat
    BY RequestAssumption
  <2>2. TypeOK'
    BY <2>1 DEF TypeOK, serverVars
  <2>3. Places'
    BY PlacesKept DEF InService, serverVars
  <2> QED BY <2>2, <2>3, ClientsKeep
<1>3. ASSUME NEW c \in Clients, Take(c) \/ Leave(c)
      PROVE  Inv'
  <2> USE <1>3 DEF Take, Leave, netVars
  <2>2. TypeOK'
    BY DEF TypeOK, serverVars
  <2>3. Places'
    BY PlacesKept DEF InService, serverVars
  <2> QED BY <2>2, <2>3, ClientsKeep
<1>4. CASE Listen
  <2> USE <1>4 DEF Listen, At, clientVars
  <2>1. TypeOK'
    BY DEF TypeOK, Labels
  <2>2. Places'
    BY PlacesKept DEF InService
  <2>3. FoundWords' /\ Running' /\ AnswersFit'
    BY DEF FoundWords, Running, AnswersFit, AskedToStop
  <2> QED BY <2>1, <2>2, <2>3
<1>5. CASE Accept \/ AcceptFails
  <2> USE <1>5 DEF Accept, AcceptFails, At, clientVars
  <2>1. /\ queue \in Seq(Clients) /\ queue # <<>> /\ Once(queue) /\ queue' = Tail(queue)
        /\ thread = "accept" /\ thread' = "read" /\ found' = {}
        /\ newsockfd' \in {Head(queue), SOCKET_INACTIVE}
    BY DEF TypeOK, Places, QueuedOnce
  <2>2. /\ Head(queue) \in Clients /\ queue' \in Seq(Clients) /\ Once(queue') /\ In(Head(queue), queue)
        /\ \A d : In(d, queue') <=> In(d, queue) /\ d # Head(queue)
    BY <2>1, Left
  <2>3. TypeOK'
    BY <2>1, <2>2 DEF TypeOK, Labels
  <2>4. \A d \in Clients : Waiting(d)' <=> Waiting(d) /\ d # Head(queue)
    BY <2>2 DEF Waiting, In
  <2>5. Waiting(Head(queue))
    BY <2>2 DEF Waiting, In
  <2>6. EachInOnePlace'
    <3>1. CASE Accept
      BY <3>1, <2>2, <2>4, <2>5 DEF Places, EachInOnePlace, InService
    <3>2. CASE AcceptFails
      BY <3>2, <2>2, <2>4, <2>5, ClientAssumption DEF Places, EachInOnePlace, InService
    <3> QED BY <1>5, <3>1, <3>2
  <2>7. Places'
    BY <2>2, <2>6 DEF Places, QueuedOnce
  <2>8. FoundWords' /\ Running' /\ AnswersFit'
    BY DEF FoundWords, Running, AnswersFit, AskedToStop
  <2> QED BY <2>3, <2>7, <2>8
<1>6. CASE Read
  <2> USE <1>6 DEF Read, At, clientVars
  <2> DEFINE c == newsockfd
  <2>1. c \in Clients /\ thread = "read" /\ InService(c)
    BY DEF TypeOK, InService
  <2>2. PICK n \in 0 .. ReadLimit :
          /\ n = sent[c] \/ n < sent[c] \/ n = 0
          /\ heard' = [heard EXCEPT ![c] = n]
          /\ found' = WordsOf(c, n)
          /\ web_running' = (web_running /\ "STOP" \notin WordsOf(c, n))
    <3> HIDE DEF WordsOf
    <3> QED
      OBVIOUS
  <2>3. n \in Nat /\ n <= sent[c] /\ n <= Len(Request[c])
    BY <2>1, <2>2, BoundsAssumption, RequestAssumption DEF TypeOK
  <2>4. /\ heard' \in [Clients -> Nat] /\ heard'[c] = n
        /\ \A d \in Clients \ {c} : heard'[d] = heard[d]
    BY <2>1, <2>2, <2>3 DEF TypeOK
  <2>5. TypeOK'
    <3>1. found' \subseteq Words
      BY <2>1, <2>2, <2>3, WordsAreWords
    <3>2. \A d \in Clients : heard'[d] <= sent[d]
      BY <2>1, <2>3, <2>4 DEF TypeOK
    <3>3. web_running' \in BOOLEAN
      BY <2>2
    <3> QED
      BY <2>1, <2>4, <3>1, <3>2, <3>3 DEF TypeOK, Labels
  <2>6. Places'
    BY PlacesKept DEF InService
  <2>7. FoundWords'
    BY <2>2, <2>4 DEF FoundWords
  <2>8. Running'
    <3>1. web_running /\ \A d \in Clients : "STOP" \notin WordsOf(d, heard[d])
      BY <2>1 DEF Running, AskedToStop
    <3>2. web_running' <=> "STOP" \notin WordsOf(c, n)
      BY <2>2, <3>1
    <3>3. web_running' <=> \A d \in Clients : "STOP" \notin WordsOf(d, heard'[d])
      BY <2>1, <2>4, <3>1, <3>2
    <3> HIDE DEF c
    <3>4. WordsOf(newsockfd, 0)' = WordsOf(newsockfd, 0)
      BY DEF WordsOf
    <3> QED
      BY <3>3 DEF Running, AskedToStop, WordsOf
  <2>9. AnswersFit'
    <3>1. answer[c] = "none"
      BY <2>1 DEF Places, EachInOnePlace
    <3> QED
      BY <2>4, <3>1 DEF AnswersFit, AsksForPicture, WordsOf
  <2> QED BY <2>5, <2>6, <2>7, <2>8, <2>9
<1>7. CASE ServeNobody \/ Written \/ Close \/ BrokenPipe
  <2> USE <1>7 DEF ServeNobody, Written, Close, BrokenPipe, At, netVars, clientVars
  <2>1. TypeOK'
    BY DEF TypeOK, Labels
  <2>2. Places'
    BY PlacesKept, ClientAssumption DEF InService
  <2>3. FoundWords' /\ Running' /\ AnswersFit'
    BY DEF FoundWords, Running, AnswersFit, AskedToStop
  <2> QED BY <2>1, <2>2, <2>3
<1>8. CASE Choose
  <2> USE <1>8 DEF Choose, At, clientVars
  <2> DEFINE c == newsockfd
  <2>1. c \in Clients /\ thread = "choose" /\ InService(c) /\ found = WordsOf(c, heard[c])
    BY DEF TypeOK, InService, FoundWords
  <2>2. /\ answer' \in [Clients -> Answers]
        /\ answer'[c] = IF {"GET", "image.jpg"} \subseteq found THEN "picture" ELSE "page"
        /\ \A d \in Clients \ {c} : answer'[d] = answer[d]
    BY <2>1 DEF TypeOK, Answers
  <2>3. TypeOK'
    BY <2>1, <2>2 DEF TypeOK, Labels
  <2>4. Places'
    BY <2>1, <2>2 DEF Places, QueuedOnce, Once, EachInOnePlace, Waiting, InService
  <2>5. FoundWords' /\ Running'
    BY DEF FoundWords, Running, AskedToStop
  <2>6. AnswersFit'
    <3>1. heard[c] \in Nat /\ Len(Request[c]) \in Nat /\ heard[c] <= Len(Request[c])
      BY <2>1, RequestAssumption DEF TypeOK
    <3>2. found \subseteq WordsOf(c, Len(Request[c]))
      BY <2>1, <3>1, WordsGrow
    <3>3. answer'[c] = "picture" => AsksForPicture(c)
      BY <2>2, <3>2 DEF AsksForPicture
    <3>4. answer'[c] = "page" /\ AsksForPicture(c) => heard[c] < Len(Request[c])
      BY <2>1, <2>2, <3>1 DEF AsksForPicture
    <3> QED
      BY <2>1, <2>2, <3>3, <3>4 DEF AnswersFit, AsksForPicture
  <2> QED BY <2>3, <2>4, <2>5, <2>6
<1>9. CASE UNCHANGED vars
  <2> USE <1>9 DEF vars, netVars, clientVars
  <2>1. TypeOK'
    BY DEF TypeOK, serverVars
  <2>2. Places'
    BY PlacesKept DEF InService, serverVars
  <2> QED BY <2>1, <2>2, ClientsKeep
<1> QED
  BY <1>1, <1>2, <1>3, <1>4, <1>5, <1>6, <1>7, <1>8, <1>9 DEF Next, web_callback

LEMMA Invariance == Spec => []Inv
  BY InvInit, InvNext, PTL DEF Spec
-----------------------------------------------------------------------------
(* Every variable keeps to its type, and the thread answers and closes     *)
(* connections only.                                                       *)
THEOREM TypeCorrect == Spec => []TypeOK
  BY Invariance, PTL DEF Inv

(* Who is sent the picture has asked for it, and who asked for it is sent  *)
(* it if one read returned the request.                                    *)
THEOREM RightAnswer == Spec => []AnswersFit
  BY Invariance, PTL DEF Inv

(* Once STOP is read the thread accepts nobody, and only STOP ends it.     *)
THEOREM StopIsLast == Spec => []StopEndsService
<1>1. Inv => StopEndsService
  BY DEF Inv, Running, StopEndsService
<1> QED
  BY <1>1, Invariance, PTL

(* Each connection is waiting, in service, answered or lost by accept, and *)
(* one of them only.                                                       *)
THEOREM NobodyForgotten == Spec => []EachInOnePlace
  BY Invariance, PTL DEF Inv, Places
=============================================================================
