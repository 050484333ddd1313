------------------------- MODULE VideoSystem_proofs -------------------------
(***************************************************************************)
(* Proofs about VideoSystem, for any set of cameras and any bounds.        *)
(* AgreeAtRest is not inductive: it says nothing of requests under way.    *)
(* Told says what the mode the writer last sent has to do with the         *)
(* requests that are still to be read and with the server's mode.          *)
(***************************************************************************)
EXTENDS VideoSystem, SequenceTheorems, TLAPS

(* The last request under way is for the writer's mode; when there is none *)
(* the server is in that mode, or motion has taken it to Movie.            *)
Told(c) ==
  /\ requests[c] # <<>> => requests[c][Len(requests[c])] = writer[c].mode
  /\ requests[c] = <<>> => server[c].mode = writer[c].mode \/ server[c].motion

(* Between nextMode's return and the write the writer's mode is not yet    *)
(* sent, and a mode taken for the old one is never sent.                   *)
ToldUnlessLost ==
  \A c \in Cameras :
    \/ writer[c].at = "enter"
    \/ writer[c].at = "wait" /\ ~lost[c]
    => Told(c)

Inv == TypeOK /\ ToldUnlessLost
-----------------------------------------------------------------------------
(* What reading the first of some requests leaves.                         *)
LEMMA TailFacts ==
  ASSUME NEW s \in Seq(Modes), s # <<>>
  PROVE  /\ Head(s) \in Modes /\ Tail(s) \in Seq(Modes)
         /\ Tail(s) # <<>> => Tail(s)[Len(Tail(s))] = s[Len(s)]
         /\ Tail(s) = <<>> => Head(s) = s[Len(s)]
<1>1. /\ Len(s) \in Nat \ {0} /\ Head(s) \in Modes
      /\ Tail(s) \in Seq(Modes) /\ Len(Tail(s)) = Len(s) - 1
      /\ \A i \in 1 .. Len(s) - 1 : Tail(s)[i] = s[i + 1]
  <2>1. Len(s) \in Nat \ {0}
    BY EmptySeq
  <2>2. Head(s) \in Modes /\ Tail(s) \in Seq(Modes) /\ Len(Tail(s)) = Len(s) - 1
    BY HeadTailProperties
  <2>3. \A i \in 1 .. Len(s) - 1 : Tail(s)[i] = s[i + 1]
    BY HeadTailProperties
  <2> QED BY <2>1, <2>2, <2>3
<1>2. CASE Tail(s) = <<>>
  <2>1. Len(s) = 1
    BY <1>1, <1>2, EmptySeq
  <2>2. Head(s) = s[1]
    OBVIOUS
  <2> QED
    BY <1>2, <2>1, <2>2, <1>1
<1>3. CASE Tail(s) # <<>>
  <2>1. Len(Tail(s)) # 0
    BY <1>1, <1>3, EmptySeq
  <2> QED
    BY <1>1, <1>3, <2>1
<1> QED
  BY <1>1, <1>2, <1>3

LEMMA AppendFacts ==
  ASSUME NEW S, NEW s \in Seq(S), NEW m \in S
  PROVE  /\ Append(s, m) \in Seq(S) /\ Append(s, m) # <<>>
         /\ Append(s, m)[Len(Append(s, m))] = m
  OBVIOUS

(* set_mode keeps the types, and only motion sets the bit, with Movie.     *)
ServerTypes ==
  /\ server \in [Cameras -> [mode : Modes, motion : BOOLEAN]]
  /\ \A c \in Cameras : server[c].motion => server[c].mode = MODE_MOVIE

LEMMA SetModeFacts ==
  ASSUME ServerTypes, NEW c \in Cameras, NEW m \in Modes, NEW b \in BOOLEAN,
         b => m = MODE_MOVIE, SetMode(c, m, b)
  PROVE  /\ ServerTypes'
         /\ server'[c].mode = m
         /\ \A d \in Cameras \ {c} : server'[d] = server[d]
         /\ server'[c] = server[c] \/ server'[c].motion = b
<1>1. CASE m = server[c].mode
  BY <1>1 DEF SetMode, ServerTypes
<1>2. CASE m # server[c].mode
  <2>1. server' = [server EXCEPT ![c] = [mode |-> m, motion |-> b]]
    BY <1>2 DEF SetMode
  <2> QED
    BY <2>1 DEF ServerTypes
<1> QED
  BY <1>1, <1>2

LEMMA InvInit == Init => Inv
  BY BoundsAssumption
  DEF Init, Inv, TypeOK, ToldUnlessLost, Told, Modes, Writing, Sampled, MODE_IDLE, MODE_MOVIE

LEMMA InvNext == Inv /\ [Next]_vars => Inv'
<1> SUFFICES ASSUME Inv, [Next]_vars PROVE Inv'
  OBVIOUS
<1> USE BoundsAssumption DEF Inv, TypeOK
<1>1. ASSUME NEW c \in Cameras, NEW m \in Modes, Press(c, m)
      PROVE  Inv'
  <2> USE <1>1 DEF Press, writerVars, headerVars
  <2>1. TypeOK'
    OBVIOUS
  <2>2. ToldUnlessLost'
    BY DEF ToldUnlessLost, Told
  <2> QED BY <2>1, <2>2
<1>2. ASSUME NEW c \in Cameras, NextModeEnter(c)
      PROVE  Inv'
  <2> USE <1>2 DEF NextModeEnter, clientVars, headerVars, countVars
  <2>1. TypeOK'
    BY DEF Writing
  <2>2. ASSUME NEW d \in Cameras,
               \/ writer'[d].at = "enter"
               \/ writer'[d].at = "wait" /\ ~lost'[d]
        PROVE  Told(d)'
    <3>1. CASE d = c
      <4>1. writer'[d].mode = writer[d].mode /\ writer[d].at = "enter"
        BY <3>1, <2>2
      <4> QED
        BY <4>1 DEF ToldUnlessLost, Told
    <3>2. CASE d # c
      BY <3>2, <2>2 DEF ToldUnlessLost, Told
    <3> QED BY <3>1, <3>2
  <2>3. ToldUnlessLost'
    BY <2>2 DEF ToldUnlessLost
  <2> QED BY <2>1, <2>3
<1>3. ASSUME NEW c \in Cameras, NextModeReturn(c)
      PROVE  Inv'
  <2> USE <1>3 DEF NextModeReturn, clientVars, headerVars, countVars
  <2>1. TypeOK'
    BY DEF Writing
  <2>2. ToldUnlessLost'
    BY DEF ToldUnlessLost, Told
  <2> QED BY <2>1, <2>2
<1>4. ASSUME NEW c \in Cameras, WriteRequest(c)
      PROVE  Inv'
  <2> USE <1>4 DEF WriteRequest, clientVars, headerVars, countVars
  <2>1. /\ requests'[c] = Append(requests[c], writer[c].mode)
        /\ requests' \in [Cameras -> Seq(Modes)]
        /\ \A d \in Cameras \ {c} : requests'[d] = requests[d] /\ writer'[d] = writer[d]
    OBVIOUS
  <2>2. writer' \in [Cameras -> [at : Writing, mode : Modes]] /\ writer'[c].mode = writer[c].mode
    BY DEF Writing
  <2>3. TypeOK'
    BY <2>1, <2>2
  <2>4. Told(c)'
    <3>1. requests'[c] # <<>> /\ requests'[c][Len(requests'[c])] = writer[c].mode
      BY <2>1, AppendFacts
    <3> QED
      BY <3>1, <2>2 DEF Told
  <2>5. ToldUnlessLost'
    BY <2>1, <2>4 DEF ToldUnlessLost, Told
  <2> QED BY <2>3, <2>5
<1>5. ASSUME NEW c \in Cameras, ReadHeader(c)
      PROVE  Inv'
  <2> USE <1>5 DEF ReadHeader, Reports, writerVars, countVars
  <2>1. Head(headers[c]) \in Headers /\ Tail(headers[c]) \in Seq(Headers)
    OBVIOUS
  <2>2. headers' \in [Cameras -> Seq(Headers)] /\ clientMode' \in [Cameras -> Modes]
    BY <2>1 DEF Modes
  <2>3. motion' \in [Cameras -> BOOLEAN]
    BY <2>1 DEF Headers
  <2>4. TypeOK'
    BY <2>2, <2>3
  <2>5. ToldUnlessLost'
    BY DEF ToldUnlessLost, Told
  <2> QED BY <2>4, <2>5
<1>6. ASSUME NEW c \in Cameras, ReadRequest(c)
      PROVE  Inv'
  <2> DEFINE m == Head(requests[c])
  <2> USE <1>6 DEF ReadRequest, clientVars, writerVars, headerVars, countVars
  <2>1. /\ m \in Modes /\ Tail(requests[c]) \in Seq(Modes)
        /\ Tail(requests[c]) # <<>>
             => Tail(requests[c])[Len(Tail(requests[c]))] = requests[c][Len(requests[c])]
        /\ Tail(requests[c]) = <<>> => m = requests[c][Len(requests[c])]
    BY TailFacts
  <2>2. /\ ServerTypes'
        /\ server'[c].mode = m
        /\ \A d \in Cameras \ {c} : server'[d] = server[d]
    <3>1. ServerTypes /\ SetMode(c, m, FALSE)
      BY DEF ServerTypes
    <3> HIDE DEF m
    <3> QED BY <3>1, <2>1, SetModeFacts
  <2>3. /\ requests' \in [Cameras -> Seq(Modes)] /\ requests'[c] = Tail(requests[c])
        /\ \A d \in Cameras \ {c} : requests'[d] = requests[d]
    BY <2>1
  <2>4. TypeOK'
    BY <2>2, <2>3 DEF ServerTypes
  <2>5. Told(c) => Told(c)'
    BY <2>1, <2>2, <2>3 DEF Told
  <2>6. \A d \in Cameras \ {c} : Told(d) => Told(d)'
    BY <2>2, <2>3 DEF Told
  <2>7. ToldUnlessLost'
    BY <2>5, <2>6 DEF ToldUnlessLost
  <2> QED BY <2>4, <2>7
<1>7. ASSUME NEW c \in Cameras, MotionDetected(c)
      PROVE  Inv'
  <2> USE <1>7 DEF MotionDetected, clientVars, writerVars, headerVars
  <2>1. /\ ServerTypes'
        /\ \A d \in Cameras \ {c} : server'[d] = server[d]
        /\ server'[c] = server[c] \/ server'[c].motion = TRUE
    BY SetModeFacts DEF ServerTypes, Modes
  <2>2. TypeOK'
    BY <2>1 DEF ServerTypes
  <2>3. \A d \in Cameras : Told(d) => Told(d)'
    BY <2>1 DEF Told
  <2>4. ToldUnlessLost'
    BY <2>3 DEF ToldUnlessLost
  <2> QED BY <2>2, <2>4
<1>8. ASSUME NEW c \in Cameras, SampleMode(c)
      PROVE  Inv'
  <2> USE <1>8 DEF SampleMode, clientVars, writerVars, countVars
  <2>1. TypeOK'
    BY DEF Sampled
  <2>2. ToldUnlessLost'
    BY DEF ToldUnlessLost, Told
  <2> QED BY <2>1, <2>2
<1>9. ASSUME NEW c \in Cameras, SendModeByte(c)
      PROVE  Inv'
  <2> DEFINE h == [movie |-> sampled[c] = MODE_MOVIE, motionBit |-> server[c].motion]
  <2> USE <1>9 DEF SendModeByte, clientVars, writerVars, countVars
  <2>1. h \in Headers
    BY DEF Headers
  <2>2. headers' = [headers EXCEPT ![c] = Append(@, h)]
    OBVIOUS
  <2> HIDE DEF h
  <2>3. headers' \in [Cameras -> Seq(Headers)]
    BY <2>1, <2>2, AppendFacts
  <2>4. sampled' \in [Cameras -> Sampled]
    BY DEF Sampled
  <2>5. TypeOK'
    BY <2>3, <2>4
  <2>6. ToldUnlessLost'
    BY DEF ToldUnlessLost, Told
  <2> QED BY <2>5, <2>6
<1>10. CASE UNCHANGED vars
  BY <1>10 DEF vars, clientVars, writerVars, headerVars, countVars, ToldUnlessLost, Told
<1> QED
  BY <1>1, <1>2, <1>3, <1>4, <1>5, <1>6, <1>7, <1>8, <1>9, <1>10 DEF Next, Writer, Streamer

LEMMA Invariance == Spec => []Inv
  BY InvInit, InvNext, PTL DEF Spec
-----------------------------------------------------------------------------
(* Every variable keeps to its type, and a server is in Movie whenever its *)
(* motion bit is set (socket_set_mode).                                    *)
THEOREM TypeCorrect == Spec => []TypeOK
  BY Invariance, PTL DEF Inv

(* Once a ServerWriter rests, client and server agree on the mode, unless  *)
(* nextMode lost a request or motion took the server to Movie.             *)
THEOREM Agreement == Spec => []AgreeAtRest
<1>1. Inv => AgreeAtRest
  BY DEF Inv, ToldUnlessLost, Told, AgreeAtRest, AtRest
<1> QED
  BY <1>1, Invariance, PTL

(* A call of SetMode is a step of the register it is called on, or none.   *)
LEMMA SetModeIsRegister ==
  ASSUME ServerTypes, NEW c \in Cameras, NEW m \in Modes, NEW b \in BOOLEAN,
         b => m = MODE_MOVIE, SetMode(c, m, b), NEW d \in Cameras
  PROVE  Register(d)!Next \/ UNCHANGED server[d]
<1>1. CASE m = server[c].mode
  BY <1>1 DEF SetMode
<1>2. CASE d # c
  BY <1>2 DEF SetMode, ServerTypes
<1>3. CASE d = c /\ m # server[c].mode
  <2>1. m # server[d].mode /\ server'[d].mode = m /\ server'[d].motion = b
    BY <1>3 DEF SetMode, ServerTypes
  <2>2. CASE m = MODE_IDLE
    BY <2>1, <2>2 DEF Register!Next, Register!SetMode, MODE_IDLE, MODE_MOVIE
  <2>3. CASE m = MODE_MOVIE
    BY <2>1, <2>3 DEF Register!Next, Register!SetMode
  <2> QED
    BY <2>2, <2>3 DEF Modes
<1> QED
  BY <1>1, <1>2, <1>3

(* No step of the system changes a server's mode but as ModeRegister says: *)
(* in each server set_mode is the only way to the mode and the bit.        *)
THEOREM RegistersOnly == Spec => ServersAreRegisters
<1>1. ASSUME Inv, [Next]_vars, NEW d \in Cameras
      PROVE  Register(d)!Next \/ UNCHANGED server[d]
  <2>1. ServerTypes
    BY <1>1 DEF Inv, TypeOK, ServerTypes
  <2>2. ASSUME NEW c \in Cameras, ReadRequest(c)
        PROVE  Register(d)!Next \/ UNCHANGED server[d]
    <3>1. Head(requests[c]) \in Modes
      BY <1>1, <2>2, TailFacts DEF Inv, TypeOK, ReadRequest
    <3> QED
      BY <2>1, <2>2, <3>1, SetModeIsRegister DEF ReadRequest
  <2>3. ASSUME NEW c \in Cameras, MotionDetected(c)
        PROVE  Register(d)!Next \/ UNCHANGED server[d]
    BY <2>1, <2>3, SetModeIsRegister DEF MotionDetected, Modes
  <2>4. CASE \/ UNCHANGED vars
             \/ \E c \in Cameras : \/ \E m \in Modes : Press(c, m)
                                  \/ Writer(c) \/ ReadHeader(c) \/ Streamer(c)
    BY <2>4 DEF vars, Press, Writer, NextModeEnter, NextModeReturn, WriteRequest, ReadHeader,
                Streamer, SampleMode, SendModeByte
  <2> QED
    BY <1>1, <2>2, <2>3, <2>4 DEF Next
<1>2. Inv /\ [Next]_vars => [\A c \in Cameras : Register(c)!Next \/ UNCHANGED server[c]]_vars
  BY <1>1
<1> QED
  BY <1>2, Invariance, PTL DEF Spec, ServersAreRegisters

(* Each step of the client is the one of ClientModes that has its name, or *)
(* a request or a report of motion, whatever else the step does.           *)
LEMMA ClientStep == TypeOK /\ [Next]_vars => [Client!Next]_(Client!vars)
<1> SUFFICES ASSUME TypeOK, [Next]_vars
             PROVE  Client!Next \/ UNCHANGED Client!vars
  OBVIOUS
<1> USE DEF Client!vars, Client!Next
<1>1. ASSUME NEW c \in Cameras, NEW m \in Modes, Press(c, m)
      PROVE  Client!Request(c, m)
  BY <1>1 DEF Press, writerVars, Client!Request
<1>2. ASSUME NEW c \in Cameras, Writer(c)
      PROVE  Client!NextModeEnter(c) \/ Client!NextModeReturn(c) \/ Client!WriteRequest(c)
  <2> USE DEF Client!WriterGoes, clientVars
  <2>1. CASE NextModeEnter(c)
    BY <2>1 DEF NextModeEnter, Client!NextModeEnter
  <2>2. CASE NextModeReturn(c)
    BY <2>2 DEF NextModeReturn, Client!NextModeReturn
  <2>3. CASE WriteRequest(c)
    <3>1. writer' = [writer EXCEPT ![c].at = "enter"]
      BY <2>3 DEF WriteRequest
    <3>2. [writer[c] EXCEPT !.at = "enter"] = [at |-> "enter", mode |-> writer[c].mode]
      <4>1. writer[c] \in [at : Writing, mode : Modes]
        BY DEF TypeOK
      <4> QED BY <4>1
    <3>3. writer' = [writer EXCEPT ![c] = [at |-> "enter", mode |-> writer[c].mode]]
      BY <3>1, <3>2
    <3> QED BY <2>3, <3>3 DEF WriteRequest, Client!WriteRequest
  <2> QED BY <1>2, <2>1, <2>2, <2>3 DEF Writer
<1>3. ASSUME NEW c \in Cameras, ReadHeader(c)
      PROVE  Client!MotionReported \/ UNCHANGED Client!vars
  BY <1>3 DEF ReadHeader, writerVars, Client!MotionReported, Client!AllMovie
<1>4. ASSUME \/ UNCHANGED vars
             \/ \E c \in Cameras : ReadRequest(c) \/ MotionDetected(c) \/ Streamer(c)
      PROVE  UNCHANGED Client!vars
  BY <1>4 DEF vars, clientVars, writerVars, ReadRequest, MotionDetected, Streamer, SampleMode, SendModeByte
<1> QED
  BY <1>1, <1>2, <1>3, <1>4 DEF Next, Modes

(* The modes of the client and its writers go as ClientModes says.         *)
THEOREM ClientModesOnly == Spec => ClientIsClientModes
<1>1. Init => Client!Init
  BY DEF Init, Client!Init
<1> QED
  BY <1>1, Invariance, ClientStep, PTL DEF Inv, Spec, ClientIsClientModes, Client!Spec

(* What is sent to a camera's reader are mode bytes, and what it makes of  *)
(* them is what MotionReader says.                                         *)
LEMMA ReaderStep ==
  ASSUME TypeOK, [Next]_vars, NEW d \in Cameras
  PROVE  Reader(d)!Next \/ UNCHANGED <<headers[d], motion[d]>>
<1>1. ASSUME NEW c \in Cameras, ReadHeader(c)
      PROVE  Reader(d)!Next \/ UNCHANGED <<headers[d], motion[d]>>
  <2>1. CASE d # c
    BY <1>1, <2>1 DEF ReadHeader, TypeOK
  <2>2. CASE d = c
    <3>1. /\ headers[d] # <<>> /\ headers'[d] = Tail(headers[d])
          /\ motion'[d] = (Reports(d, Head(headers[d])) \/ (motion[d] /\ Head(headers[d]).movie))
      BY <1>1, <2>2 DEF ReadHeader, TypeOK
    <3>2. motion'[d] = Reader(d)!Remembered(Head(headers[d]))
      BY <3>1 DEF Reports, Reader!Remembered
    <3> QED BY <3>1, <3>2 DEF Reader!Next, Reader!Read
  <2> QED BY <2>1, <2>2
<1>2. ASSUME NEW c \in Cameras, SendModeByte(c)
      PROVE  Reader(d)!Next \/ UNCHANGED <<headers[d], motion[d]>>
  <2>1. CASE d # c
    BY <1>2, <2>1 DEF SendModeByte, clientVars, TypeOK
  <2>2. CASE d = c
    <3> DEFINE h == [movie |-> sampled[d] = MODE_MOVIE, motionBit |-> server[d].motion]
    <3>1. h \in [movie : BOOLEAN, motionBit : BOOLEAN]
      BY DEF TypeOK
    <3>2. headers'[d] = Append(headers[d], h) /\ motion'[d] = motion[d]
      BY <1>2, <2>2 DEF SendModeByte, clientVars, TypeOK
    <3> HIDE DEF h
    <3> QED BY <3>1, <3>2 DEF Reader!Next, Reader!Send
  <2> QED BY <2>1, <2>2
<1>3. CASE \/ UNCHANGED vars
           \/ \E c \in Cameras : \/ \E m \in Modes : Press(c, m)
                                \/ Writer(c) \/ ReadRequest(c) \/ MotionDetected(c) \/ SampleMode(c)
  BY <1>3 DEF vars, clientVars, headerVars, Press, Writer, NextModeEnter, NextModeReturn, WriteRequest,
              ReadRequest, MotionDetected, SampleMode
<1> QED
  BY <1>1, <1>2, <1>3 DEF Next, Streamer

(* From a server to the reader of its camera, and in the reader, the mode  *)
(* bytes go as MotionReader says.                                          *)
THEOREM MotionReadersOnly == Spec => ReadersAreMotionReaders
<1>1. Init => \A c \in Cameras : Reader(c)!Init
  BY DEF Init, Reader!Init
<1>2. Inv /\ [Next]_vars => [\A c \in Cameras : Reader(c)!Next \/ UNCHANGED <<headers[c], motion[c]>>]_vars
  BY ReaderStep DEF Inv
<1> QED
  BY <1>1, <1>2, Invariance, PTL DEF Spec, ReadersAreMotionReaders
=============================================================================
