---------------------------- MODULE ServerReader ----------------------------
(***************************************************************************)
(* How a ServerReader finds the frames in the bytes a server writes:       *)
(* output_start_flag, output_header and output_jpeg on one side, read and  *)
(* run on the other, and between them a connection that may end between    *)
(* any two bytes.                                                          *)
(*                                                                         *)
(* A word of the header has two bytes here instead of eight and four: what *)
(* matters is that the first of them holds the sign, and that the server   *)
(* never sends one that is negative.  The timestamp stands for the frame.  *)
(***************************************************************************)
EXTENDS Integers, Sequences, SequencesExt

CONSTANTS
  START_FLAG,
  Images,          \* the bytes of the images the camera takes
  MaxImageSize,    \* 100000000, scaled like the words
  MaxFrames,       \* bound: how many frames the server sends
  MaxWire          \* bound: how many bytes are under way

Byte == 0 .. 255

ASSUME BytesAssumption ==
  /\ START_FLAG \in Seq(Byte) /\ START_FLAG # <<>>
  /\ \A i \in DOMAIN START_FLAG : START_FLAG[i] < 128
  /\ \A image \in Images : image \in Seq(Byte) /\ Len(image) \in 1 .. MaxImageSize
  /\ {MaxImageSize, MaxFrames, MaxWire} \subseteq Nat \ {0}
  /\ MaxImageSize < 32768 /\ MaxFrames < 32768

HEADER_SIZE == 5
EndOfFile == 255          \* what (byte)read() is at the end of the stream

VARIABLES
  sent,        \* the frames the server has begun to write
  output,      \* what it has still to write of the last one
  wire,        \* the bytes written and not read
  connection,  \* "open", "closed", or "reset"
  at,          \* where the reader is
  startFlagIndex, header, image,
  motion,
  delivered,   \* history: what it passed to addFrame
  modes,       \* history: the mode bytes of the headers it has read
  reported     \* history: those at which it called changeMode

serverVars == <<sent, output>>
readerVars == <<at, startFlagIndex, header, image, motion>>
historyVars == <<delivered, modes, reported>>
vars == <<serverVars, wire, connection, readerVars, historyVars>>

Init ==
  /\ sent = <<>> /\ output = <<>>
  /\ wire = <<>> /\ connection = "open"
  /\ at = "flag" /\ startFlagIndex = 0 /\ header = <<>> /\ image = <<>>
  /\ motion = FALSE
  /\ delivered = <<>> /\ modes = <<>> /\ reported = {}

-----------------------------------------------------------------------------
(* The server                                                              *)

(* The bytes of a number, the highest first.                               *)
High(n) == n \div 256
Low(n) == n % 256
Bytes(n) == <<High(n), Low(n)>>

Size(f) == Len(f.image)

Header(f) == Bytes(f.timestamp) \o Bytes(Size(f)) \o <<f.mode>>

Encoded(f) == START_FLAG \o Header(f) \o f.image

(* A frame with the mode byte output_header makes: 1 for Movie, 2 for      *)
(* motion, and any mixture when the mode changes meanwhile (ModeHandler).  *)
CaptureAndOutput ==
  /\ connection = "open" /\ output = <<>> /\ Len(sent) < MaxFrames
  /\ \E mode \in 0 .. 3, picture \in Images :
       LET f == [timestamp |-> Len(sent) + 1, mode |-> mode, image |-> picture] IN
       /\ sent' = Append(sent, f)
       /\ output' = Encoded(f)
  /\ UNCHANGED <<wire, connection, readerVars, historyVars>>

Write ==
  /\ connection = "open" /\ output # <<>> /\ Len(wire) < MaxWire
  /\ wire' = Append(wire, Head(output))
  /\ output' = Tail(output)
  /\ UNCHANGED <<sent, connection, readerVars, historyVars>>

(* The server closes the descriptor or ends; with a command unread that is *)
(* a reset, and what was under way may be lost.                            *)
ServerCloses ==
  /\ connection = "open"
  /\ \/ connection' = "closed" /\ UNCHANGED wire
     \/ connection' = "reset" /\ \E n \in 0 .. Len(wire) : wire' = SubSeq(wire, 1, n)
  /\ UNCHANGED <<serverVars, readerVars, historyVars>>

-----------------------------------------------------------------------------
(* The reader                                                              *)

Readable == wire # <<>> \/ connection = "closed"

(* The byte iStream.read() returns, for ever EndOfFile after the last one. *)
Received == IF wire = <<>> THEN EndOfFile ELSE Head(wire)
Consumed == IF wire = <<>> THEN wire ELSE Tail(wire)

(* Mutant: the index of the flag is not that of this search alone.         *)
ReadStartFlag_KeepsIndex ==
  /\ at = "flag" /\ Readable
  /\ wire' = Consumed
  /\ IF startFlagIndex < Len(START_FLAG) /\ Received = START_FLAG[startFlagIndex + 1]
     THEN startFlagIndex' = startFlagIndex + 1
     ELSE startFlagIndex' = 0
  /\ at' = IF startFlagIndex' = Len(START_FLAG) THEN "header" ELSE "flag"
  /\ UNCHANGED <<serverVars, connection, header, image, motion, historyVars>>

(* A byte that does not go on with the flag is not tried as its first.     *)
ReadStartFlag ==
  /\ at = "flag" /\ Readable
  /\ wire' = Consumed
  /\ LET index == IF Received = START_FLAG[startFlagIndex + 1] THEN startFlagIndex + 1 ELSE 0 IN
       IF index = Len(START_FLAG)
       THEN startFlagIndex' = 0 /\ at' = "header"
       ELSE startFlagIndex' = index /\ at' = "flag"
  /\ UNCHANGED <<serverVars, connection, header, image, motion, historyVars>>

ReadHeader ==
  /\ at = "header" /\ Len(header) < HEADER_SIZE /\ Readable
  /\ header' = Append(header, Received)
  /\ wire' = Consumed
  /\ UNCHANGED <<serverVars, connection, at, startFlagIndex, image, motion, historyVars>>

Word(high, low) == (IF high >= 128 THEN high - 256 ELSE high) * 256 + low
Timestamp == Word(header[1], header[2])
ImageSize == Word(header[3], header[4])
Mode == header[5]
Thrown == Timestamp < 0 \/ ImageSize > MaxImageSize

InMovie(mode) == mode % 2 = 1
InMotion(mode) == (mode \div 2) % 2 = 1

(* Mutant: motion once seen is never forgotten.                            *)
Remembered_Sticky(mode) == motion \/ InMotion(mode)

(* The reader's motion after a header.                                     *)
Remembered(mode) ==
  IF InMotion(mode) /\ ~motion THEN TRUE ELSE motion /\ InMovie(mode)

Reports(mode) == InMotion(mode) /\ ~motion

(* The mode byte is acted on, and only then the header is found valid or   *)
(* not; new byte[] throws for a negative size, and nothing catches that.   *)
ParseHeader ==
  /\ at = "header" /\ Len(header) = HEADER_SIZE
  /\ modes' = Append(modes, Mode)
  /\ reported' = IF Reports(Mode) THEN reported \cup {Len(modes')} ELSE reported
  /\ motion' = Remembered(Mode)
  /\ IF Thrown
     THEN at' = "flag" /\ header' = <<>>
     ELSE at' = (IF ImageSize < 0 THEN "died" ELSE "image") /\ UNCHANGED header
  /\ UNCHANGED <<serverVars, wire, connection, startFlagIndex, image, delivered>>

(* Mutant: one byte more is taken for the image.                           *)
Complete_Late(bytes) == Len(bytes) = ImageSize + 1

Complete(bytes) == Len(bytes) = ImageSize

(* A byte is read only when available() says there is one, which it never  *)
(* does at the end of the stream.  With the last one read returns, and run *)
(* adds the frame.                                                         *)
ReadImage ==
  /\ at = "image" /\ wire # <<>>
  /\ wire' = Tail(wire)
  /\ LET bytes == Append(image, Head(wire)) IN
       IF Complete(bytes)
       THEN /\ delivered' = Append(delivered, [timestamp |-> Timestamp, mode |-> Mode, image |-> bytes])
            /\ at' = "flag" /\ header' = <<>> /\ image' = <<>>
       ELSE image' = bytes /\ UNCHANGED <<delivered, at, header>>
  /\ UNCHANGED <<serverVars, connection, startFlagIndex, motion, modes, reported>>

(* read() throws an IOException: run ends.  The image loop does not call   *)
(* read without a byte to read, and sleeps on.                             *)
ReadFails ==
  /\ connection = "reset" /\ wire = <<>>
  /\ at = "flag" \/ (at = "header" /\ Len(header) < HEADER_SIZE)
  /\ at' = "closed"
  /\ UNCHANGED <<serverVars, wire, connection, startFlagIndex, header, image, motion, historyVars>>

-----------------------------------------------------------------------------
Reader == ReadStartFlag \/ ReadHeader \/ ParseHeader \/ ReadImage \/ ReadFails

Next == CaptureAndOutput \/ Write \/ ServerCloses \/ Reader

Spec == Init /\ [][Next]_vars

(* The reader reads what there is, and the server writes what it began     *)
(* while it is there.                                                      *)
FairSpec == Spec /\ WF_vars(Reader) /\ WF_vars(Write)

-----------------------------------------------------------------------------
TypeOK ==
  /\ \A i \in DOMAIN sent : sent[i] \in [timestamp : 1 .. MaxFrames, mode : 0 .. 3, image : Images]
  /\ output \in Seq(Byte) /\ wire \in Seq(Byte)
  /\ connection \in {"open", "closed", "reset"}
  /\ at \in {"flag", "header", "image", "closed", "died"}
  /\ startFlagIndex \in 0 .. Len(START_FLAG) - 1
  /\ header \in Seq(Byte) /\ image \in Seq(Byte) /\ motion \in BOOLEAN
  /\ modes \in Seq(Byte) /\ reported \subseteq DOMAIN modes

(* What is added to the frame buffer is what the server sent: every frame  *)
(* whole, once, and in order, whatever bytes the images hold and wherever  *)
(* the connection ends.                                                    *)
DeliversWhatWasSent == IsPrefix(delivered, sent)

(* A mode byte that is acted on was sent with a frame, but for the last    *)
(* one, when the connection ended inside its header.                       *)
HeadersWereSent ==
  \A i \in DOMAIN modes :
    \/ i \in DOMAIN sent /\ modes[i] = sent[i].mode
    \/ i = Len(modes) /\ connection = "closed" /\ modes[i] = EndOfFile

(* Motion is reported, and once: between two reports a header has said     *)
(* Idle, and at a header with motion in Movie there has been a report      *)
(* since the last that did.  One that mixes Idle with motion may go        *)
(* without.                                                                *)
MotionReportedOnce ==
  /\ \A i, j \in reported : i < j => \E k \in i + 1 .. j - 1 : ~InMovie(modes[k])
  /\ \A j \in DOMAIN modes :
       InMotion(modes[j]) /\ InMovie(modes[j]) =>
         \E i \in reported : i <= j /\ \A k \in i + 1 .. j : InMovie(modes[k])

(* The mode bytes not yet acted on, unless the last was made up.           *)
HeaderOf(mode) == [movie |-> InMovie(mode), motionBit |-> InMotion(mode)]
AllSent == \A i \in DOMAIN modes : modes[i] # EndOfFile
Ahead ==
  IF AllSent
  THEN [i \in 1 .. Len(sent) - Len(modes) |-> HeaderOf(sent[Len(modes) + i].mode)]
  ELSE <<>>

Abstract == INSTANCE MotionReader WITH headers <- Ahead, open <- AllSent

(* Whatever bytes the images hold and wherever the connection ends, the    *)
(* reader remembers motion as if the mode bytes alone were sent to it.     *)
ImplementsMotionReader == Abstract!Spec

(* A frame the server has written is added, unless the connection is reset.*)
FramesArrive ==
  \A n \in 1 .. MaxFrames :
    (Len(sent) = n /\ output = <<>>) ~> (Len(delivered) >= n \/ connection = "reset")
=============================================================================
