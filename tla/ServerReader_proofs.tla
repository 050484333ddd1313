------------------------- MODULE ServerReader_proofs -------------------------
(***************************************************************************)
(* Proofs about ServerReader, for any start flag without a byte above 127, *)
(* any images and any bounds.                                              *)
(***************************************************************************)
EXTENDS ServerReader, SequenceTheorems, TLAPS

SentFrame == [timestamp : 1 .. MaxFrames, mode : 0 .. 3, image : Images]

(* What three sequences in one hold.                                       *)
Joins(s, a, b, c) ==
  /\ s \in Seq(Byte)
  /\ Len(s) = Len(a) + Len(b) + Len(c)
  /\ \A i \in 1 .. Len(a) : s[i] = a[i]
  /\ \A i \in 1 .. Len(b) : s[Len(a) + i] = b[i]
  /\ \A i \in 1 .. Len(c) : s[Len(a) + Len(b) + i] = c[i]

LEMMA Joined ==
  ASSUME NEW a \in Seq(Byte), NEW b \in Seq(Byte), NEW c \in Seq(Byte)
  PROVE  Joins(a \o b \o c, a, b, c)
<1> DEFINE s == a \o b \o c
<1>1. s \in Seq(Byte) /\ Len(s) = Len(a) + Len(b) + Len(c)
  OBVIOUS
<1>2. ASSUME NEW i \in 1 .. Len(a)
      PROVE  s[i] = a[i]
  OBVIOUS
<1>3. ASSUME NEW i \in 1 .. Len(b)
      PROVE  s[Len(a) + i] = b[i]
  OBVIOUS
<1>4. ASSUME NEW i \in 1 .. Len(c)
      PROVE  s[Len(a) + Len(b) + i] = c[i]
  OBVIOUS
<1> QED BY <1>1, <1>2, <1>3, <1>4 DEF Joins

LEMMA SentFields ==
  ASSUME NEW f \in SentFrame
  PROVE  /\ f.timestamp \in Nat \ {0} /\ f.timestamp < 32768
         /\ f.mode \in 0 .. 3
         /\ f.image \in Seq(Byte)
         /\ Size(f) \in 1 .. MaxImageSize
         /\ Size(f) \in Nat \ {0} /\ Size(f) < 32768
<1>1. f.timestamp \in 1 .. MaxFrames /\ f.mode \in 0 .. 3 /\ f.image \in Images
  BY DEF SentFrame
<1>2. /\ MaxFrames \in Nat \ {0} /\ MaxFrames < 32768
      /\ MaxImageSize \in Nat \ {0} /\ MaxImageSize < 32768
  BY BytesAssumption DEF BytesAssumption
<1>3. f.image \in Seq(Byte) /\ Size(f) \in 1 .. MaxImageSize
  BY <1>1, BytesAssumption DEF BytesAssumption, Size
<1> QED BY <1>1, <1>2, <1>3

LEMMA FlagBytes ==
  /\ START_FLAG \in Seq(Byte)
  /\ Len(START_FLAG) \in Nat \ {0}
  /\ \A i \in 1 .. Len(START_FLAG) : START_FLAG[i] # EndOfFile
<1>1. START_FLAG \in Seq(Byte) /\ START_FLAG # <<>>
  BY BytesAssumption DEF BytesAssumption
<1>2. ASSUME NEW i \in 1 .. Len(START_FLAG)
      PROVE  START_FLAG[i] # EndOfFile
  <2>1. i \in DOMAIN START_FLAG
    BY <1>1
  <2>2. START_FLAG[i] < 128
    BY <2>1, BytesAssumption DEF BytesAssumption
  <2> QED BY <2>2 DEF EndOfFile
<1> QED BY <1>1, <1>2

(* The bytes of a number, of a header and of a frame, one by one.          *)
LEMMA NumberBytes ==
  ASSUME NEW n \in Nat, n < 32768
  PROVE  /\ Bytes(n) \in Seq(Byte)
         /\ Len(Bytes(n)) = 2
         /\ Bytes(n)[1] = High(n)
         /\ Bytes(n)[2] = Low(n)
<1>1. High(n) \in Byte /\ Low(n) \in Byte
  BY DEF Byte, High, Low
<1> QED BY <1>1 DEF Bytes

LEMMA HeaderBytes ==
  ASSUME NEW f \in SentFrame
  PROVE  /\ Header(f) \in Seq(Byte)
         /\ Len(Header(f)) = 5
         /\ Header(f)[1] = High(f.timestamp)
         /\ Header(f)[2] = Low(f.timestamp)
         /\ Header(f)[3] = High(Size(f))
         /\ Header(f)[4] = Low(Size(f))
         /\ Header(f)[5] = f.mode
<1>1. /\ f.timestamp \in Nat /\ f.timestamp < 32768
      /\ Size(f) \in Nat /\ Size(f) < 32768
  BY SentFields
<1>2. /\ Bytes(f.timestamp) \in Seq(Byte) /\ Len(Bytes(f.timestamp)) = 2
      /\ Bytes(f.timestamp)[1] = High(f.timestamp)
      /\ Bytes(f.timestamp)[2] = Low(f.timestamp)
  BY <1>1, NumberBytes
<1>3. /\ Bytes(Size(f)) \in Seq(Byte) /\ Len(Bytes(Size(f))) = 2
      /\ Bytes(Size(f))[1] = High(Size(f))
      /\ Bytes(Size(f))[2] = Low(Size(f))
  BY <1>1, NumberBytes
<1>4. <<f.mode>> \in Seq(Byte) /\ Len(<<f.mode>>) = 1 /\ <<f.mode>>[1] = f.mode
  BY SentFields DEF Byte
<1>5. Joins(Header(f), Bytes(f.timestamp), Bytes(Size(f)), <<f.mode>>)
  BY <1>2, <1>3, <1>4, Joined DEF Header
<1>6. /\ Header(f) \in Seq(Byte)
      /\ Len(Header(f)) = 2 + 2 + 1
      /\ \A i \in 1 .. 2 : Header(f)[i] = Bytes(f.timestamp)[i]
      /\ \A i \in 1 .. 2 : Header(f)[2 + i] = Bytes(Size(f))[i]
      /\ \A i \in 1 .. 1 : Header(f)[2 + 2 + i] = <<f.mode>>[i]
  BY <1>2, <1>3, <1>4, <1>5 DEF Joins
<1>7. /\ Header(f)[1] = Bytes(f.timestamp)[1] /\ Header(f)[2] = Bytes(f.timestamp)[2]
      /\ Header(f)[3] = Bytes(Size(f))[1] /\ Header(f)[4] = Bytes(Size(f))[2]
      /\ Header(f)[5] = <<f.mode>>[1]
  BY <1>6
<1> QED BY <1>2, <1>3, <1>4, <1>6, <1>7

LEMMA EncodedBytes ==
  ASSUME NEW f \in SentFrame
  PROVE  /\ Encoded(f) \in Seq(Byte)
         /\ Len(Encoded(f)) = Len(START_FLAG) + 5 + Size(f)
         /\ \A j \in 1 .. Len(START_FLAG) : Encoded(f)[j] = START_FLAG[j]
         /\ \A j \in 1 .. 5 : Encoded(f)[Len(START_FLAG) + j] = Header(f)[j]
         /\ \A j \in 1 .. Size(f) : Encoded(f)[Len(START_FLAG) + 5 + j] = f.image[j]
<1>1. Encoded(f) = START_FLAG \o Header(f) \o f.image
  BY DEF Encoded
<1>2. START_FLAG \in Seq(Byte) /\ Header(f) \in Seq(Byte) /\ f.image \in Seq(Byte)
  BY FlagBytes, HeaderBytes, SentFields
<1>3. Len(Header(f)) = 5
  BY HeaderBytes
<1>4. Joins(Encoded(f), START_FLAG, Header(f), f.image)
  BY <1>1, <1>2, Joined
<1> QED BY <1>3, <1>4 DEF Joins, Size

LEMMA EncodedLength ==
  ASSUME NEW f \in SentFrame
  PROVE  /\ Len(Encoded(f)) = Len(START_FLAG) + 5 + Size(f)
         /\ Size(f) \in Nat \ {0}
         /\ Len(START_FLAG) \in Nat \ {0}
<1>1. Len(Encoded(f)) = Len(START_FLAG) + 5 + Size(f)
  BY EncodedBytes
<1>2. Size(f) \in Nat \ {0}
  BY SentFields
<1> QED BY <1>1, <1>2, FlagBytes

(* A header read whole is that of the frame.                               *)
LEMMA HeaderRead ==
  ASSUME NEW f \in SentFrame, header \in Seq(Byte), Len(header) = 5,
         \A i \in 1 .. 5 : header[i] = Header(f)[i]
  PROVE  Timestamp = f.timestamp /\ ImageSize = Size(f) /\ Mode = f.mode /\ ~Thrown
<1>1. /\ f.timestamp \in Nat /\ f.timestamp < 32768
      /\ Size(f) \in Nat /\ Size(f) < 32768
      /\ Size(f) <= MaxImageSize /\ MaxImageSize \in Nat
  BY SentFields, BytesAssumption DEF BytesAssumption
<1>2. \A n \in Nat : n < 32768 => Word(High(n), Low(n)) = n
  BY DEF Word, High, Low
<1>3. 1 \in 1 .. 5 /\ 2 \in 1 .. 5 /\ 3 \in 1 .. 5 /\ 4 \in 1 .. 5 /\ 5 \in 1 .. 5
  OBVIOUS
<1>4. /\ header[1] = High(f.timestamp) /\ header[2] = Low(f.timestamp)
      /\ header[3] = High(Size(f)) /\ header[4] = Low(Size(f))
      /\ header[5] = f.mode
  BY <1>3, HeaderBytes
<1>5. Timestamp = f.timestamp
  BY <1>1, <1>2, <1>4 DEF Timestamp
<1>6. ImageSize = Size(f)
  BY <1>1, <1>2, <1>4 DEF ImageSize
<1> QED BY <1>1, <1>4, <1>5, <1>6 DEF Mode, Thrown

-----------------------------------------------------------------------------
(* The bytes the server writes in a session, one frame after the other, are *)
(* numbered from 1.  The k-th frame begins after starts[k] of them.        *)
Layout(starts, frames) ==
  /\ \A k \in 1 .. Len(frames) : starts[k + 1] = starts[k] + Len(Encoded(frames[k]))
  /\ \A k \in 1 .. Len(frames) + 1 : starts[k] <= starts[Len(frames) + 1]

(* These bytes are the ones that follow the first "before".                *)
Follow(bytes, before, starts, frames) ==
  \A m \in 1 .. Len(bytes), k \in 1 .. Len(frames) :
    \A j \in 1 .. Len(Encoded(frames[k])) :
      starts[k] + j = before + m => bytes[m] = Encoded(frames[k])[j]

(* With the first "read" bytes read, the wire has the next, and the server *)
(* the rest of what it has to write, as long as there is a connection.     *)
UnderWay(starts, read) ==
  /\ read + Len(wire) <= starts[Len(sent) + 1]
  /\ Follow(wire, read, starts, sent)
  /\ connection = "open" =>
       /\ read + Len(wire) + Len(output) = starts[Len(sent) + 1]
       /\ Follow(output, read + Len(wire), starts, sent)

Current == Len(delivered) + 1

(* How much the reader has read of the current frame.                      *)
Offset ==
  IF at = "flag" THEN startFlagIndex
  ELSE IF at = "header" THEN Len(START_FLAG) + Len(header)
  ELSE Len(START_FLAG) + 5 + Len(image)

(* What it keeps of it.                                                    *)
Parsed ==
  /\ at \in {"flag", "header", "image"}
  /\ at # "flag" => startFlagIndex = 0
  /\ at = "flag" => header = <<>>
  /\ at # "image" => image = <<>>
  /\ at # "flag" =>
       /\ Current <= Len(sent)
       /\ Len(header) <= 5
       /\ \A i \in 1 .. Len(header) : header[i] = Header(sent[Current])[i]
  /\ at = "image" =>
       /\ Len(header) = 5
       /\ Len(image) < Size(sent[Current])
       /\ \A i \in 1 .. Len(image) : image[i] = sent[Current].image[i]

AllModesSent == \A i \in 1 .. Len(modes) : i <= Len(sent) /\ modes[i] = sent[i].mode

(* The reader is where the server's bytes say it is.                       *)
InStep ==
  /\ Parsed
  /\ AllModesSent
  /\ Len(modes) = IF at = "image" THEN Current ELSE Len(delivered)
  /\ \E starts \in [1 .. Len(sent) + 1 -> Nat] :
       Layout(starts, sent) /\ UnderWay(starts, starts[Current] + Offset)

(* It has read bytes that nobody sent: there will be no others, and at     *)
(* most one header more, whose mode byte is one of them.                   *)
OffStep ==
  /\ connection = "closed" /\ wire = <<>>
  /\ \/ at \in {"flag", "image", "died"}
     \/ at = "header" /\ AllModesSent /\ (Len(header) = 5 => header[5] = EndOfFile)

Ended == at = "closed" /\ connection = "reset"

SentOK == sent \in Seq(SentFrame) /\ Len(sent) <= MaxFrames

DeliveredOK ==
  /\ delivered \in Seq(SentFrame)
  /\ Len(delivered) <= Len(sent)
  /\ \A i \in 1 .. Len(delivered) : delivered[i] = sent[i]

(* While motion is remembered, some report was followed by Movie only;     *)
(* otherwise every report was followed by Idle.                            *)
MotionMemory ==
  /\ motion => \E i \in reported : \A k \in i + 1 .. Len(modes) : InMovie(modes[k])
  /\ ~motion => \A i \in reported : \E k \in i + 1 .. Len(modes) : ~InMovie(modes[k])

Inv ==
  /\ TypeOK /\ SentOK /\ DeliveredOK
  /\ InStep \/ OffStep \/ Ended
  /\ HeadersWereSent
  /\ MotionReportedOnce /\ MotionMemory

-----------------------------------------------------------------------------
LEMMA InvInit == Init => Inv
<1> SUFFICES ASSUME Init
             PROVE  Inv
  OBVIOUS
<1> USE DEF Init
<1>1. TypeOK
  <2>1. <<>> \in Seq(Byte) /\ 0 \in 0 .. Len(START_FLAG) - 1 /\ {} \subseteq DOMAIN modes
    BY FlagBytes
  <2>2. \A i \in DOMAIN sent : sent[i] \in [timestamp : 1 .. MaxFrames, mode : 0 .. 3, image : Images]
    OBVIOUS
  <2> QED BY <2>1, <2>2 DEF TypeOK
<1>2. SentOK /\ DeliveredOK /\ HeadersWereSent /\ MotionReportedOnce /\ MotionMemory
  BY BytesAssumption DEF BytesAssumption, SentOK, DeliveredOK, HeadersWereSent,
     MotionReportedOnce, MotionMemory
<1>3. InStep
  <2>1. Parsed /\ AllModesSent /\ Len(modes) = Len(delivered)
    BY DEF Parsed, AllModesSent
  <2>2. Len(sent) = 0 /\ Len(wire) = 0 /\ Len(output) = 0 /\ Current = 1 /\ Offset = 0
    BY DEF Current, Offset
  <2> DEFINE starts == [k \in 1 .. Len(sent) + 1 |-> 0]
  <2>3. starts \in [1 .. Len(sent) + 1 -> Nat] /\ starts[1] = 0
    BY <2>2
  <2>4. Layout(starts, sent) /\ UnderWay(starts, starts[Current] + Offset)
    <3> HIDE DEF starts
    <3> QED BY <2>2, <2>3 DEF Layout, UnderWay, Follow
  <2> QED BY <2>1, <2>3, <2>4 DEF InStep
<1> QED BY <1>1, <1>2, <1>3 DEF Inv

(* The next byte on the wire is the next of the current frame.             *)
LEMMA NextByte ==
  ASSUME TypeOK, SentOK, DeliveredOK, Parsed,
         NEW starts \in [1 .. Len(sent) + 1 -> Nat], Layout(starts, sent),
         UnderWay(starts, starts[Current] + Offset), wire # <<>>
  PROVE  /\ Current \in 1 .. Len(sent)
         /\ sent[Current] \in SentFrame
         /\ Offset + 1 \in 1 .. Len(Encoded(sent[Current]))
         /\ Head(wire) = Encoded(sent[Current])[Offset + 1]
<1>1. Len(sent) \in Nat /\ Current \in 1 .. Len(sent) + 1 /\ starts[Current] \in Nat
  BY DEF SentOK, DeliveredOK, Current
<1>10. wire \in Seq(Byte) /\ Len(wire) \in Nat \ {0} /\ Head(wire) = wire[1]
  BY DEF TypeOK
<1>2. Offset \in Nat /\ (at = "flag" => Offset < Len(START_FLAG))
  BY FlagBytes DEF TypeOK, Offset
<1>3. starts[Current] + Offset + Len(wire) <= starts[Len(sent) + 1]
  BY DEF UnderWay
<1>4. Current \in 1 .. Len(sent)
  BY <1>1, <1>10, <1>2, <1>3
<1>5. PICK f \in SentFrame : f = sent[Current]
  BY <1>4 DEF SentOK
<1>6. /\ Len(Encoded(f)) = Len(START_FLAG) + 5 + Size(f)
      /\ Size(f) \in Nat \ {0}
      /\ Len(START_FLAG) \in Nat \ {0}
  BY EncodedLength
<1>7. Offset + 1 \in 1 .. Len(Encoded(f))
  <2>1. Len(header) \in Nat /\ Len(image) \in Nat
    BY DEF TypeOK
  <2>2. at \in {"flag", "header", "image"} /\ Len(header) <= 5 /\ (at = "image" => Len(image) < Size(f))
    BY <1>5 DEF Parsed
  <2>3. Offset <= Len(START_FLAG) + 5 + Size(f) - 1
    <3>1. CASE at = "flag"
      BY <1>2, <1>6, <3>1
    <3>2. CASE at = "header"
      <4>1. Offset = Len(START_FLAG) + Len(header)
        BY <3>2 DEF Offset
      <4> QED BY <1>6, <2>1, <2>2, <4>1
    <3>3. CASE at = "image"
      <4>1. Offset = Len(START_FLAG) + 5 + Len(image)
        BY <3>3 DEF Offset
      <4> QED BY <1>6, <2>1, <2>2, <3>3, <4>1
    <3> QED BY <2>2, <3>1, <3>2, <3>3
  <2> QED BY <1>2, <1>6, <2>3
<1>8. wire[1] = Encoded(f)[Offset + 1]
  <2>1. Follow(wire, starts[Current] + Offset, starts, sent)
    BY DEF UnderWay
  <2>2. starts[Current] + (Offset + 1) = starts[Current] + Offset + 1 /\ 1 \in 1 .. Len(wire)
    BY <1>1, <1>10, <1>2
  <2> QED BY <1>4, <1>5, <1>7, <2>1, <2>2 DEF Follow
<1> QED BY <1>10, <1>4, <1>5, <1>7, <1>8

(* To take it from the wire moves everything on by one.                    *)
LEMMA ByteTaken ==
  ASSUME TypeOK, SentOK, NEW starts \in [1 .. Len(sent) + 1 -> Nat], NEW read \in Nat,
         Layout(starts, sent), UnderWay(starts, read), wire # <<>>,
         wire' = Tail(wire), UNCHANGED <<sent, output, connection>>
  PROVE  Layout(starts, sent)' /\ UnderWay(starts, read + 1)'
<1>1. /\ Len(wire) \in Nat \ {0}
      /\ Len(wire') = Len(wire) - 1
      /\ \A m \in 1 .. Len(wire') : wire'[m] = wire[m + 1]
  BY DEF TypeOK
<1>2. Layout(starts, sent)'
  BY DEF Layout
<1>3. read + 1 + Len(wire') = read + Len(wire)
  BY <1>1
<1>4. Follow(wire', read + 1, starts, sent)
  <2> SUFFICES ASSUME NEW m \in 1 .. Len(wire'), NEW k \in 1 .. Len(sent),
                      NEW j \in 1 .. Len(Encoded(sent[k])), starts[k] + j = read + 1 + m
               PROVE  wire'[m] = Encoded(sent[k])[j]
    BY DEF Follow
  <2>1. m + 1 \in 1 .. Len(wire) /\ starts[k] + j = read + (m + 1)
    BY <1>1
  <2>2. wire[m + 1] = Encoded(sent[k])[j]
    BY <2>1 DEF UnderWay, Follow
  <2> QED BY <1>1, <2>2
<1>5. connection = "open" => /\ read + 1 + Len(wire') + Len(output) = starts[Len(sent) + 1]
                             /\ Follow(output, read + 1 + Len(wire'), starts, sent)
  BY <1>3 DEF UnderWay
<1>6. read + 1 + Len(wire') <= starts[Len(sent) + 1]
  BY <1>3 DEF UnderWay
<1> QED BY <1>2, <1>4, <1>5, <1>6 DEF UnderWay

-----------------------------------------------------------------------------
(* The server's steps.                                                     *)

(* A frame more begins where the bytes so far end, and leaves the others   *)
(* where they are.                                                         *)
OneMore(more, frames, n) ==
  /\ n \in Nat /\ Len(frames) = n /\ Len(more) = n + 1
  /\ \A k \in 1 .. n : more[k] = frames[k]
  /\ \A k \in 1 .. n + 1 : Len(Encoded(more[k])) \in Nat

Longer(new, starts, more, n) ==
  /\ new \in [1 .. n + 2 -> Nat]
  /\ \A k \in 1 .. n + 1 : new[k] = starts[k]
  /\ new[n + 2] = starts[n + 1] + Len(Encoded(more[n + 1]))

LEMMA LayoutExtended ==
  ASSUME NEW n, NEW frames, NEW more, OneMore(more, frames, n),
         NEW starts \in [1 .. n + 1 -> Nat], Layout(starts, frames)
  PROVE  \E new : Longer(new, starts, more, n) /\ Layout(new, more)
<1>1. PICK size \in Nat : size = Len(Encoded(more[n + 1]))
  BY DEF OneMore
<1>2. n \in Nat
  BY DEF OneMore
<1> DEFINE new == [k \in 1 .. n + 2 |-> IF k <= n + 1 THEN starts[k] ELSE starts[n + 1] + size]
<1>3. /\ new \in [1 .. n + 2 -> Nat]
      /\ \A k \in 1 .. n + 1 : new[k] = starts[k]
      /\ new[n + 2] = starts[n + 1] + size
  BY <1>2
<1> HIDE DEF new
<1>4. \A k \in 1 .. n + 1 : starts[k] <= starts[n + 1] /\ starts[k] \in Nat
  BY <1>2 DEF OneMore, Layout
<1>5. ASSUME NEW k \in 1 .. n + 1
      PROVE  new[k + 1] = new[k] + Len(Encoded(more[k]))
  <2>1. CASE k \in 1 .. n
    <3>1. starts[k + 1] = starts[k] + Len(Encoded(more[k]))
      BY <2>1 DEF OneMore, Layout
    <3>2. k + 1 \in 1 .. n + 1
      BY <1>2, <2>1
    <3> QED BY <1>3, <3>1, <3>2
  <2>2. CASE k = n + 1
    <3>1. k + 1 = n + 2
      BY <1>2, <2>2
    <3> QED BY <1>1, <1>3, <2>2, <3>1
  <2> QED BY <1>2, <2>1, <2>2
<1>6. ASSUME NEW k \in 1 .. n + 2
      PROVE  new[k] <= new[n + 2]
  <2>1. CASE k \in 1 .. n + 1
    BY <1>1, <1>2, <1>3, <1>4, <2>1
  <2>2. CASE k = n + 2
    BY <1>3, <2>2
  <2> QED BY <1>2, <2>1, <2>2
<1>7. Len(more) = n + 1 /\ (n + 1) + 1 = n + 2
  BY <1>2 DEF OneMore
<1>8. Layout(new, more)
  BY <1>5, <1>6, <1>7 DEF Layout
<1> QED BY <1>1, <1>3, <1>8 DEF Longer

LEMMA FollowExtended ==
  ASSUME NEW n, NEW frames, NEW more, OneMore(more, frames, n),
         NEW starts \in [1 .. n + 1 -> Nat], Layout(starts, frames),
         NEW new, Longer(new, starts, more, n),
         NEW bytes, Len(bytes) \in Nat, NEW before \in Nat,
         before + Len(bytes) <= starts[n + 1], Follow(bytes, before, starts, frames)
  PROVE  Follow(bytes, before, new, more)
<1> SUFFICES ASSUME NEW m \in 1 .. Len(bytes), NEW k \in 1 .. n + 1,
                    NEW j \in 1 .. Len(Encoded(more[k])), new[k] + j = before + m
             PROVE  bytes[m] = Encoded(more[k])[j]
  BY DEF Follow, OneMore
<1>1. n \in Nat /\ Len(Encoded(more[k])) \in Nat /\ starts[k] \in Nat /\ new[k] = starts[k]
  BY DEF OneMore, Longer
<1>2. k # n + 1
  BY <1>1
<1>3. k \in 1 .. n
  BY <1>1, <1>2
<1>4. more[k] = frames[k] /\ Len(frames) = n
  BY <1>3 DEF OneMore
<1> QED BY <1>1, <1>3, <1>4 DEF Follow

LEMMA FollowNew ==
  ASSUME NEW n, NEW frames, NEW more, OneMore(more, frames, n),
         NEW starts \in [1 .. n + 1 -> Nat], Layout(starts, frames),
         NEW new, Longer(new, starts, more, n),
         NEW bytes, Len(bytes) = Len(Encoded(more[n + 1])),
         \A m \in 1 .. Len(bytes) : bytes[m] = Encoded(more[n + 1])[m]
  PROVE  Follow(bytes, starts[n + 1], new, more)
<1>0. Len(more) = n + 1
  BY DEF OneMore
<1> SUFFICES ASSUME NEW m \in 1 .. Len(bytes), NEW k \in 1 .. Len(more),
                    NEW j \in 1 .. Len(Encoded(more[k])), new[k] + j = starts[n + 1] + m
             PROVE  bytes[m] = Encoded(more[k])[j]
  BY DEF Follow
<1>1. /\ n \in Nat /\ k \in 1 .. n + 1
      /\ Len(Encoded(more[k])) \in Nat /\ Len(bytes) \in Nat
      /\ starts[k] \in Nat /\ starts[n + 1] \in Nat /\ new[k] = starts[k]
  BY <1>0 DEF OneMore, Longer
<1>2. CASE k \in 1 .. n
  <2>1. k + 1 \in 1 .. n + 1 /\ Len(frames) = n /\ more[k] = frames[k]
    BY <1>1, <1>2 DEF OneMore
  <2>2. starts[k + 1] = starts[k] + Len(Encoded(more[k])) /\ starts[k + 1] <= starts[n + 1]
    BY <1>2, <2>1 DEF Layout
  <2> QED BY <1>1, <2>2
<1>3. CASE k = n + 1
  BY <1>1, <1>3
<1> QED BY <1>1, <1>2, <1>3

(* A byte written goes from the one end to the other.                      *)
LEMMA ByteWritten ==
  ASSUME TypeOK, NEW starts \in [1 .. Len(sent) + 1 -> Nat], NEW read \in Nat,
         Layout(starts, sent), UnderWay(starts, read), connection = "open", output # <<>>,
         wire' = Append(wire, Head(output)), output' = Tail(output), UNCHANGED <<sent, connection>>
  PROVE  UnderWay(starts, read)'
<1>1. /\ Len(output) \in Nat \ {0} /\ Len(wire) \in Nat
      /\ Len(output') = Len(output) - 1
      /\ \A m \in 1 .. Len(output') : output'[m] = output[m + 1]
      /\ Len(wire') = Len(wire) + 1
      /\ \A m \in 1 .. Len(wire) : wire'[m] = wire[m]
      /\ wire'[Len(wire) + 1] = output[1]
  BY DEF TypeOK
<1>2. /\ read + Len(wire) + Len(output) = starts[Len(sent) + 1]
      /\ Follow(output, read + Len(wire), starts, sent)
      /\ Follow(wire, read, starts, sent)
  BY DEF UnderWay
<1>3. /\ read + Len(wire') <= starts[Len(sent) + 1]
      /\ read + Len(wire') + Len(output') = starts[Len(sent) + 1]
  BY <1>1, <1>2
<1>4. Follow(wire', read, starts, sent)
  <2> SUFFICES ASSUME NEW m \in 1 .. Len(wire'), NEW k \in 1 .. Len(sent),
                      NEW j \in 1 .. Len(Encoded(sent[k])), starts[k] + j = read + m
               PROVE  wire'[m] = Encoded(sent[k])[j]
    BY DEF Follow
  <2>1. CASE m \in 1 .. Len(wire)
    BY <1>1, <1>2, <2>1 DEF Follow
  <2>2. CASE m = Len(wire) + 1
    <3>1. starts[k] + j = read + Len(wire) + 1 /\ 1 \in 1 .. Len(output)
      BY <1>1, <2>2
    <3> QED BY <1>1, <1>2, <2>2, <3>1 DEF Follow
  <2> QED BY <1>1, <2>1, <2>2
<1>5. Follow(output', read + Len(wire'), starts, sent)
  <2> SUFFICES ASSUME NEW m \in 1 .. Len(output'), NEW k \in 1 .. Len(sent),
                      NEW j \in 1 .. Len(Encoded(sent[k])), starts[k] + j = read + Len(wire') + m
               PROVE  output'[m] = Encoded(sent[k])[j]
    BY DEF Follow
  <2>1. m + 1 \in 1 .. Len(output) /\ starts[k] + j = read + Len(wire) + (m + 1)
    BY <1>1
  <2> QED BY <1>1, <1>2, <2>1 DEF Follow
<1> QED BY <1>3, <1>4, <1>5 DEF UnderWay

(* A connection that ends keeps the first of the bytes under way.          *)
LEMMA WireCut ==
  ASSUME TypeOK, NEW starts \in [1 .. Len(sent) + 1 -> Nat], NEW read \in Nat,
         UnderWay(starts, read), ServerCloses
  PROVE  wire' \in Seq(Byte) /\ UnderWay(starts, read)'
<1>1. wire \in Seq(Byte) /\ Len(wire) \in Nat
  BY DEF TypeOK
<1>2. \E n \in 0 .. Len(wire) : wire' = SubSeq(wire, 1, n)
  BY <1>1 DEF ServerCloses
<1>3. /\ wire' \in Seq(Byte) /\ Len(wire') \in Nat /\ Len(wire') <= Len(wire)
      /\ \A m \in 1 .. Len(wire') : wire'[m] = wire[m]
  BY <1>1, <1>2
<1>4. connection' # "open" /\ sent' = sent
  BY DEF ServerCloses, serverVars
<1>5. read + Len(wire) <= starts[Len(sent) + 1] /\ Follow(wire, read, starts, sent)
  BY DEF UnderWay
<1>6. read + Len(wire') <= starts[Len(sent) + 1]
  <2> DEFINE end == starts[Len(sent) + 1]
  <2>1. end \in Int
    OBVIOUS
  <2> QED BY <1>1, <1>3, <1>5
<1>7. Follow(wire', read, starts, sent)
  BY <1>1, <1>3, <1>5 DEF Follow
<1> QED BY <1>3, <1>4, <1>6, <1>7 DEF UnderWay

(* Inv is what the state of the server and the wire, the reader's and the  *)
(* history say; a step that changes none of a part leaves it.              *)
LEMMA CaptureKeepsInv ==
  ASSUME Inv, CaptureAndOutput
  PROVE  Inv'
<1>1. TypeOK /\ SentOK /\ DeliveredOK /\ connection = "open" /\ output = <<>> /\ Len(sent) < MaxFrames
  BY DEF Inv, CaptureAndOutput
<1>2. UNCHANGED <<wire, connection, readerVars, historyVars>>
  BY DEF CaptureAndOutput
<1>3. PICK f \in SentFrame : sent' = Append(sent, f) /\ output' = Encoded(f)
  <2>1. PICK mode \in 0 .. 3, picture \in Images :
          LET f == [timestamp |-> Len(sent) + 1, mode |-> mode, image |-> picture] IN
          sent' = Append(sent, f) /\ output' = Encoded(f)
    BY DEF CaptureAndOutput
  <2>2. Len(sent) + 1 \in 1 .. MaxFrames
    BY <1>1, BytesAssumption DEF BytesAssumption, SentOK
  <2> QED BY <2>1, <2>2 DEF SentFrame
<1>4. PICK n \in Nat : n = Len(sent)
  BY <1>1 DEF SentOK
<1>5. PICK more : more = sent'
  OBVIOUS
<1>6. /\ more \in Seq(SentFrame) /\ Len(more) = n + 1 /\ more[n + 1] = f
      /\ \A k \in 1 .. n : more[k] = sent[k]
  BY <1>1, <1>3, <1>4, <1>5 DEF SentOK
<1>7. OneMore(more, sent, n)
  <2>1. ASSUME NEW k \in 1 .. n + 1
        PROVE  Len(Encoded(more[k])) \in Nat
    <3>1. more[k] \in SentFrame
      BY <1>6
    <3> QED BY <3>1, EncodedBytes
  <2> QED BY <1>4, <1>6, <2>1 DEF OneMore
<1>8. output' \in Seq(Byte) /\ output' = Encoded(more[n + 1])
  BY <1>3, <1>6, EncodedBytes
<1>9. SentOK'
  BY <1>1, <1>4, <1>5, <1>6, BytesAssumption DEF BytesAssumption, SentOK
<1>10. TypeOK'
  <2>1. \A i \in DOMAIN more : more[i] \in SentFrame
    BY <1>6
  <2> QED BY <1>1, <1>2, <1>5, <1>8, <2>1 DEF TypeOK, SentFrame, readerVars, historyVars
<1>11. DeliveredOK'
  BY <1>1, <1>2, <1>4, <1>5, <1>6 DEF DeliveredOK, historyVars
<1>12. AllModesSent => AllModesSent'
  BY <1>1, <1>2, <1>4, <1>5, <1>6 DEF AllModesSent, TypeOK, historyVars
<1>13. InStep'
  <2>1. InStep
    BY <1>1 DEF Inv, OffStep, Ended
  <2>2. PICK starts \in [1 .. n + 1 -> Nat] :
          Layout(starts, sent) /\ UnderWay(starts, starts[Current] + Offset)
    BY <1>4, <2>1 DEF InStep
  <2>3. PICK new : Longer(new, starts, more, n) /\ Layout(new, more)
    BY <1>7, <2>2, LayoutExtended
  <2>4. Current \in 1 .. n + 1 /\ Current' = Current /\ Offset' = Offset /\ Offset \in Nat
    BY <1>1, <1>2, <1>4, FlagBytes DEF DeliveredOK, Current, Offset, TypeOK, readerVars, historyVars
  <2>5. PICK read \in Nat : read = starts[Current] + Offset
    BY <2>4
  <2>6. new[Current] = starts[Current]
    BY <2>3, <2>4 DEF Longer
  <2>7. /\ read + Len(wire) = starts[n + 1] /\ Follow(wire, read, starts, sent)
        /\ Len(wire) \in Nat /\ Len(output) = 0
    BY <1>1, <1>4, <2>2, <2>4, <2>5 DEF UnderWay, TypeOK
  <2>8. Follow(wire, read, new, more)
    BY <1>7, <2>2, <2>3, <2>7, FollowExtended
  <2>9. Follow(output', read + Len(wire), new, more)
    <3>1. Follow(output', starts[n + 1], new, more)
      BY <1>7, <1>8, <2>2, <2>3, FollowNew
    <3> QED BY <2>7, <3>1
  <2>10. /\ read + Len(wire) <= new[n + 2]
         /\ read + Len(wire) + Len(output') = new[n + 2]
    <3>1. Len(output') \in Nat /\ new[n + 2] = starts[n + 1] + Len(output')
      BY <1>7, <1>8, <1>4, <2>3 DEF Longer, OneMore
    <3> QED BY <2>7, <3>1, <2>2
  <2>11. UnderWay(new, read)'
    BY <1>2, <1>4, <1>5, <1>6, <2>8, <2>9, <2>10 DEF UnderWay
  <2>12. Layout(new, sent')
    BY <1>5, <2>3
  <2>13. Parsed'
    BY <2>1, <1>1, <1>2, <1>4, <1>5, <1>6, <2>4 DEF InStep, Parsed, readerVars
  <2>14. new \in [1 .. Len(sent') + 1 -> Nat]
    BY <1>4, <1>5, <1>6, <2>3 DEF Longer
  <2> QED BY <1>2, <1>12, <2>1, <2>4, <2>5, <2>6, <2>11, <2>12, <2>13, <2>14 DEF InStep, readerVars, historyVars
<1>14. HeadersWereSent'
  <2>1. modes' \in Seq(Byte) /\ sent' \in Seq(SentFrame)
    BY <1>9, <1>10 DEF TypeOK, SentOK
  <2>2. AllModesSent'
    BY <1>13 DEF InStep
  <2> QED BY <2>1, <2>2 DEF AllModesSent, HeadersWereSent
<1>15. MotionReportedOnce' /\ MotionMemory'
  BY <1>2 DEF Inv, MotionReportedOnce, MotionMemory, readerVars, historyVars
<1> QED BY <1>9, <1>10, <1>11, <1>13, <1>14, <1>15 DEF Inv

(* A step that leaves the frames sent, the reader and the history alone.   *)
LEMMA RestKept ==
  ASSUME Inv, UNCHANGED <<sent, readerVars, historyVars>>
  PROVE  SentOK' /\ DeliveredOK' /\ MotionReportedOnce' /\ MotionMemory'
<1>1. SentOK' /\ DeliveredOK'
  BY DEF Inv, SentOK, DeliveredOK, historyVars
<1>2. MotionReportedOnce' /\ MotionMemory'
  BY DEF Inv, MotionReportedOnce, MotionMemory, readerVars, historyVars
<1> QED BY <1>1, <1>2

LEMMA WriteKeepsInv ==
  ASSUME Inv, Write
  PROVE  Inv'
<1>1. /\ TypeOK /\ SentOK /\ DeliveredOK /\ connection = "open" /\ output # <<>>
      /\ wire' = Append(wire, Head(output)) /\ output' = Tail(output)
      /\ UNCHANGED <<sent, connection, readerVars, historyVars>>
  BY DEF Inv, Write
<1>2. TypeOK'
  BY <1>1 DEF TypeOK, readerVars, historyVars
<1>3. InStep'
  <2>1. InStep
    BY <1>1 DEF Inv, OffStep, Ended
  <2>2. PICK starts \in [1 .. Len(sent) + 1 -> Nat] :
          Layout(starts, sent) /\ UnderWay(starts, starts[Current] + Offset)
    BY <2>1 DEF InStep
  <2>3. Current' = Current /\ Offset' = Offset
    BY <1>1 DEF Current, Offset, readerVars, historyVars
  <2>4. Current \in 1 .. Len(sent) + 1 /\ Offset \in Nat
    BY <1>1, FlagBytes DEF SentOK, DeliveredOK, Current, Offset, TypeOK
  <2>5. PICK read \in Nat : read = starts[Current] + Offset
    BY <2>4
  <2>6. UnderWay(starts, read)'
    BY <1>1, <2>2, <2>5, ByteWritten
  <2>7. Parsed' /\ AllModesSent'
    BY <1>1, <2>1, <2>3 DEF InStep, Parsed, AllModesSent, readerVars, historyVars
  <2> QED BY <1>1, <2>1, <2>2, <2>3, <2>5, <2>6, <2>7 DEF InStep, readerVars, historyVars
<1>4. HeadersWereSent'
  BY <1>1 DEF Inv, HeadersWereSent, historyVars
<1> QED BY <1>1, <1>2, <1>3, <1>4, RestKept DEF Inv

LEMMA CloseKeepsInv ==
  ASSUME Inv, ServerCloses
  PROVE  Inv'
<1>1. /\ TypeOK /\ SentOK /\ DeliveredOK /\ connection = "open"
      /\ connection' \in {"closed", "reset"}
      /\ UNCHANGED <<sent, output, readerVars, historyVars>>
  BY DEF Inv, ServerCloses, serverVars
<1>2. InStep
  BY <1>1 DEF Inv, OffStep, Ended
<1>3. PICK starts \in [1 .. Len(sent) + 1 -> Nat] :
        Layout(starts, sent) /\ UnderWay(starts, starts[Current] + Offset)
  BY <1>2 DEF InStep
<1>4. Current' = Current /\ Offset' = Offset
  BY <1>1 DEF Current, Offset, readerVars, historyVars
<1>5. Current \in 1 .. Len(sent) + 1 /\ Offset \in Nat
  BY <1>1, FlagBytes DEF SentOK, DeliveredOK, Current, Offset, TypeOK
<1>6. PICK read \in Nat : read = starts[Current] + Offset
  BY <1>5
<1>7. wire' \in Seq(Byte) /\ UnderWay(starts, read)'
  BY <1>1, <1>3, <1>6, WireCut
<1>8. TypeOK'
  BY <1>1, <1>7 DEF TypeOK, readerVars, historyVars
<1>9. Parsed' /\ AllModesSent'
  BY <1>1, <1>2, <1>4 DEF InStep, Parsed, AllModesSent, readerVars, historyVars
<1>10. InStep'
  BY <1>1, <1>2, <1>3, <1>4, <1>6, <1>7, <1>9 DEF InStep, readerVars, historyVars
<1>11. HeadersWereSent'
  BY <1>1 DEF Inv, HeadersWereSent, historyVars
<1> QED BY <1>1, <1>8, <1>10, <1>11, RestKept DEF Inv

-----------------------------------------------------------------------------
(* The reader's steps.                                                     *)

(* A byte of the current frame read, and no more.                          *)
LEMMA InStepAfterByte ==
  ASSUME TypeOK, SentOK, NEW starts \in [1 .. Len(sent) + 1 -> Nat], NEW read \in Nat,
         Layout(starts, sent), UnderWay(starts, read), wire # <<>>,
         wire' = Tail(wire), UNCHANGED <<sent, output, connection>>,
         read + 1 = starts[Current'] + Offset', Parsed', AllModesSent',
         Len(modes') = IF at' = "image" THEN Current' ELSE Len(delivered')
  PROVE  InStep'
<1>1. Layout(starts, sent)' /\ UnderWay(starts, read + 1)'
  BY ByteTaken
<1> QED BY <1>1 DEF InStep

LEMMA FlagKeepsInv ==
  ASSUME Inv, ReadStartFlag
  PROVE  Inv'
<1>1. /\ TypeOK /\ SentOK /\ DeliveredOK /\ at = "flag" /\ Readable
      /\ wire' = Consumed
      /\ UNCHANGED <<sent, output, connection, header, image, motion, historyVars>>
  BY DEF Inv, ReadStartFlag, serverVars
<1>2. /\ startFlagIndex \in 0 .. Len(START_FLAG) - 1 /\ Len(START_FLAG) \in Nat \ {0}
      /\ wire \in Seq(Byte)
  BY <1>1, FlagBytes DEF TypeOK
<1>3. wire' \in Seq(Byte)
  BY <1>1, <1>2 DEF Consumed
<1>4. PICK index \in 0 .. Len(START_FLAG) :
        /\ index = IF Received = START_FLAG[startFlagIndex + 1] THEN startFlagIndex + 1 ELSE 0
        /\ startFlagIndex' = IF index = Len(START_FLAG) THEN 0 ELSE index
        /\ at' = IF index = Len(START_FLAG) THEN "header" ELSE "flag"
  BY <1>2 DEF ReadStartFlag
<1>5. TypeOK'
  BY <1>1, <1>2, <1>3, <1>4 DEF TypeOK, historyVars
<1>6. (InStep \/ OffStep \/ Ended)'
  <2>1. CASE wire = <<>>
    <3>1. connection = "closed" /\ wire' = <<>>
      BY <1>1, <2>1 DEF Readable, Consumed
    <3>2. index = 0
      BY <1>2, <1>4, <2>1, FlagBytes DEF Received
    <3> QED BY <1>1, <1>2, <1>4, <3>1, <3>2 DEF OffStep
  <2>2. CASE wire # <<>>
    <3>1. InStep
      BY <1>1, <2>2 DEF Inv, OffStep, Ended
    <3>2. PICK starts \in [1 .. Len(sent) + 1 -> Nat] :
            Layout(starts, sent) /\ UnderWay(starts, starts[Current] + Offset)
      BY <3>1 DEF InStep
    <3>3. /\ Current \in 1 .. Len(sent) /\ sent[Current] \in SentFrame
          /\ Head(wire) = Encoded(sent[Current])[Offset + 1]
      BY <1>1, <2>2, <3>1, <3>2, NextByte DEF InStep
    <3>4. Offset = startFlagIndex /\ startFlagIndex + 1 \in 1 .. Len(START_FLAG)
      BY <1>1, <1>2 DEF Offset
    <3>5. Head(wire) = START_FLAG[startFlagIndex + 1]
      BY <3>3, <3>4, EncodedBytes
    <3>6. index = startFlagIndex + 1
      BY <1>4, <2>2, <3>5 DEF Received
    <3>7. Current' = Current /\ header = <<>> /\ Offset' = Offset + 1
      <4>1. Current' = Current /\ header = <<>>
        BY <1>1, <3>1 DEF InStep, Parsed, Current, historyVars
      <4> QED BY <1>1, <1>2, <1>4, <3>4, <3>6, <4>1 DEF Offset
    <3>8. PICK read \in Nat : read = starts[Current] + Offset
      BY <1>2, <3>2, <3>3, <3>4
    <3>9. Parsed' /\ AllModesSent'
      BY <1>1, <1>4, <3>1, <3>3, <3>7 DEF InStep, Parsed, AllModesSent, historyVars
    <3>10. wire' = Tail(wire)
      BY <1>1, <2>2 DEF Consumed
    <3>11. Len(modes') = IF at' = "image" THEN Current' ELSE Len(delivered')
      BY <1>1, <1>4, <3>1 DEF InStep, historyVars
    <3>12. read + 1 = starts[Current'] + Offset'
      BY <1>2, <3>2, <3>3, <3>4, <3>7, <3>8
    <3>13. InStep'
      BY <1>1, <2>2, <3>2, <3>8, <3>9, <3>10, <3>11, <3>12, InStepAfterByte
    <3> QED BY <3>13
  <2> QED BY <2>1, <2>2
<1>7. SentOK' /\ DeliveredOK' /\ HeadersWereSent'
  BY <1>1 DEF Inv, SentOK, DeliveredOK, HeadersWereSent, historyVars
<1>8. MotionReportedOnce' /\ MotionMemory'
  BY <1>1 DEF Inv, MotionReportedOnce, MotionMemory, historyVars
<1> QED BY <1>5, <1>6, <1>7, <1>8 DEF Inv

LEMMA HeaderKeepsInv ==
  ASSUME Inv, ReadHeader
  PROVE  Inv'
<1>1. /\ TypeOK /\ SentOK /\ DeliveredOK /\ at = "header" /\ Len(header) < 5 /\ Readable
      /\ header' = Append(header, Received) /\ wire' = Consumed
      /\ UNCHANGED <<sent, output, connection, at, startFlagIndex, image, motion, historyVars>>
  BY DEF Inv, ReadHeader, serverVars, HEADER_SIZE
<1>2. wire \in Seq(Byte) /\ header \in Seq(Byte)
  BY <1>1 DEF TypeOK
<1>3. Received \in Byte /\ wire' \in Seq(Byte)
  <2>1. EndOfFile \in Byte
    BY DEF EndOfFile, Byte
  <2>2. wire # <<>> => Head(wire) \in Byte /\ Tail(wire) \in Seq(Byte)
    BY <1>2
  <2> QED BY <1>1, <1>2, <2>1, <2>2 DEF Received, Consumed
<1>4. /\ header' \in Seq(Byte) /\ Len(header') = Len(header) + 1
      /\ \A i \in 1 .. Len(header) : header'[i] = header[i]
      /\ header'[Len(header) + 1] = Received
  BY <1>1, <1>2, <1>3
<1>5. TypeOK'
  BY <1>1, <1>3, <1>4 DEF TypeOK, historyVars
<1>6. (InStep \/ OffStep \/ Ended)'
  <2>1. AllModesSent
    BY <1>1 DEF Inv, InStep, OffStep, Ended
  <2>2. AllModesSent'
    BY <1>1, <2>1 DEF AllModesSent, historyVars
  <2>3. CASE wire = <<>>
    <3>1. connection = "closed" /\ wire' = <<>>
      BY <1>1, <2>3 DEF Readable, Consumed
    <3>2. Len(header') = 5 => header'[5] = EndOfFile
      <4>1. Received = EndOfFile
        BY <2>3 DEF Received
      <4>2. PICK n \in Nat : n = Len(header)
        BY <1>2
      <4>3. Len(header') = n + 1 /\ header'[n + 1] = EndOfFile
        BY <1>4, <4>1, <4>2
      <4> QED BY <4>3
    <3> QED BY <1>1, <2>2, <3>1, <3>2 DEF OffStep
  <2>4. CASE wire # <<>>
    <3>1. InStep
      BY <1>1, <2>4 DEF Inv, OffStep, Ended
    <3>2. PICK starts \in [1 .. Len(sent) + 1 -> Nat] :
            Layout(starts, sent) /\ UnderWay(starts, starts[Current] + Offset)
      BY <3>1 DEF InStep
    <3>3. /\ Current \in 1 .. Len(sent) /\ sent[Current] \in SentFrame
          /\ Head(wire) = Encoded(sent[Current])[Offset + 1]
      BY <1>1, <2>4, <3>1, <3>2, NextByte DEF InStep
    <3>4. PICK f \in SentFrame : f = sent[Current]
      BY <3>3
    <3>5. PICK L \in Nat : L = Len(START_FLAG)
      BY FlagBytes
    <3>6. PICK n \in Nat : n = Len(header) /\ n < 5
      BY <1>1, <1>2
    <3>7. Offset = L + n
      BY <1>1, <3>5, <3>6 DEF Offset
    <3>8. Received = Header(f)[n + 1]
      <4>1. \A j \in 1 .. 5 : Encoded(f)[L + j] = Header(f)[j]
        BY <3>5, EncodedBytes
      <4>2. n + 1 \in 1 .. 5 /\ L + n + 1 = L + (n + 1)
        BY <3>5, <3>6
      <4>3. Received = Encoded(f)[L + n + 1]
        BY <2>4, <3>3, <3>4, <3>7 DEF Received
      <4>4. Encoded(f)[L + (n + 1)] = Header(f)[n + 1]
        BY <4>1, <4>2
      <4> QED BY <4>2, <4>3, <4>4
    <3>9. Current' = Current /\ Offset' = Offset + 1
      <4>1. Current' = Current
        BY <1>1 DEF Current, historyVars
      <4>2. Offset' = L + (n + 1)
        BY <1>1, <1>4, <3>5, <3>6 DEF Offset
      <4> QED BY <3>5, <3>6, <3>7, <4>1, <4>2
    <3>10. PICK read \in Nat : read = starts[Current] + Offset
      BY <3>2, <3>3, <3>5, <3>6, <3>7
    <3>11. Parsed'
      <4>1. /\ startFlagIndex = 0 /\ image = <<>>
            /\ \A i \in 1 .. n : header[i] = Header(f)[i]
        BY <1>1, <3>1, <3>4, <3>6 DEF InStep, Parsed
      <4>2. \A i \in 1 .. n + 1 : header'[i] = Header(f)[i]
        BY <1>4, <3>6, <3>8, <4>1
      <4>3. f = sent'[Current'] /\ Current' <= Len(sent') /\ Len(header') = n + 1 /\ n + 1 <= 5
        BY <1>1, <1>4, <3>3, <3>4, <3>6, <3>9
      <4> QED BY <1>1, <4>1, <4>2, <4>3 DEF Parsed
    <3>12. wire' = Tail(wire)
      BY <1>1, <2>4 DEF Consumed
    <3>13. Len(modes') = IF at' = "image" THEN Current' ELSE Len(delivered')
      BY <1>1, <3>1 DEF InStep, historyVars
    <3>14. read + 1 = starts[Current'] + Offset'
      BY <3>2, <3>3, <3>5, <3>6, <3>7, <3>9, <3>10
    <3>15. InStep'
      BY <1>1, <2>2, <2>4, <3>2, <3>10, <3>11, <3>12, <3>13, <3>14, InStepAfterByte
    <3> QED BY <3>15
  <2> QED BY <2>3, <2>4
<1>7. SentOK' /\ DeliveredOK' /\ HeadersWereSent'
  BY <1>1 DEF Inv, SentOK, DeliveredOK, HeadersWereSent, historyVars
<1>8. MotionReportedOnce' /\ MotionMemory'
  BY <1>1 DEF Inv, MotionReportedOnce, MotionMemory, historyVars
<1> QED BY <1>5, <1>6, <1>7, <1>8 DEF Inv

(* A report comes only when the motion reported before has ended.          *)
LEMMA MotionAfterHeader ==
  ASSUME Inv, NEW mode, modes' = Append(modes, mode),
         reported' = (IF Reports(mode) THEN reported \cup {Len(modes')} ELSE reported),
         motion' = Remembered(mode)
  PROVE  MotionReportedOnce' /\ MotionMemory'
<1>1. /\ modes \in Seq(Byte) /\ reported \subseteq 1 .. Len(modes) /\ motion \in BOOLEAN
      /\ MotionReportedOnce /\ MotionMemory
  BY DEF Inv, TypeOK
<1>2. PICK n \in Nat : n = Len(modes)
  BY <1>1
<1>3. PICK more : more = modes'
  OBVIOUS
<1>4. /\ DOMAIN modes = 1 .. n /\ DOMAIN more = 1 .. n + 1 /\ Len(more) = n + 1
      /\ \A k \in 1 .. n : more[k] = modes[k]
      /\ more[n + 1] = mode
  BY <1>1, <1>2, <1>3
<1>5. CASE Reports(mode)
  <2>1. InMotion(mode) /\ ~motion /\ motion' = TRUE /\ reported' = reported \cup {n + 1}
    BY <1>3, <1>4, <1>5 DEF Reports, Remembered
  <2>2. \A i \in reported : \E k \in i + 1 .. n : ~InMovie(modes[k])
    BY <1>1, <1>2, <2>1 DEF MotionMemory
  <2>3. ASSUME NEW i \in reported', NEW j \in reported', i < j
        PROVE  \E k \in i + 1 .. j - 1 : ~InMovie(more[k])
    <3>1. i \in reported /\ i \in 1 .. n
      BY <1>1, <1>2, <2>1, <2>3
    <3>2. CASE j \in reported
      <4>1. PICK k \in i + 1 .. j - 1 : ~InMovie(modes[k])
        BY <1>1, <2>3, <3>1, <3>2 DEF MotionReportedOnce
      <4>2. k \in 1 .. n
        BY <1>1, <1>2, <3>1, <3>2
      <4> QED BY <1>4, <4>1, <4>2
    <3>3. CASE j = n + 1
      <4>1. PICK k \in i + 1 .. n : ~InMovie(modes[k])
        BY <2>2, <3>1
      <4>2. k \in 1 .. n /\ k \in i + 1 .. j - 1
        BY <3>1, <3>3
      <4> QED BY <1>4, <4>1, <4>2
    <3> QED BY <2>1, <3>2, <3>3
  <2>4. ASSUME NEW j \in 1 .. n + 1, InMotion(more[j]), InMovie(more[j])
        PROVE  \E i \in reported' : i <= j /\ \A k \in i + 1 .. j : InMovie(more[k])
    <3>1. CASE j \in 1 .. n
      <4>1. PICK i \in reported : i <= j /\ \A k \in i + 1 .. j : InMovie(modes[k])
        BY <1>1, <1>4, <2>4, <3>1 DEF MotionReportedOnce
      <4>2. \A k \in i + 1 .. j : k \in 1 .. n
        BY <1>1, <1>2, <3>1
      <4> QED BY <1>4, <2>1, <4>1, <4>2
    <3>2. CASE j = n + 1
      <4>1. n + 1 \in reported' /\ \A k \in n + 1 + 1 .. j : FALSE
        BY <2>1, <3>2
      <4> QED BY <3>2, <4>1
    <3> QED BY <3>1, <3>2
  <2>5. MotionReportedOnce'
    BY <1>3, <1>4, <2>3, <2>4 DEF MotionReportedOnce
  <2>6. n + 1 \in reported' /\ \A k \in n + 1 + 1 .. n + 1 : FALSE
    BY <2>1
  <2> QED BY <1>3, <1>4, <2>1, <2>5, <2>6 DEF MotionMemory
<1>6. CASE ~Reports(mode)
  <2>1. /\ reported' = reported /\ (InMotion(mode) => motion)
        /\ motion' = (motion /\ InMovie(mode))
    BY <1>1, <1>6 DEF Reports, Remembered
  <2>2. ASSUME NEW i \in reported, NEW j \in reported, i < j
        PROVE  \E k \in i + 1 .. j - 1 : ~InMovie(more[k])
    <3>1. PICK k \in i + 1 .. j - 1 : ~InMovie(modes[k])
      BY <1>1, <2>2 DEF MotionReportedOnce
    <3>2. k \in 1 .. n
      BY <1>1, <1>2
    <3> QED BY <1>4, <3>1, <3>2
  <2>3. ASSUME motion
        PROVE  \E i \in reported : \A k \in i + 1 .. n : InMovie(more[k])
    <3>1. PICK i \in reported : \A k \in i + 1 .. n : InMovie(modes[k])
      BY <1>1, <1>2, <2>3 DEF MotionMemory
    <3>2. \A k \in i + 1 .. n : k \in 1 .. n
      BY <1>1, <1>2
    <3> QED BY <1>4, <3>1, <3>2
  <2>4. ASSUME motion, InMovie(mode)
        PROVE  \E i \in reported : i <= n + 1 /\ \A k \in i + 1 .. n + 1 : InMovie(more[k])
    <3>1. PICK i \in reported : \A k \in i + 1 .. n : InMovie(more[k])
      BY <2>3, <2>4
    <3>2. i \in 1 .. n
      BY <1>1, <1>2
    <3>3. ASSUME NEW k \in i + 1 .. n + 1
          PROVE  InMovie(more[k])
      <4>1. CASE k \in i + 1 .. n
        BY <3>1, <4>1
      <4>2. CASE k = n + 1
        BY <1>4, <2>4, <4>2
      <4> QED BY <3>2, <4>1, <4>2
    <3> QED BY <3>2, <3>3
  <2>5. ASSUME NEW j \in 1 .. n + 1, InMotion(more[j]), InMovie(more[j])
        PROVE  \E i \in reported : i <= j /\ \A k \in i + 1 .. j : InMovie(more[k])
    <3>1. CASE j \in 1 .. n
      <4>1. PICK i \in reported : i <= j /\ \A k \in i + 1 .. j : InMovie(modes[k])
        BY <1>1, <1>4, <2>5, <3>1 DEF MotionReportedOnce
      <4>2. \A k \in i + 1 .. j : k \in 1 .. n
        BY <1>1, <1>2, <3>1
      <4> QED BY <1>4, <4>1, <4>2
    <3>2. CASE j = n + 1
      BY <1>4, <2>1, <2>4, <2>5, <3>2
    <3> QED BY <3>1, <3>2
  <2>6. MotionReportedOnce'
    BY <1>3, <1>4, <2>1, <2>2, <2>5 DEF MotionReportedOnce
  <2>7. ASSUME ~motion', NEW i \in reported
        PROVE  \E k \in i + 1 .. n + 1 : ~InMovie(more[k])
    <3>1. i \in 1 .. n
      BY <1>1, <1>2
    <3>2. CASE motion
      <4>1. ~InMovie(mode)
        BY <2>1, <2>7, <3>2
      <4>2. n + 1 \in i + 1 .. n + 1
        BY <3>1
      <4> QED BY <1>4, <4>1, <4>2
    <3>3. CASE ~motion
      <4>1. PICK k \in i + 1 .. n : ~InMovie(modes[k])
        BY <1>1, <1>2, <3>3 DEF MotionMemory
      <4>2. k \in 1 .. n /\ k \in i + 1 .. n + 1
        BY <3>1
      <4> QED BY <1>4, <4>1, <4>2
    <3> QED BY <1>1, <3>2, <3>3
  <2>8. MotionMemory'
    BY <1>3, <1>4, <2>1, <2>4, <2>7 DEF MotionMemory
  <2> QED BY <2>6, <2>8
<1> QED BY <1>5, <1>6

LEMMA ParseKeepsInv ==
  ASSUME Inv, ParseHeader
  PROVE  Inv'
<1>1. /\ TypeOK /\ SentOK /\ DeliveredOK /\ at = "header" /\ Len(header) = 5
      /\ modes' = Append(modes, Mode)
      /\ UNCHANGED <<sent, output, wire, connection, startFlagIndex, image, delivered>>
  BY DEF Inv, ParseHeader, serverVars, HEADER_SIZE
<1>2. header \in Seq(Byte) /\ modes \in Seq(Byte) /\ Mode \in Byte
  <2>1. header \in Seq(Byte) /\ modes \in Seq(Byte)
    BY <1>1 DEF TypeOK
  <2>2. 5 \in 1 .. Len(header)
    BY <1>1
  <2> QED BY <2>1, <2>2 DEF Mode
<1>3. AllModesSent
  BY <1>1 DEF Inv, InStep, OffStep, Ended
<1>4. PICK n \in Nat : n = Len(modes)
  BY <1>2
<1>5. /\ modes' \in Seq(Byte) /\ Len(modes') = n + 1
      /\ \A i \in 1 .. n : modes'[i] = modes[i]
      /\ modes'[n + 1] = Mode
  BY <1>1, <1>2, <1>4
<1>6. /\ reported' = (IF Reports(Mode) THEN reported \cup {Len(modes')} ELSE reported)
      /\ motion' = Remembered(Mode)
      /\ at' = IF Thrown THEN "flag" ELSE IF ImageSize < 0 THEN "died" ELSE "image"
      /\ header' = IF Thrown THEN <<>> ELSE header
  BY DEF ParseHeader
<1>7. TypeOK'
  <2>1. header' \in Seq(Byte)
    BY <1>2, <1>6
  <2>2. at' \in {"flag", "died", "image"}
    BY <1>6
  <2>3. motion' \in BOOLEAN
    BY <1>1, <1>6 DEF TypeOK, Remembered
  <2>4. reported' \subseteq DOMAIN modes'
    BY <1>1, <1>2, <1>4, <1>5, <1>6 DEF TypeOK
  <2> QED BY <1>1, <1>5, <2>1, <2>2, <2>3, <2>4 DEF TypeOK
<1>8. SentOK' /\ DeliveredOK'
  BY <1>1 DEF SentOK, DeliveredOK
<1>9. MotionReportedOnce' /\ MotionMemory'
  BY <1>1, <1>6, MotionAfterHeader
<1>10. CASE OffStep
  <2>1. OffStep'
    BY <1>1, <1>6, <1>10 DEF OffStep
  <2>2. HeadersWereSent'
    <3>1. \A i \in 1 .. n : i \in DOMAIN sent /\ modes[i] = sent[i].mode
      BY <1>1, <1>3, <1>4 DEF AllModesSent, SentOK
    <3>2. connection' = "closed" /\ DOMAIN modes' = 1 .. n + 1 /\ Mode = EndOfFile
      BY <1>1, <1>5, <1>10 DEF OffStep, Mode
    <3> QED BY <1>1, <1>5, <3>1, <3>2 DEF HeadersWereSent
  <2> QED BY <1>7, <1>8, <1>9, <2>1, <2>2 DEF Inv
<1>11. CASE InStep
  <2>1. PICK starts \in [1 .. Len(sent) + 1 -> Nat] :
          Layout(starts, sent) /\ UnderWay(starts, starts[Current] + Offset)
    BY <1>11 DEF InStep
  <2>2. /\ Current \in 1 .. Len(sent) /\ n = Len(delivered) /\ image = <<>> /\ startFlagIndex = 0
        /\ \A i \in 1 .. 5 : header[i] = Header(sent[Current])[i]
    BY <1>1, <1>4, <1>11 DEF InStep, Parsed, Current, DeliveredOK, SentOK
  <2>3. PICK f \in SentFrame : f = sent[Current]
    BY <1>1, <2>2 DEF SentOK
  <2>4. ImageSize = Size(f) /\ Mode = f.mode /\ ~Thrown
    BY <1>1, <1>2, <2>2, <2>3, HeaderRead
  <2>5. Size(f) \in Nat \ {0}
    BY EncodedLength
  <2>6. at' = "image" /\ header' = header
    BY <1>6, <2>4, <2>5
  <2>7. Current' = Current /\ Offset' = Offset
    <3>1. Current' = Current
      BY <1>1 DEF Current
    <3>2. Offset = Len(START_FLAG) + 5 /\ Offset' = Len(START_FLAG) + 5 + 0
      BY <1>1, <2>2, <2>6 DEF Offset
    <3> QED BY <3>1, <3>2, FlagBytes
  <2>8. Parsed'
    <3>1. Len(image') = 0 /\ Len(image') < Size(sent'[Current'])
      BY <1>1, <2>2, <2>3, <2>5, <2>7
    <3>2. /\ at' = "image" /\ startFlagIndex' = 0 /\ image' = <<>>
          /\ sent' = sent /\ Current' = Current /\ header' = header
      BY <1>1, <2>2, <2>6, <2>7
    <3>3. Current' <= Len(sent') /\ Len(header') = 5
      BY <1>1, <2>2, <3>2
    <3>4. \A i \in 1 .. Len(header') : header'[i] = Header(sent'[Current'])[i]
      BY <1>1, <2>2, <3>2
    <3>5. \A i \in 1 .. Len(image') : FALSE
      BY <3>1
    <3> QED BY <3>1, <3>2, <3>3, <3>4, <3>5 DEF Parsed
  <2>9. AllModesSent' /\ Len(modes') = Current'
    <3>1. Current = n + 1
      BY <2>2 DEF Current
    <3> QED BY <1>1, <1>3, <1>4, <1>5, <2>2, <2>3, <2>4, <2>7, <3>1 DEF AllModesSent
  <2>10. UnderWay(starts, starts[Current] + Offset)'
    <3>1. PICK read : read = starts[Current] + Offset
      OBVIOUS
    <3>2. UnderWay(starts, read)'
      BY <1>1, <2>1, <3>1 DEF UnderWay
    <3> QED BY <2>7, <3>1, <3>2
  <2>11. InStep'
    BY <1>1, <2>1, <2>6, <2>8, <2>9, <2>10 DEF InStep
  <2>12. HeadersWereSent'
    BY <1>5, <1>1, <2>9, <1>7 DEF HeadersWereSent, AllModesSent, SentOK
  <2> QED BY <1>7, <1>8, <1>9, <2>11, <2>12 DEF Inv
<1> QED BY <1>1, <1>10, <1>11 DEF Inv, Ended

LEMMA ImageKeepsInv ==
  ASSUME Inv, ReadImage
  PROVE  Inv'
<1>1. /\ TypeOK /\ SentOK /\ DeliveredOK /\ at = "image" /\ wire # <<>>
      /\ wire' = Tail(wire)
      /\ UNCHANGED <<sent, output, connection, startFlagIndex, motion, modes, reported>>
  BY DEF Inv, ReadImage, serverVars
<1>2. InStep
  BY <1>1 DEF Inv, OffStep, Ended
<1>3. PICK starts \in [1 .. Len(sent) + 1 -> Nat] :
        Layout(starts, sent) /\ UnderWay(starts, starts[Current] + Offset)
  BY <1>2 DEF InStep
<1>4. /\ Current \in 1 .. Len(sent) /\ sent[Current] \in SentFrame
      /\ Head(wire) = Encoded(sent[Current])[Offset + 1]
  BY <1>1, <1>2, <1>3, NextByte DEF InStep
<1>5. PICK f \in SentFrame : f = sent[Current]
  BY <1>4
<1>6. PICK L \in Nat : L = Len(START_FLAG)
  BY FlagBytes
<1>7. PICK size \in Nat : size = Size(f)
  BY EncodedLength
<1>8. PICK n \in Nat : n = Len(image) /\ n < size
  BY <1>1, <1>2, <1>5, <1>7 DEF InStep, Parsed, TypeOK
<1>9. Offset = L + 5 + n
  BY <1>1, <1>6, <1>8 DEF Offset
<1>10. PICK byte \in Byte : byte = Head(wire)
  BY <1>1 DEF TypeOK
<1>11. PICK bytes \in Seq(Byte) : bytes = Append(image, byte)
  <2>1. image \in Seq(Byte)
    BY <1>1 DEF TypeOK
  <2>2. Append(image, byte) \in Seq(Byte)
    BY <1>10, <2>1
  <2> QED BY <2>2
<1>12. Len(bytes) = n + 1 /\ \A i \in 1 .. n + 1 : bytes[i] = f.image[i]
  <2>1. Len(bytes) = n + 1 /\ bytes[n + 1] = byte /\ \A i \in 1 .. n : bytes[i] = image[i]
    BY <1>1, <1>8, <1>11 DEF TypeOK
  <2>2. \A i \in 1 .. n : image[i] = f.image[i]
    BY <1>1, <1>2, <1>5, <1>8 DEF InStep, Parsed
  <2>3. byte = f.image[n + 1]
    <3>1. \A j \in 1 .. size : Encoded(f)[L + 5 + j] = f.image[j]
      BY <1>6, <1>7, EncodedBytes
    <3>2. n + 1 \in 1 .. size /\ Offset + 1 = L + 5 + (n + 1)
      BY <1>6, <1>7, <1>8, <1>9
    <3>3. Encoded(f)[L + 5 + (n + 1)] = f.image[n + 1]
      BY <3>1, <3>2
    <3> QED BY <1>4, <1>5, <1>10, <3>2, <3>3
  <2> QED BY <1>8, <2>1, <2>2, <2>3
<1>13. Timestamp = f.timestamp /\ ImageSize = size /\ Mode = f.mode
  BY <1>1, <1>2, <1>5, <1>7, HeaderRead DEF InStep, Parsed, TypeOK
<1>14. PICK read \in Nat : read = starts[Current] + Offset
  BY <1>3, <1>4, <1>6, <1>8, <1>9
<1>15. wire' \in Seq(Byte) /\ startFlagIndex = 0 /\ AllModesSent /\ Len(modes) = Current
  BY <1>1, <1>2 DEF TypeOK, InStep, Parsed
<1>16. AllModesSent' /\ HeadersWereSent'
  BY <1>1, <1>15 DEF Inv, AllModesSent, HeadersWereSent
<1>17. SentOK' /\ MotionReportedOnce' /\ MotionMemory'
  BY <1>1 DEF Inv, SentOK, MotionReportedOnce, MotionMemory
<1>18. CASE n + 1 = size
  <2>1. Complete(bytes)
    BY <1>12, <1>13, <1>18 DEF Complete
  <2>2. /\ delivered' = Append(delivered, [timestamp |-> Timestamp, mode |-> Mode, image |-> bytes])
        /\ at' = "flag" /\ header' = <<>> /\ image' = <<>>
    BY <1>10, <1>11, <2>1 DEF ReadImage
  <2>3. [timestamp |-> Timestamp, mode |-> Mode, image |-> bytes] = f
    <3>1. bytes = f.image
      <4>1. f.image \in Seq(Byte) /\ Len(f.image) = size
        BY <1>7, SentFields DEF Size
      <4> QED BY <1>12, <1>18, <4>1
    <3>2. f = [timestamp |-> f.timestamp, mode |-> f.mode, image |-> f.image]
      BY DEF SentFrame
    <3> QED BY <1>13, <3>1, <3>2
  <2>4. PICK m \in Nat : m = Len(delivered)
    BY <1>1 DEF DeliveredOK
  <2>5. /\ delivered' \in Seq(SentFrame) /\ Len(delivered') = m + 1
        /\ \A i \in 1 .. m : delivered'[i] = delivered[i]
        /\ delivered'[m + 1] = f
    BY <1>1, <2>2, <2>3, <2>4 DEF DeliveredOK
  <2>6. Current = m + 1 /\ Current' = m + 2
    BY <2>4, <2>5 DEF Current
  <2>7. DeliveredOK'
    <3>1. m + 1 <= Len(sent)
      BY <1>4, <2>6
    <3>2. \A i \in 1 .. m : delivered[i] = sent[i]
      BY <1>1, <2>4 DEF DeliveredOK
    <3>3. \A i \in 1 .. m + 1 : delivered'[i] = sent[i]
      BY <1>5, <2>4, <2>5, <2>6, <3>2
    <3> QED BY <1>1, <2>5, <3>1, <3>3 DEF DeliveredOK
  <2>8. Offset' = 0
    BY <1>1, <1>15, <2>2 DEF Offset
  <2>9. read + 1 = starts[Current'] + Offset'
    <3>1. starts[Current + 1] = starts[Current] + Len(Encoded(sent[Current])) /\ starts[Current] \in Nat
      BY <1>3, <1>4 DEF Layout
    <3>2. Len(Encoded(f)) = L + 5 + size
      BY <1>6, <1>7, EncodedLength
    <3>3. Current + 1 = Current'
      BY <2>6
    <3>4. PICK begin \in Nat : begin = starts[Current]
      BY <3>1
    <3>5. starts[Current'] = begin + (L + 5 + size)
      BY <1>5, <3>1, <3>2, <3>3, <3>4
    <3>6. read = begin + (L + 5 + n)
      BY <1>9, <1>14, <3>4
    <3> QED BY <1>18, <2>8, <3>5, <3>6
  <2>10. Parsed'
    BY <1>1, <1>15, <2>2 DEF Parsed
  <2>11. Len(modes') = IF at' = "image" THEN Current' ELSE Len(delivered')
    BY <1>1, <1>15, <2>2, <2>5, <2>6
  <2>12. InStep'
    BY <1>1, <1>3, <1>14, <1>16, <2>9, <2>10, <2>11, InStepAfterByte
  <2>13. TypeOK'
    BY <1>1, <1>15, <2>2 DEF TypeOK
  <2> QED BY <1>16, <1>17, <2>7, <2>12, <2>13 DEF Inv
<1>19. CASE n + 1 # size
  <2>1. ~Complete(bytes)
    BY <1>12, <1>13, <1>19 DEF Complete
  <2>2. image' = bytes /\ UNCHANGED <<delivered, at, header>>
    BY <1>10, <1>11, <2>1 DEF ReadImage
  <2>3. Current' = Current /\ Offset' = L + 5 + (n + 1)
    BY <1>1, <1>6, <1>12, <2>2 DEF Current, Offset
  <2>4. DeliveredOK'
    BY <1>1, <2>2 DEF DeliveredOK
  <2>5. read + 1 = starts[Current'] + Offset'
    <3>1. PICK begin \in Nat : begin = starts[Current]
      BY <1>3, <1>4
    <3>2. starts[Current'] = begin
      BY <2>3, <3>1
    <3>3. read = begin + (L + 5 + n)
      BY <1>9, <1>14, <3>1
    <3> QED BY <2>3, <3>2, <3>3
  <2>6. Parsed'
    <3>1. n + 1 < size
      BY <1>7, <1>8, <1>19
    <3>2. sent'[Current'] = f /\ Len(image') = n + 1
      BY <1>1, <1>5, <1>12, <2>2, <2>3
    <3>3. /\ Len(image') < Size(sent'[Current'])
          /\ \A i \in 1 .. Len(image') : image'[i] = sent'[Current'].image[i]
      BY <1>7, <1>12, <2>2, <3>1, <3>2
    <3>4. /\ Current' <= Len(sent') /\ Len(header') = 5
          /\ \A i \in 1 .. Len(header') : header'[i] = Header(sent'[Current'])[i]
      BY <1>1, <1>2, <2>2, <2>3 DEF InStep, Parsed
    <3> QED BY <1>1, <1>15, <2>2, <3>3, <3>4 DEF Parsed
  <2>7. Len(modes') = IF at' = "image" THEN Current' ELSE Len(delivered')
    BY <1>1, <1>15, <2>2, <2>3
  <2>8. InStep'
    BY <1>1, <1>3, <1>14, <1>16, <2>5, <2>6, <2>7, InStepAfterByte
  <2>9. TypeOK'
    BY <1>1, <1>11, <1>15, <2>2 DEF TypeOK
  <2> QED BY <1>16, <1>17, <2>4, <2>8, <2>9 DEF Inv
<1> QED BY <1>18, <1>19

LEMMA FailKeepsInv ==
  ASSUME Inv, ReadFails
  PROVE  Inv'
<1>1. /\ at' = "closed" /\ connection = "reset"
      /\ UNCHANGED <<serverVars, wire, connection, startFlagIndex, header, image, motion, historyVars>>
  BY DEF ReadFails
<1>2. TypeOK' /\ Ended'
  BY <1>1 DEF Inv, TypeOK, Ended, serverVars, historyVars
<1>3. SentOK' /\ DeliveredOK' /\ HeadersWereSent'
  BY <1>1 DEF Inv, SentOK, DeliveredOK, HeadersWereSent, serverVars, historyVars
<1>4. MotionReportedOnce' /\ MotionMemory'
  BY <1>1 DEF Inv, MotionReportedOnce, MotionMemory, historyVars
<1> QED BY <1>2, <1>3, <1>4 DEF Inv

LEMMA StutterKeepsInv ==
  ASSUME Inv, UNCHANGED vars
  PROVE  Inv'
<1>1. UNCHANGED <<serverVars, wire, connection, readerVars, historyVars>>
  BY DEF vars
<1>2. TypeOK' /\ HeadersWereSent' /\ (AllModesSent => AllModesSent')
  BY <1>1 DEF Inv, TypeOK, HeadersWereSent, AllModesSent, serverVars, readerVars, historyVars
<1>3. SentOK' /\ DeliveredOK' /\ MotionReportedOnce' /\ MotionMemory'
  BY <1>1, RestKept DEF serverVars
<1>4. (OffStep => OffStep') /\ (Ended => Ended')
  BY <1>1, <1>2 DEF OffStep, Ended, readerVars
<1>5. ASSUME InStep
      PROVE  InStep'
  <2>1. Parsed'
    BY <1>1, <1>5 DEF InStep, Parsed, Current, serverVars, readerVars, historyVars
  <2> QED BY <1>1, <1>2, <1>5, <2>1 DEF InStep, Layout, UnderWay, Current, Offset, serverVars, readerVars, historyVars
<1> QED BY <1>2, <1>3, <1>4, <1>5 DEF Inv

-----------------------------------------------------------------------------
THEOREM Invariance == Spec => []Inv
<1>1. Init => Inv
  BY InvInit
<1>2. Inv /\ [Next]_vars => Inv'
  BY CaptureKeepsInv, WriteKeepsInv, CloseKeepsInv, FlagKeepsInv, HeaderKeepsInv, ParseKeepsInv,
     ImageKeepsInv, FailKeepsInv, StutterKeepsInv DEF Next, Reader
<1> QED BY <1>1, <1>2, PTL DEF Spec

(* Every variable keeps to its type, with images and flags of any length.  *)
THEOREM TypeCorrect == Spec => []TypeOK
BY Invariance, PTL DEF Inv

(* What read returns is a prefix of what the server sent: no frame of it   *)
(* is lost, mixed up or made up, wherever the connection ends.             *)
THEOREM FramesAreThoseSent == Spec => []DeliversWhatWasSent
<1>1. Inv => DeliversWhatWasSent
  <2> SUFFICES ASSUME Inv
               PROVE  DeliversWhatWasSent
    OBVIOUS
  <2>1. /\ delivered \in Seq(SentFrame) /\ sent \in Seq(SentFrame) /\ Len(delivered) <= Len(sent)
        /\ \A i \in 1 .. Len(delivered) : delivered[i] = sent[i]
    BY DEF Inv, SentOK, DeliveredOK
  <2>2. SubSeq(delivered, 1, Len(delivered)) = SubSeq(sent, 1, Len(delivered))
    BY <2>1
  <2> QED BY <2>1, <2>2 DEF DeliversWhatWasSent, IsPrefix
<1> QED BY Invariance, <1>1, PTL

(* The mode bytes acted on are those of the frames sent, but for one that  *)
(* the end of the stream has cut off.                                      *)
THEOREM ModesAreThoseSent == Spec => []HeadersWereSent
BY Invariance, PTL DEF Inv

(* changeMode is called once for each motion the headers tell of.          *)
THEOREM OneReportPerMotion == Spec => []MotionReportedOnce
BY Invariance, PTL DEF Inv

-----------------------------------------------------------------------------
(* The reader as one that is sent mode bytes only                          *)

Rest(s, n) == [i \in 1 .. Len(s) - n |-> HeaderOf(s[n + i].mode)]

Marks == [movie : BOOLEAN, motionBit : BOOLEAN]

LEMMA MarksOf ==
  ASSUME NEW f \in SentFrame
  PROVE  HeaderOf(f.mode) \in Marks
  BY DEF HeaderOf, InMovie, InMotion, Marks

LEMMA RestIs ==
  ASSUME NEW s \in Seq(SentFrame), NEW n \in Nat, NEW k \in Nat, Len(s) = n + k
  PROVE  /\ Rest(s, n) \in Seq(Marks) /\ Len(Rest(s, n)) = k
         /\ \A i \in 1 .. k : Rest(s, n)[i] = HeaderOf(s[n + i].mode)
<1>1. Rest(s, n) = [i \in 1 .. k |-> HeaderOf(s[n + i].mode)]
  <2>1. Len(s) - n = k
    OBVIOUS
  <2> QED BY <2>1 DEF Rest
<1>2. ASSUME NEW i \in 1 .. k
      PROVE  HeaderOf(s[n + i].mode) \in Marks
  <2>1. s[n + i] \in SentFrame
    OBVIOUS
  <2> QED BY <2>1, MarksOf
<1>3. Rest(s, n) \in [1 .. k -> Marks]
  BY <1>1, <1>2
<1>4. Rest(s, n) \in Seq(Marks) /\ Len(Rest(s, n)) = k
  BY <1>3
<1> QED BY <1>1, <1>4

LEMMA RestAppended ==
  ASSUME NEW s \in Seq(SentFrame), NEW n \in Nat, NEW k \in Nat, Len(s) = n + k,
         NEW f \in SentFrame
  PROVE  Rest(Append(s, f), n) = Append(Rest(s, n), HeaderOf(f.mode))
<1> DEFINE longer == Append(s, f)
           rest == Rest(s, n)
           appended == Append(rest, HeaderOf(f.mode))
<1>1. longer \in Seq(SentFrame) /\ Len(longer) = n + (k + 1) /\ k + 1 \in Nat
  OBVIOUS
<1>2. /\ Rest(longer, n) \in Seq(Marks) /\ Len(Rest(longer, n)) = k + 1
      /\ \A i \in 1 .. k + 1 : Rest(longer, n)[i] = HeaderOf(longer[n + i].mode)
  <2> HIDE DEF longer
  <2> QED BY <1>1, RestIs
<1>3. /\ rest \in Seq(Marks) /\ Len(rest) = k
      /\ \A i \in 1 .. k : rest[i] = HeaderOf(s[n + i].mode)
  BY RestIs
<1>4. HeaderOf(f.mode) \in Marks
  BY MarksOf
<1>5. /\ appended \in Seq(Marks) /\ Len(appended) = k + 1
      /\ \A i \in 1 .. k : appended[i] = rest[i]
      /\ appended[k + 1] = HeaderOf(f.mode)
  <2> HIDE DEF rest
  <2>1. PICK h \in Marks : h = HeaderOf(f.mode)
    BY <1>4
  <2> QED BY <1>3, <2>1, AppendProperties
<1>6. ASSUME NEW i \in 1 .. k + 1
      PROVE  Rest(longer, n)[i] = appended[i]
  <2>1. CASE i = k + 1
    <3>1. longer[n + i] = f
      BY <2>1
    <3>2. Rest(longer, n)[i] = HeaderOf(longer[n + i].mode)
      BY <1>2
    <3> QED BY <2>1, <3>1, <3>2, <1>5
  <2>2. CASE i # k + 1
    <3>1. i \in 1 .. k
      BY <2>2
    <3>2. longer[n + i] = s[n + i]
      BY <3>1
    <3>3. Rest(longer, n)[i] = HeaderOf(longer[n + i].mode)
      BY <1>2
    <3> QED BY <3>1, <3>2, <3>3, <1>3, <1>5
  <2> QED BY <2>1, <2>2
<1> HIDE DEF longer, rest, appended
<1>7. Rest(longer, n) = appended
  BY <1>2, <1>5, <1>6, SeqEqual
<1> QED BY <1>7 DEF longer, rest, appended

LEMMA RestRead ==
  ASSUME NEW s \in Seq(SentFrame), NEW n \in Nat, NEW k \in Nat, Len(s) = n + (k + 1)
  PROVE  /\ Rest(s, n) # <<>>
         /\ Head(Rest(s, n)) = HeaderOf(s[n + 1].mode)
         /\ Tail(Rest(s, n)) = Rest(s, n + 1)
<1> DEFINE rest == Rest(s, n)
           next == Rest(s, n + 1)
<1>1. /\ rest \in Seq(Marks) /\ Len(rest) = k + 1
      /\ \A i \in 1 .. k + 1 : rest[i] = HeaderOf(s[n + i].mode)
  <2>1. k + 1 \in Nat
    OBVIOUS
  <2> QED BY <2>1, RestIs
<1>2. /\ next \in Seq(Marks) /\ Len(next) = k
      /\ \A i \in 1 .. k : next[i] = HeaderOf(s[n + 1 + i].mode)
  <2>1. Len(s) = (n + 1) + k /\ n + 1 \in Nat
    OBVIOUS
  <2> QED BY <2>1, RestIs
<1> HIDE DEF rest, next
<1>3. rest # <<>> /\ Head(rest) = rest[1] /\ 1 \in 1 .. k + 1
  <2>1. Len(rest) # 0
    BY <1>1
  <2> QED BY <2>1, <1>1
<1>4. /\ Tail(rest) \in Seq(Marks) /\ Len(Tail(rest)) = k
      /\ \A i \in 1 .. k : Tail(rest)[i] = rest[i + 1]
  BY <1>1, <1>3, HeadTailProperties
<1>5. ASSUME NEW i \in 1 .. k
      PROVE  Tail(rest)[i] = next[i]
  <2>1. i + 1 \in 1 .. k + 1 /\ n + (i + 1) = n + 1 + i
    OBVIOUS
  <2>2. rest[i + 1] = HeaderOf(s[n + (i + 1)].mode)
    BY <1>1, <2>1
  <2> QED BY <1>2, <1>4, <2>1, <2>2
<1>6. Tail(rest) = next
  BY <1>2, <1>4, <1>5, SeqEqual
<1>7. Head(rest) = HeaderOf(s[n + 1].mode)
  BY <1>1, <1>3
<1> QED BY <1>3, <1>6, <1>7 DEF rest, next

(* How many mode bytes have been acted on, when none was made up.          *)
LEMMA ActedOn ==
  ASSUME Inv
  PROVE  /\ sent \in Seq(SentFrame) /\ Len(modes) \in Nat
         /\ AllSent => Len(modes) \in 0 .. Len(sent) /\ Ahead = Rest(sent, Len(modes))
         /\ ~AllSent => connection = "closed" /\ Ahead = <<>>
<1>1. sent \in Seq(SentFrame) /\ modes \in Seq(Byte) /\ HeadersWereSent
  BY DEF Inv, SentOK, TypeOK
<1>2. PICK n \in Nat : n = Len(modes)
  BY <1>1
<1>3. ASSUME AllSent
      PROVE  n \in 0 .. Len(sent)
  <2>1. CASE n = 0
    BY <1>1, <2>1
  <2>2. CASE n # 0
    <3>1. n \in DOMAIN modes
      BY <1>1, <1>2, <2>2
    <3>2. n \in DOMAIN sent
      BY <1>1, <1>3, <3>1 DEF HeadersWereSent, AllSent
    <3> QED BY <1>1, <3>2
  <2> QED BY <2>1, <2>2
<1>4. ASSUME ~AllSent
      PROVE  connection = "closed"
  <2>1. PICK i \in DOMAIN modes : modes[i] = EndOfFile
    BY <1>4 DEF AllSent
  <2>2. ASSUME i \in DOMAIN sent
        PROVE  sent[i].mode # EndOfFile
    <3>1. sent[i] \in SentFrame
      BY <1>1, <2>2
    <3> QED BY <3>1, SentFields DEF EndOfFile
  <2> QED BY <1>1, <2>1, <2>2 DEF HeadersWereSent
<1> QED BY <1>1, <1>2, <1>3, <1>4 DEF Ahead, Rest

LEMMA SameReader ==
  ASSUME UNCHANGED <<sent, modes, motion>>
  PROVE  UNCHANGED Abstract!vars
  BY DEF Abstract!vars, Ahead, AllSent

(* A frame sent is a mode byte sent, and a header parsed is one read, or   *)
(* made up; no other step is any of these.                                 *)
LEMMA ReaderStep == Inv /\ Inv' /\ [Next]_vars => [Abstract!Next]_(Abstract!vars)
<1> SUFFICES ASSUME Inv, Inv', [Next]_vars
             PROVE  Abstract!Next \/ UNCHANGED Abstract!vars
  OBVIOUS
<1>1. CASE CaptureAndOutput
  <2>1. connection = "open" /\ modes' = modes /\ motion' = motion
    BY <1>1 DEF CaptureAndOutput, readerVars, historyVars
  <2>2. PICK f \in [timestamp : {Len(sent) + 1}, mode : 0 .. 3, image : Images] : sent' = Append(sent, f)
    BY <1>1 DEF CaptureAndOutput
  <2>3. f \in SentFrame
    <3>1. sent' \in Seq(SentFrame) /\ sent \in Seq(SentFrame)
      BY DEF Inv, SentOK
    <3>2. sent'[Len(sent) + 1] = f /\ Len(sent) + 1 \in 1 .. Len(sent')
      BY <2>2, <3>1
    <3> QED BY <3>1, <3>2
  <2>4. AllSent /\ AllSent'
    BY <2>1, ActedOn DEF AllSent
  <2>5. Ahead = Rest(sent, Len(modes)) /\ Ahead' = Rest(sent', Len(modes))
    BY <2>1, <2>4, ActedOn DEF Ahead, Rest
  <2>6. Ahead' = Append(Ahead, HeaderOf(f.mode))
    <3>1. sent \in Seq(SentFrame) /\ Len(modes) \in 0 .. Len(sent)
      BY <2>4, ActedOn
    <3>2. PICK n \in Nat : n = Len(modes)
      BY <3>1
    <3>3. Len(sent) \in Nat /\ Len(sent) - n \in Nat
      BY <3>1, <3>2
    <3>4. PICK k \in Nat : k = Len(sent) - n
      BY <3>3
    <3>5. Len(sent) = n + k
      BY <3>3, <3>4
    <3>6. Rest(Append(sent, f), n) = Append(Rest(sent, n), HeaderOf(f.mode))
      BY <2>3, <3>1, <3>5, RestAppended
    <3> QED BY <2>2, <2>5, <3>2, <3>6
  <2>7. HeaderOf(f.mode) \in [movie : BOOLEAN, motionBit : BOOLEAN]
    BY DEF HeaderOf, InMovie, InMotion
  <2> QED BY <2>1, <2>4, <2>6, <2>7 DEF Abstract!Next, Abstract!Send
<1>2. CASE ParseHeader
  <2>1. /\ at = "header" /\ Len(header) = 5 /\ sent' = sent
        /\ modes' = Append(modes, Mode) /\ motion' = Remembered(Mode)
    BY <1>2 DEF ParseHeader, serverVars, HEADER_SIZE
  <2>2. /\ AllModesSent /\ (InStep \/ OffStep) /\ sent \in Seq(SentFrame)
        /\ modes \in Seq(Byte) /\ modes' \in Seq(Byte)
    BY <2>1 DEF Inv, InStep, OffStep, Ended, SentOK, TypeOK
  <2>3. PICK n \in Nat : n = Len(modes)
    BY <2>2
  <2>4. /\ DOMAIN modes = 1 .. n /\ DOMAIN modes' = 1 .. n + 1 /\ Len(modes') = n + 1
        /\ \A i \in 1 .. n : modes'[i] = modes[i]
        /\ modes'[n + 1] = Mode
    BY <2>1, <2>2, <2>3
  <2>5. \A i \in 1 .. n : modes[i] # EndOfFile
    <3>1. ASSUME NEW i \in 1 .. n
          PROVE  modes[i] # EndOfFile
      <4>1. modes[i] = sent[i].mode /\ sent[i] \in SentFrame
        BY <2>2, <2>3 DEF AllModesSent
      <4> QED BY <4>1, SentFields DEF EndOfFile
    <3> QED BY <3>1
  <2>6. AllSent
    BY <2>4, <2>5 DEF AllSent
  <2>7. CASE OffStep
    <3>1. Mode = EndOfFile
      BY <2>1, <2>7 DEF OffStep, Mode
    <3>2. ~AllSent'
      BY <2>4, <3>1 DEF AllSent
    <3>3. Ahead' = <<>>
      BY <3>2 DEF Ahead
    <3>4. motion' = TRUE
      <4>1. InMotion(EndOfFile) /\ InMovie(EndOfFile)
        BY DEF InMotion, InMovie, EndOfFile
      <4>2. motion \in BOOLEAN
        BY DEF Inv, TypeOK
      <4> QED BY <2>1, <3>1, <4>1, <4>2 DEF Remembered
    <3> QED BY <2>6, <3>2, <3>3, <3>4 DEF Abstract!Next, Abstract!MakeUp
  <2>8. CASE InStep
    <3>1. /\ Current \in 1 .. Len(sent) /\ n + 1 = Current
          /\ \A i \in 1 .. 5 : header[i] = Header(sent[Current])[i]
      BY <2>1, <2>2, <2>3, <2>8 DEF InStep, Parsed, Current, Inv, DeliveredOK
    <3>2. PICK f \in SentFrame : f = sent[Current]
      BY <2>2, <3>1
    <3>3. Mode = f.mode
      <4>1. header \in Seq(Byte)
        BY DEF Inv, TypeOK
      <4> QED BY <2>1, <3>1, <3>2, <4>1, HeaderRead
    <3>4. AllSent'
      BY <2>4, <2>5, <3>3, SentFields DEF AllSent, EndOfFile
    <3>5. PICK k \in Nat : Len(sent) = n + (k + 1)
      <4>1. Len(sent) \in Nat /\ n + 1 <= Len(sent)
        BY <2>2, <3>1
      <4>2. Len(sent) - (n + 1) \in Nat
        BY <4>1
      <4>3. PICK k \in Nat : k = Len(sent) - (n + 1)
        BY <4>2
      <4>4. Len(sent) = n + (k + 1)
        BY <4>1, <4>3
      <4> QED BY <4>4
    <3>6. Ahead = Rest(sent, n) /\ Ahead' = Rest(sent, n + 1)
      BY <2>1, <2>3, <2>4, <2>6, <3>4 DEF Ahead, Rest
    <3>7. Ahead # <<>> /\ Head(Ahead) = HeaderOf(Mode) /\ Ahead' = Tail(Ahead)
      BY <2>2, <3>1, <3>2, <3>3, <3>5, <3>6, RestRead
    <3>8. motion' = Abstract!Remembered(HeaderOf(Mode))
      <4>1. /\ HeaderOf(Mode).movie = InMovie(Mode) /\ HeaderOf(Mode).motionBit = InMotion(Mode)
            /\ InMovie(Mode) \in BOOLEAN /\ InMotion(Mode) \in BOOLEAN
        BY DEF HeaderOf, InMovie, InMotion
      <4>2. motion \in BOOLEAN
        BY DEF Inv, TypeOK
      <4> QED BY <2>1, <4>1, <4>2 DEF Remembered, Abstract!Remembered
    <3> QED BY <2>6, <3>4, <3>7, <3>8 DEF Abstract!Next, Abstract!Read
  <2> QED BY <2>2, <2>7, <2>8
<1>3. CASE ~CaptureAndOutput /\ ~ParseHeader
  <2>1. UNCHANGED <<sent, modes, motion>>
    BY <1>3 DEF Next, Reader, Write, ServerCloses, ReadStartFlag, ReadHeader, ReadImage, ReadFails,
                vars, serverVars, readerVars, historyVars
  <2> QED BY <2>1, SameReader
<1> QED BY <1>1, <1>2, <1>3

(* The parser of ServerReader.java, reading bytes, implements a reader     *)
(* that is handed the mode bytes one by one.                               *)
THEOREM ReadsModeBytes == Spec => ImplementsMotionReader
<1>1. Init => Abstract!Init
  <2> SUFFICES ASSUME Init
               PROVE  Abstract!Init
    OBVIOUS
  <2>1. sent = <<>> /\ modes = <<>> /\ motion = FALSE
    BY DEF Init
  <2>2. AllSent = TRUE
    BY <2>1 DEF AllSent
  <2>3. Ahead = <<>>
    BY <2>1, <2>2 DEF Ahead
  <2> QED BY <2>1, <2>2, <2>3 DEF Abstract!Init
<1> QED
  BY <1>1, Invariance, ReaderStep, PTL DEF Spec, ImplementsMotionReader, Abstract!Spec
=============================================================================
