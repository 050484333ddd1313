--------------------------- MODULE Playout_proofs ---------------------------
(***************************************************************************)
(* Proofs about Playout, for any frames, sending times, delays, instants   *)
(* and sync times.                                                         *)
(***************************************************************************)
EXTENDS Playout, WellFoundedInduction, TLAPS

-----------------------------------------------------------------------------
(* The buffer, for any calls of add and pop                                *)

(* A set of numbers that is not empty has a least one.                     *)
LEMMA LeastNumber ==
  ASSUME NEW S \in SUBSET Nat, S # {}
  PROVE  \E n \in S : \A m \in S : n <= m
<1> DEFINE R == OpToRel(<, Nat)
<1>1. IsWellFoundedOn(R, Nat)
  BY NatLessThanWellFounded
<1>2. PICK n \in S : \A m \in S : <<m, n>> \notin R
  <2> HIDE DEF R
  <2> QED BY <1>1, WFMin
<1>3. \A m \in S : ~(m < n)
  BY <1>2 DEF OpToRel
<1> QED BY <1>3

(* What insertion into a list does: the elements before the place keep     *)
(* theirs, the others move up by one.                                      *)
LEMMA Inserted ==
  ASSUME NEW S, NEW s \in Seq(S), NEW i \in 1 .. Len(s) + 1, NEW e \in S
  PROVE  /\ InsertAt(s, i, e) \in Seq(S)
         /\ Len(InsertAt(s, i, e)) = Len(s) + 1
         /\ \A j \in 1 .. Len(s) + 1 :
              InsertAt(s, i, e)[j] = IF j < i THEN s[j] ELSE IF j = i THEN e ELSE s[j - 1]
<1> DEFINE front == SubSeq(s, 1, i - 1)
           back  == SubSeq(s, i, Len(s))
<1>1. /\ front \in Seq(S)
      /\ Len(front) = i - 1
      /\ \A j \in 1 .. i - 1 : front[j] = s[j]
  OBVIOUS
<1>2. /\ back \in Seq(S)
      /\ Len(back) = Len(s) + 1 - i
      /\ \A j \in 1 .. Len(s) + 1 - i : back[j] = s[i + j - 1]
  OBVIOUS
<1>3. InsertAt(s, i, e) = front \o <<e>> \o back
  BY DEF InsertAt
<1> HIDE DEF front, back
<1> DEFINE head == front \o <<e>>
<1>4. /\ head \in Seq(S)
      /\ Len(head) = i
      /\ \A j \in 1 .. i : head[j] = IF j < i THEN s[j] ELSE e
  BY <1>1
<1> HIDE DEF head
<1>5. InsertAt(s, i, e) = head \o back
  BY <1>3 DEF head
<1>6. /\ head \o back \in Seq(S)
      /\ Len(head \o back) = Len(s) + 1
  BY <1>2, <1>4
<1>7. ASSUME NEW j \in 1 .. Len(s) + 1
      PROVE  (head \o back)[j] = IF j < i THEN s[j] ELSE IF j = i THEN e ELSE s[j - 1]
  <2>1. CASE j <= i
    BY <2>1, <1>2, <1>4
  <2>2. CASE ~(j <= i)
    <3>1. (head \o back)[j] = back[j - i]
      BY <2>2, <1>2, <1>4
    <3>2. j - i \in 1 .. Len(s) + 1 - i /\ i + (j - i) - 1 = j - 1
      BY <2>2
    <3> QED BY <3>1, <3>2, <2>2, <1>2
  <2> QED BY <2>1, <2>2
<1> QED BY <1>5, <1>6, <1>7

(* Where add puts a frame, no frame before it is older and, the list being *)
(* in order, every frame from there on is.                                 *)
LEMMA InsertionPlace ==
  ASSUME BufferTypeOK, NewestFirst, NEW frame \in Frames
  PROVE  /\ InsertionIndex(frame) \in 1 .. Len(frames) + 1
         /\ \A i \in DOMAIN frames : i < InsertionIndex(frame) <=> ~After(frame, frames[i])
<1> DEFINE older == {i \in DOMAIN frames : After(frame, frames[i])}
           place == InsertionIndex(frame)
<1> USE SentTimeAssumption
<1>1. CASE older = {}
  BY <1>1 DEF InsertionIndex, BufferTypeOK
<1>2. CASE older # {}
  <2>1. older \in SUBSET Nat
    BY DEF BufferTypeOK
  <2>2. \E i \in older : \A j \in older : i <= j
    <3> HIDE DEF older
    <3> QED BY <2>1, <1>2, LeastNumber
  <2>3. place = CHOOSE i \in older : \A j \in older : i <= j
    BY <1>2 DEF InsertionIndex
  <2>4. place \in older /\ \A j \in older : place <= j
    <3> HIDE DEF older, place
    <3> QED BY <2>2, <2>3
  <2> HIDE DEF place
  <2>5. place \in 1 .. Len(frames) /\ After(frame, frames[place])
    BY <2>4 DEF BufferTypeOK
  <2>6. ASSUME NEW i \in DOMAIN frames, i < place
        PROVE  ~After(frame, frames[i])
    BY <2>4, <2>6, <2>5 DEF BufferTypeOK
  <2>7. ASSUME NEW i \in DOMAIN frames, place < i
        PROVE  After(frame, frames[i])
    <3>1. ~After(frames[i], frames[place])
      BY <2>5, <2>7 DEF NewestFirst, BufferTypeOK
    <3>2. /\ SentTime[frames[i]] \in Nat
          /\ SentTime[frames[place]] \in Nat
          /\ SentTime[frame] \in Nat
      BY <2>5 DEF BufferTypeOK
    <3> QED BY <3>1, <3>2, <2>5 DEF After
  <2> QED BY <2>5, <2>6, <2>7 DEF BufferTypeOK, place
<1> QED BY <1>1, <1>2

-----------------------------------------------------------------------------
(* The invariant of the buffer.                                            *)
BufferInv == BufferTypeOK /\ NewestFirst

LEMMA BufferInvInit == BufferInit => BufferInv
BY DEF BufferInit, BufferInv, BufferTypeOK, NewestFirst

(* What add leaves, in terms of the list before.                           *)
LEMMA Added ==
  ASSUME BufferInv, NEW frame \in Frames, Add(frame)
  PROVE  LET place == InsertionIndex(frame)
         IN  /\ place \in 1 .. Len(frames) + 1
             /\ frames' \in Seq(Frames)
             /\ Len(frames') = Len(frames) + 1
             /\ \A j \in 1 .. Len(frames) + 1 :
                  frames'[j] = IF j < place THEN frames[j]
                               ELSE IF j = place THEN frame ELSE frames[j - 1]
             /\ \A i \in DOMAIN frames : i < place <=> ~After(frame, frames[i])
             /\ \A i \in DOMAIN frames : frames[i] # frame
<1> DEFINE place == InsertionIndex(frame)
<1>1. /\ place \in 1 .. Len(frames) + 1
      /\ \A i \in DOMAIN frames : i < place <=> ~After(frame, frames[i])
  BY InsertionPlace DEF BufferInv
<1>2. frames \in Seq(Frames) /\ frames' = InsertAt(frames, place, frame)
  BY DEF BufferInv, BufferTypeOK, Add
<1>3. \A i \in DOMAIN frames : frames[i] # frame
  BY DEF Add, ToSet
<1> HIDE DEF place
<1>4. /\ frames' \in Seq(Frames)
      /\ Len(frames') = Len(frames) + 1
      /\ \A j \in 1 .. Len(frames) + 1 :
           frames'[j] = IF j < place THEN frames[j]
                        ELSE IF j = place THEN frame ELSE frames[j - 1]
  BY <1>1, <1>2, Inserted
<1> QED BY <1>1, <1>3, <1>4 DEF place

(* What pop leaves, in terms of the list before.                           *)
LEMMA Popped ==
  ASSUME BufferInv, Pop
  PROVE  /\ frames' \in Seq(Frames)
         /\ Len(frames) \in Nat \ {0}
         /\ Len(frames') = Len(frames) - 1
         /\ \A j \in 1 .. Len(frames) - 1 : frames'[j] = frames[j]
         /\ popped' = frames[Len(frames)]
<1>1. frames \in Seq(Frames) /\ frames # <<>>
  BY DEF BufferInv, BufferTypeOK, Pop
<1>2. Len(frames) \in Nat \ {0}
  BY <1>1
<1> DEFINE n == Len(frames) - 1
<1>3. n \in Nat /\ n <= Len(frames)
  BY <1>2
<1>4. frames' = SubSeq(frames, 1, n) /\ popped' = frames[Len(frames)]
  BY DEF Pop
<1> HIDE DEF n
<1>5. /\ SubSeq(frames, 1, n) \in Seq(Frames)
      /\ Len(SubSeq(frames, 1, n)) = n
      /\ \A j \in 1 .. n : SubSeq(frames, 1, n)[j] = frames[j]
  BY <1>1, <1>3
<1>6. /\ frames' \in Seq(Frames)
      /\ Len(frames') = n
      /\ \A j \in 1 .. n : frames'[j] = frames[j]
  BY <1>4, <1>5
<1> QED BY <1>2, <1>4, <1>6 DEF n

LEMMA BufferInvNext == BufferInv /\ [BufferNext]_bufferVars => BufferInv'
<1> SUFFICES ASSUME BufferInv, [BufferNext]_bufferVars
             PROVE  BufferInv'
  OBVIOUS
<1> USE SentTimeAssumption
<1>1. ASSUME NEW frame \in Frames, Add(frame)
      PROVE  BufferInv'
  <2> DEFINE place == InsertionIndex(frame)
  <2>1. /\ place \in 1 .. Len(frames) + 1
        /\ frames' \in Seq(Frames)
        /\ Len(frames') = Len(frames) + 1
        /\ \A j \in 1 .. Len(frames) + 1 :
             frames'[j] = IF j < place THEN frames[j]
                          ELSE IF j = place THEN frame ELSE frames[j - 1]
        /\ \A i \in DOMAIN frames : i < place <=> ~After(frame, frames[i])
        /\ \A i \in DOMAIN frames : frames[i] # frame
    BY <1>1, Added
  <2> HIDE DEF place
  <2>2. BufferTypeOK'
    BY <2>1, <1>1 DEF BufferInv, BufferTypeOK, Add
  <2>3. ASSUME NEW i \in DOMAIN frames', NEW j \in DOMAIN frames', i < j
        PROVE  ~After(frames'[j], frames'[i]) /\ frames'[i] # frames'[j]
    <3>1. /\ DOMAIN frames = 1 .. Len(frames) /\ Len(frames) \in Nat
          /\ i \in 1 .. Len(frames) + 1 /\ j \in 1 .. Len(frames) + 1
          /\ \A k \in DOMAIN frames : frames[k] \in Frames
      BY <2>1 DEF BufferInv, BufferTypeOK
    <3>2. CASE j < place
      BY <3>1, <3>2, <2>1, <2>3 DEF BufferInv, NewestFirst
    <3>3. CASE j = place
      BY <3>1, <3>3, <2>1, <2>3
    <3>4. CASE i = place
      <4>1. j - 1 \in DOMAIN frames /\ ~(j - 1 < place) /\ frames'[j] = frames[j - 1]
        BY <3>1, <3>4, <2>1, <2>3
      <4>2. After(frame, frames[j - 1])
        BY <4>1, <2>1
      <4>3. SentTime[frame] \in Nat /\ SentTime[frames[j - 1]] \in Nat
        BY <4>1, <3>1
      <4> QED BY <4>1, <4>2, <4>3, <3>1, <3>4, <2>1 DEF After
    <3>5. CASE i < place /\ place < j
      <4>1. /\ j - 1 \in DOMAIN frames /\ i \in DOMAIN frames
            /\ i < j - 1
            /\ frames'[j] = frames[j - 1] /\ frames'[i] = frames[i]
        BY <3>1, <3>5, <2>1
      <4> QED BY <4>1 DEF BufferInv, NewestFirst
    <3>6. CASE place < i
      <4>1. /\ j - 1 \in DOMAIN frames /\ i - 1 \in DOMAIN frames
            /\ i - 1 < j - 1
            /\ frames'[j] = frames[j - 1] /\ frames'[i] = frames[i - 1]
        BY <3>1, <3>6, <2>1, <2>3
      <4> QED BY <4>1 DEF BufferInv, NewestFirst
    <3> QED BY <3>1, <3>2, <3>3, <3>4, <3>5, <3>6, <2>1, <2>3
  <2>4. NewestFirst'
    BY <2>3 DEF NewestFirst, After
  <2> QED BY <2>2, <2>4 DEF BufferInv
<1>2. CASE Pop
  <2>1. /\ frames' \in Seq(Frames)
        /\ Len(frames) \in Nat \ {0}
        /\ Len(frames') = Len(frames) - 1
        /\ \A j \in 1 .. Len(frames) - 1 : frames'[j] = frames[j]
        /\ popped' = frames[Len(frames)]
    BY <1>2, Popped
  <2>2. BufferTypeOK'
    BY <2>1 DEF BufferInv, BufferTypeOK
  <2>3. ASSUME NEW i \in DOMAIN frames', NEW j \in DOMAIN frames', i < j
        PROVE  ~After(frames'[j], frames'[i]) /\ frames'[i] # frames'[j]
    <3>1. /\ i \in DOMAIN frames /\ j \in DOMAIN frames
          /\ frames'[i] = frames[i] /\ frames'[j] = frames[j]
      <4>1. /\ DOMAIN frames = 1 .. Len(frames)
            /\ DOMAIN frames' = 1 .. Len(frames) - 1
        BY <2>1 DEF BufferInv, BufferTypeOK
      <4> QED BY <4>1, <2>1
    <3> QED BY <3>1, <2>3 DEF BufferInv, NewestFirst
  <2>4. NewestFirst'
    BY <2>3 DEF NewestFirst, After
  <2> QED BY <2>2, <2>4 DEF BufferInv
<1>3. CASE UNCHANGED bufferVars
  BY <1>3 DEF bufferVars, BufferInv, BufferTypeOK, NewestFirst, After
<1> QED BY <1>1, <1>2, <1>3 DEF BufferNext

(* Whatever add and pop do and in any order, the list is in order of       *)
(* sending, the newest first, with no frame twice (FrameBuffer.java 38-58  *)
(* finds the place by looking at the list only up to it).                  *)
THEOREM Sorted == BufferSpec => []NewestFirst
<1>1. BufferInv => NewestFirst
  BY DEF BufferInv
<1> QED BY BufferInvInit, BufferInvNext, <1>1, PTL DEF BufferSpec

-----------------------------------------------------------------------------
(* An add puts its frame in the set and takes nothing out.                 *)
LEMMA AddPuts ==
  ASSUME BufferInv, NEW frame \in Frames, Add(frame)
  PROVE  Abstract!Put(frame)
<1> DEFINE place == InsertionIndex(frame)
           before == {frames[i] : i \in DOMAIN frames}
           afterwards == {frames'[i] : i \in DOMAIN frames'}
<1>1. /\ place \in 1 .. Len(frames) + 1
      /\ frames' \in Seq(Frames)
      /\ Len(frames') = Len(frames) + 1
      /\ \A j \in 1 .. Len(frames) + 1 :
           frames'[j] = IF j < place THEN frames[j]
                        ELSE IF j = place THEN frame ELSE frames[j - 1]
      /\ \A i \in DOMAIN frames : frames[i] # frame
  BY Added
<1> HIDE DEF place
<1>2. /\ DOMAIN frames = 1 .. Len(frames) /\ Len(frames) \in Nat
      /\ DOMAIN frames' = 1 .. Len(frames) + 1
  BY <1>1 DEF BufferInv, BufferTypeOK
<1>3. afterwards \subseteq before \cup {frame}
  <2> SUFFICES ASSUME NEW j \in DOMAIN frames'
               PROVE  frames'[j] \in before \cup {frame}
    OBVIOUS
  <2>1. CASE j < place
    BY <2>1, <1>1, <1>2
  <2>2. CASE j = place
    BY <2>2, <1>1, <1>2
  <2>3. CASE place < j
    BY <2>3, <1>1, <1>2
  <2> QED BY <2>1, <2>2, <2>3, <1>1, <1>2
<1>4. frame \in afterwards
  BY <1>1, <1>2
<1>5. before \subseteq afterwards
  <2> SUFFICES ASSUME NEW i \in DOMAIN frames
               PROVE  frames[i] \in afterwards
    OBVIOUS
  <2>1. CASE i < place
    BY <2>1, <1>1, <1>2
  <2>2. CASE ~(i < place)
    <3>1. i + 1 \in DOMAIN frames' /\ frames'[i + 1] = frames[i]
      BY <2>2, <1>1, <1>2
    <3> QED BY <3>1
  <2> QED BY <2>1, <2>2
<1>6. frame \notin before
  BY <1>1
<1>7. UNCHANGED popped
  BY DEF Add
<1> QED BY <1>3, <1>4, <1>5, <1>6, <1>7 DEF Abstract!Put

(* A pop takes an oldest frame out of the set, and no other.               *)
LEMMA PopTakes ==
  ASSUME BufferInv, Pop
  PROVE  \E frame \in Frames : Abstract!Take(frame)
<1> DEFINE before == {frames[i] : i \in DOMAIN frames}
           afterwards == {frames'[i] : i \in DOMAIN frames'}
           last == frames[Len(frames)]
<1> USE SentTimeAssumption
<1>1. /\ frames' \in Seq(Frames)
      /\ Len(frames) \in Nat \ {0}
      /\ Len(frames') = Len(frames) - 1
      /\ \A j \in 1 .. Len(frames) - 1 : frames'[j] = frames[j]
      /\ popped' = last
  BY Popped
<1>2. /\ DOMAIN frames = 1 .. Len(frames)
      /\ DOMAIN frames' = 1 .. Len(frames) - 1
      /\ \A i \in DOMAIN frames : frames[i] \in Frames
  BY <1>1 DEF BufferInv, BufferTypeOK
<1>3. last \in before /\ last \in Frames
  BY <1>1, <1>2
<1>4. \A i \in DOMAIN frames : i < Len(frames) => ~After(last, frames[i]) /\ frames[i] # last
  BY <1>1, <1>2 DEF BufferInv, NewestFirst
<1>5. \A other \in before : SentTime[last] <= SentTime[other]
  <2> SUFFICES ASSUME NEW i \in DOMAIN frames
               PROVE  SentTime[last] <= SentTime[frames[i]]
    OBVIOUS
  <2>1. SentTime[last] \in Nat /\ SentTime[frames[i]] \in Nat
    BY <1>2, <1>3
  <2>2. CASE i = Len(frames)
    BY <2>1, <2>2
  <2>3. CASE i < Len(frames)
    BY <2>1, <2>3, <1>4 DEF After
  <2> QED BY <2>2, <2>3, <1>1, <1>2
<1>6. afterwards = before \ {last}
  <2>1. ASSUME NEW j \in DOMAIN frames'
        PROVE  frames'[j] \in before \ {last}
    <3>1. j \in DOMAIN frames /\ j < Len(frames) /\ frames'[j] = frames[j]
      BY <1>1, <1>2
    <3> QED BY <3>1, <1>4
  <2>2. ASSUME NEW i \in DOMAIN frames, frames[i] # last
        PROVE  frames[i] \in afterwards
    <3>1. i \in DOMAIN frames' /\ frames'[i] = frames[i]
      BY <2>2, <1>1, <1>2
    <3> QED BY <3>1
  <2> QED BY <2>1, <2>2
<1> HIDE DEF last
<1> QED BY <1>1, <1>3, <1>5, <1>6 DEF Abstract!Take

(* The list implements the set of which the one taken is an oldest: add    *)
(* loses no frame and pop returns an oldest of those not yet returned.     *)
THEOREM Implements == BufferSpec => ImplementsSet
<1>1. BufferInit => Abstract!Init
  BY DEF BufferInit, Abstract!Init
<1>2. BufferInv /\ [BufferNext]_bufferVars => [Abstract!Next]_(Abstract!vars)
  <2> SUFFICES ASSUME BufferInv, [BufferNext]_bufferVars
               PROVE  [Abstract!Next]_(Abstract!vars)
    OBVIOUS
  <2>1. ASSUME NEW frame \in Frames, Add(frame)
        PROVE  Abstract!Next
    BY <2>1, AddPuts DEF Abstract!Next
  <2>2. CASE Pop
    BY <2>2, PopTakes DEF Abstract!Next
  <2>3. CASE UNCHANGED bufferVars
    BY <2>3 DEF bufferVars, Abstract!vars
  <2> QED BY <2>1, <2>2, <2>3 DEF BufferNext
<1> QED BY BufferInvInit, BufferInvNext, <1>1, <1>2, PTL DEF BufferSpec, ImplementsSet, Abstract!Spec

-----------------------------------------------------------------------------
(* The client                                                              *)

(* The frames in the buffer.                                               *)
Held == {frames[i] : i \in DOMAIN frames}

(* A frame is in one place at a time: read, in the buffer, or shown; one   *)
(* that came in time has left the reader; and the cameras' clocks are not  *)
(* ahead of the client's.                                                  *)
InOnePlace ==
  /\ \A f \in Held : shown[f] = "no"
  /\ \A f \in inTime : f \in Held \/ shown[f] # "no"
  /\ \A s \in Servers : reader[s].frame # NoFrame =>
       LET f == reader[s].frame IN
       /\ Server[f] = s /\ SentTime[f] <= reader[s].received
       /\ f \notin Held /\ shown[f] = "no"

(* update waits for a frame only while there is none, and for a time only  *)
(* while there is one, the time of that one.                               *)
WaitsRightly ==
  /\ NoOversleep /\ NoLostFrame
  /\ updater.at = "roused" => frames # <<>>

(* The sync time only grows, and what grows it is a delay.                 *)
SyncTimeGrows ==
  /\ currentSyncTimeMs >= SYNC_TIME_MS /\ movingAverage[1] <= longest
  /\ SyncTimeBounded

(* A frame shown synchronously was due, and any in time came before it or  *)
(* were sent after it.                                                     *)
NoneOvertaken ==
  \A g \in Frames : shown[g] = "sync" =>
    /\ SentTime[g] + SYNC_TIME_MS <= now
    /\ \A f \in Held \cap inTime : SentTime[g] <= SentTime[f]

(* Frames of one camera arrive one by one, and leave the buffer in order.  *)
CameraInOrder ==
  /\ \A s \in Servers : reader[s].frame # NoFrame =>
       \A g \in Frames : reader[s].frame < g /\ Server[g] = s => shown[g] = "no" /\ g \notin Held
  /\ \A f, g \in Frames : f < g /\ Server[f] = Server[g] /\ Arrived(g) => Arrived(f)
  /\ \A f \in Held : \A g \in Frames :
       shown[g] # "no" /\ Server[f] = Server[g] => SentTime[g] <= SentTime[f]

(* The inductive invariant.                                                *)
Inv ==
  /\ TypeOK /\ NewestFirst /\ InOnePlace /\ WaitsRightly /\ SyncTimeGrows
  /\ NoneOvertaken /\ CameraInOrder
-----------------------------------------------------------------------------
(* The buffer, as a set of frames.                                         *)
LEMMA HeldFrames ==
  ASSUME BufferInv
  PROVE  Held \subseteq Frames /\ (frames = <<>> <=> Held = {})
<1>1. \A i \in DOMAIN frames : frames[i] \in Frames
  BY DEF BufferInv, BufferTypeOK
<1>2. frames # <<>> => frames[1] \in Held
  BY DEF BufferInv, BufferTypeOK, Held
<1>3. frames = <<>> => Held = {}
  BY DEF Held
<1> QED BY <1>1, <1>2, <1>3 DEF Held

LEMMA Adding ==
  ASSUME BufferInv, NEW f \in Frames, Add(f)
  PROVE  /\ BufferInv' /\ f \notin Held
         /\ Held' = Held \cup {f} /\ popped' = popped
<1>1. BufferInv'
  BY BufferInvNext DEF BufferNext
<1> QED BY <1>1, AddPuts DEF Abstract!Put, Held

LEMMA Popping ==
  ASSUME BufferInv, Pop
  PROVE  /\ BufferInv' /\ popped' = Peek /\ popped' \in Held /\ popped' \in Frames
         /\ \A other \in Held : SentTime[popped'] <= SentTime[other]
         /\ Held' = Held \ {popped'}
<1>1. BufferInv'
  BY BufferInvNext DEF BufferNext
<1>2. PICK f \in Frames : Abstract!Take(f)
  BY PopTakes
<1>3. popped' = Peek
  BY DEF Pop, Peek
<1> QED BY <1>1, <1>2, <1>3 DEF Abstract!Take, Held

(* What of Inv depends on which variables.                                 *)
LEMMA BufferSame == BufferInv /\ UNCHANGED bufferVars => BufferInv' /\ Held' = Held /\ Peek' = Peek
BY DEF BufferInv, BufferTypeOK, bufferVars, Held, Peek, NewestFirst, After

LEMMA PeekIsHeld ==
  ASSUME BufferInv, frames # <<>>
  PROVE  Peek \in Frames /\ SentTime[Peek] \in Nat
BY SentTimeAssumption DEF BufferInv, BufferTypeOK, Peek

-----------------------------------------------------------------------------
LEMMA InvInit == Init => Inv
<1> SUFFICES ASSUME Init PROVE Inv
  OBVIOUS
<1>1. frames = <<>> /\ popped = NoFrame
  BY DEF Init, BufferInit
<1>2. Earliest \in Instants
  <2>1. \E t \in Instants : \A other \in Instants : t <= other
    BY TimesAssumption, LeastNumber, FramesAssumption, SentTimeAssumption
  <2> QED BY <2>1 DEF Earliest
<1>3. frames \in Seq(Frames) /\ DOMAIN frames = {} /\ Held = {}
  BY <1>1 DEF Held
<1>4. TypeOK
  BY <1>1, <1>2, <1>3, TimesAssumption DEF Init, TypeOK
<1>5. NewestFirst
  BY <1>3 DEF NewestFirst
<1>6. InOnePlace /\ WaitsRightly
  BY <1>3 DEF Init, InOnePlace, WaitsRightly, NoOversleep, NoLostFrame
<1>7. SyncTimeGrows
  BY TimesAssumption DEF Init, SyncTimeGrows, SyncTimeBounded, Servers
<1>8. NoneOvertaken
  BY DEF Init, NoneOvertaken
<1>9. CameraInOrder
  <2>1. \A f \in Frames : ~Arrived(f)
    BY <1>3, FramesAssumption, SentTimeAssumption DEF Init, Arrived, Servers
  <2> QED BY <1>3, <2>1 DEF Init, CameraInOrder
<1> QED BY <1>4, <1>5, <1>6, <1>7, <1>8, <1>9 DEF Inv

(* Where each frame is changes in three steps only.                        *)
LEMMA PlacesSame ==
  ASSUME Inv, UNCHANGED <<bufferVars, reader, shown, inTime>>
  PROVE  InOnePlace' /\ CameraInOrder' /\ NewestFirst'
<1>1. BufferInv
  BY DEF Inv, TypeOK, BufferInv, BufferTypeOK
<1>2. Held' = Held /\ BufferInv'
  BY <1>1, BufferSame
<1>3. \A f \in Frames : Arrived(f)' <=> Arrived(f)
  BY DEF Arrived, bufferVars
<1> QED BY <1>2, <1>3 DEF Inv, InOnePlace, CameraInOrder, BufferInv, BufferTypeOK

LEMMA InvTick == Inv /\ Tick => Inv'
<1> SUFFICES ASSUME Inv, Tick PROVE Inv'
  OBVIOUS
<1> USE DEF Inv
<1>1. /\ now' \in Instants /\ now' > now /\ now \in Instants
      /\ UNCHANGED <<bufferVars, reader, delayVars, modeVars, updater, historyVars>>
  BY DEF Tick, TypeOK
<1>2. InOnePlace' /\ CameraInOrder' /\ NewestFirst'
  BY <1>1, PlacesSame DEF historyVars
<1>3. Held' = Held /\ Peek' = Peek
  BY <1>1 DEF bufferVars, Held, Peek
<1>4. TypeOK'
  BY <1>1 DEF TypeOK, bufferVars, delayVars, modeVars, historyVars
<1>5. WaitsRightly' /\ SyncTimeGrows'
  BY <1>1, <1>3 DEF WaitsRightly, NoOversleep, NoLostFrame, SyncTimeGrows, SyncTimeBounded,
     bufferVars, delayVars, historyVars
<1>6. NoneOvertaken'
  BY <1>1, <1>3, TimesAssumption, SentTimeAssumption DEF NoneOvertaken, historyVars
<1> QED BY <1>2, <1>4, <1>5, <1>6

LEMMA InvReceive ==
  ASSUME Inv, NEW f \in Frames, Receive(f)
  PROVE  Inv'
<1> USE DEF Inv
<1>1. /\ UNCHANGED <<now, bufferVars, delayVars, modeVars, updater, historyVars>>
      /\ ~Arrived(f) /\ reader[Server[f]].frame = NoFrame /\ SentTime[f] <= now
      /\ \A g \in Frames : g < f /\ Server[g] = Server[f] => Arrived(g)
      /\ reader' = [reader EXCEPT ![Server[f]] = [frame |-> f, received |-> now]]
  BY DEF Receive
<1>2. Server[f] \in Servers /\ f # NoFrame /\ f \in Nat
  BY FramesAssumption, SentTimeAssumption DEF Servers
<1>3. now \in Nat
  BY TimesAssumption DEF TypeOK
<1>4. /\ reader'[Server[f]].frame = f /\ reader'[Server[f]].received = now
      /\ \A s \in Servers \ {Server[f]} : reader'[s] = reader[s]
  BY <1>1, <1>2 DEF TypeOK
<1>5. TypeOK'
  <2>1. [frame |-> f, received |-> now] \in [frame : Frames \cup {NoFrame}, received : Nat]
    BY <1>3
  <2>2. reader' \in [Servers -> [frame : Frames \cup {NoFrame}, received : Nat]]
    BY <1>1, <1>2, <2>1 DEF TypeOK
  <2> QED BY <1>1, <2>2 DEF TypeOK, bufferVars, delayVars, modeVars, historyVars
<1>6. Held' = Held /\ Peek' = Peek /\ NewestFirst'
  <2>1. BufferInv
    BY DEF TypeOK, BufferInv, BufferTypeOK
  <2> QED BY <1>1, <2>1, BufferSame DEF BufferInv, BufferTypeOK
<1>7. \A g \in Held : g \in Frames /\ Arrived(g)
  BY HeldFrames DEF BufferInv, BufferTypeOK, TypeOK, Arrived, Held
<1>8. shown[f] = "no" /\ f \notin Held
  BY <1>1, <1>7 DEF Arrived
<1>9. InOnePlace'
  BY <1>1, <1>2, <1>4, <1>6, <1>8 DEF InOnePlace, historyVars
<1>10. \A g \in Frames : Arrived(g)' <=> Arrived(g) \/ g = f
  <2>1. ASSUME NEW g \in Frames PROVE Arrived(g)' <=> Arrived(g) \/ g = f
    <3>1. Server[g] \in Servers
      BY FramesAssumption DEF Servers
    <3>2. CASE Server[g] = Server[f]
      BY <1>1, <1>2, <1>4, <3>2, SentTimeAssumption DEF Arrived, bufferVars, historyVars
    <3>3. CASE Server[g] # Server[f]
      BY <1>1, <1>4, <3>1, <3>3 DEF Arrived, bufferVars, historyVars
    <3> QED BY <3>2, <3>3
  <2> QED BY <2>1
<1>11. CameraInOrder'
  <2>1. \A g \in Frames : f < g /\ Server[g] = Server[f] => ~Arrived(g)
    BY <1>1 DEF CameraInOrder
  <2>2. \A s \in Servers : reader'[s].frame # NoFrame =>
          \A g \in Frames : reader'[s].frame < g /\ Server[g] = s => shown[g] = "no" /\ g \notin Held
    <3>1. ASSUME NEW s \in Servers, reader'[s].frame # NoFrame,
                 NEW g \in Frames, reader'[s].frame < g, Server[g] = s
          PROVE  shown[g] = "no" /\ g \notin Held
      <4>1. CASE s = Server[f]
        BY <1>4, <1>7, <2>1, <3>1, <4>1 DEF Arrived
      <4>2. CASE s # Server[f]
        BY <1>4, <3>1, <4>2 DEF CameraInOrder
      <4> QED BY <4>1, <4>2
    <3> QED BY <3>1
  <2>3. \A g, h \in Frames : g < h /\ Server[g] = Server[h] /\ Arrived(h)' => Arrived(g)'
    BY <1>1, <1>10 DEF CameraInOrder
  <2> QED BY <1>1, <1>6, <2>2, <2>3 DEF CameraInOrder, historyVars
<1>12. WaitsRightly' /\ SyncTimeGrows' /\ NoneOvertaken'
  BY <1>1, <1>6 DEF WaitsRightly, NoOversleep, NoLostFrame, SyncTimeGrows, SyncTimeBounded,
     NoneOvertaken, bufferVars, delayVars, historyVars
<1> QED BY <1>5, <1>6, <1>9, <1>11, <1>12

(* notifyAll                                                               *)
LEMMA Waking ==
  ASSUME updater \in [at : {"enter", "empty", "sleep", "roused"}, until : Nat], Wake
  PROVE  /\ updater' \in [at : {"enter", "empty", "sleep", "roused"}, until : Nat]
         /\ updater'.at \notin {"empty", "sleep"}
         /\ updater'.at = "roused" => updater.at \in {"sleep", "roused"}
<1>1. updater' = [updater EXCEPT !.at =
        CASE updater.at = "empty" -> "enter" [] updater.at = "sleep" -> "roused"
          [] OTHER -> updater.at]
  BY DEF Wake
<1>2. CASE updater.at = "empty"
  <2>1. updater' = [updater EXCEPT !.at = "enter"]
    BY <1>1, <1>2
  <2> QED BY <2>1
<1>3. CASE updater.at = "sleep"
  <2>1. updater' = [updater EXCEPT !.at = "roused"]
    BY <1>1, <1>3
  <2> QED BY <2>1, <1>3
<1>4. CASE updater.at \notin {"empty", "sleep"}
  <2>1. updater' = [updater EXCEPT !.at = updater.at]
    BY <1>1, <1>4
  <2> QED BY <2>1, <1>4
<1> QED BY <1>2, <1>3, <1>4

(* The average stays a number of milliseconds, no more than the longest.   *)
LEMMA Averaging ==
  ASSUME NEW average \in Nat, NEW delay \in Nat, NEW result \in Averages(average, delay)
  PROVE  /\ result \in Nat
         /\ \A bound \in Nat : average <= bound /\ delay <= bound => result <= bound
<1> DEFINE sum == 4 * average + delay
<1>1. sum \in Nat
  OBVIOUS
<1>2. result = sum \div 5 \/ (sum % 5 = 0 /\ sum > 0 /\ result = sum \div 5 - 1)
  BY DEF Averages
<1>3. /\ sum \div 5 \in Nat /\ 5 * (sum \div 5) <= sum
      /\ sum % 5 = 0 /\ sum > 0 => sum \div 5 > 0
  <2> HIDE DEF sum
  <2> QED BY <1>1
<1>4. result \in Nat /\ 5 * result <= sum
  <2> HIDE DEF sum
  <2> QED BY <1>1, <1>2, <1>3
<1>5. ASSUME NEW bound \in Nat, average <= bound, delay <= bound PROVE result <= bound
  <2>1. sum <= 5 * bound
    BY <1>5
  <2> HIDE DEF sum
  <2> QED BY <1>1, <1>4, <2>1
<1> QED BY <1>4, <1>5

LEMMA InvAddFrame ==
  ASSUME Inv, NEW s \in Servers, AddFrame(s)
  PROVE  Inv'
<1> USE DEF Inv
<1> DEFINE f == reader[s].frame
           d == reader[s].received - SentTime[f]
<1>1. /\ f # NoFrame /\ Add(f) /\ Wake
      /\ movingAverage' \in {[movingAverage EXCEPT ![s] = average] :
                               average \in Averages(movingAverage[s], d)}
      /\ reader' = [reader EXCEPT ![s].frame = NoFrame, ![s].received = 0]
      /\ inTime' = IF now <= SentTime[f] + SYNC_TIME_MS THEN inTime \cup {f} ELSE inTime
      /\ longest' = IF s = 1 /\ d > longest THEN d ELSE longest
      /\ UNCHANGED <<now, currentSyncTimeMs, modeVars, shown>>
  BY DEF AddFrame, Delay
<1>2. reader[s] \in [frame : Frames \cup {NoFrame}, received : Nat]
  BY DEF TypeOK
<1>3. /\ f \in Frames /\ Server[f] = s /\ SentTime[f] <= reader[s].received
      /\ f \notin Held /\ shown[f] = "no"
  BY <1>1, <1>2 DEF InOnePlace
<1>4. SentTime[f] \in Nat /\ f \in Nat /\ now \in Nat /\ SYNC_TIME_MS \in Nat /\ f # NoFrame
  BY <1>1, <1>3, FramesAssumption, SentTimeAssumption, TimesAssumption DEF TypeOK
<1>5. d \in Nat
  BY <1>2, <1>3, <1>4
<1>6. BufferInv' /\ Held' = Held \cup {f} /\ popped' = popped /\ frames' # <<>>
  <2>1. BufferInv
    BY DEF TypeOK, BufferInv, BufferTypeOK
  <2>2. BufferInv' /\ Held' = Held \cup {f} /\ popped' = popped
    BY <1>1, <1>3, <2>1, Adding
  <2>3. frames' # <<>>
    <3>1. frames' = <<>> => Held' = {}
      BY DEF Held
    <3> QED BY <2>2, <3>1
  <2> QED BY <2>2, <2>3
<1>7. Held \subseteq Frames
  BY HeldFrames DEF BufferInv, BufferTypeOK, TypeOK
<1>8. PICK average \in Averages(movingAverage[s], d) : movingAverage' = [movingAverage EXCEPT ![s] = average]
  BY <1>1
<1>9. /\ average \in Nat
      /\ \A bound \in Nat : movingAverage[s] <= bound /\ d <= bound => average <= bound
  <2>1. movingAverage[s] \in Nat
    BY DEF TypeOK
  <2> HIDE DEF d
  <2> QED BY <1>5, <2>1, Averaging
<1> HIDE DEF d
<1>10. /\ longest' \in Nat /\ longest' >= longest /\ longest \in Nat
       /\ s = 1 => d <= longest'
  BY <1>1, <1>5 DEF TypeOK
<1>11. /\ updater' \in [at : {"enter", "empty", "sleep", "roused"}, until : Nat]
       /\ updater'.at \notin {"empty", "sleep"}
  BY <1>1, Waking DEF TypeOK
<1>12. /\ reader'[s].frame = NoFrame
       /\ \A r \in Servers \ {s} : reader'[r] = reader[r]
       /\ reader' \in [Servers -> [frame : Frames \cup {NoFrame}, received : Nat]]
  BY <1>1, <1>2 DEF TypeOK
<1> HIDE DEF f
<1>13. TypeOK'
  <2>1. movingAverage' \in [Servers -> Nat]
    BY <1>8, <1>9 DEF TypeOK
  <2>2. inTime' \subseteq Frames
    BY <1>1, <1>3 DEF TypeOK
  <2> QED BY <1>1, <1>6, <1>10, <1>11, <1>12, <2>1, <2>2 DEF TypeOK, BufferInv, BufferTypeOK, modeVars
<1>14. InOnePlace'
  BY <1>1, <1>3, <1>6, <1>12 DEF InOnePlace
<1>15. WaitsRightly'
  BY <1>6, <1>11 DEF WaitsRightly, NoOversleep, NoLostFrame
<1>16. SyncTimeGrows'
  <2>1. movingAverage'[1] <= longest'
    <3>1. CASE s = 1
      <4>1. movingAverage[1] <= longest' /\ d <= longest' /\ movingAverage'[1] = average
        BY <1>8, <1>10, <3>1 DEF SyncTimeGrows, TypeOK
      <4> QED BY <1>9, <1>10, <3>1, <4>1
    <3>2. CASE s # 1
      BY <1>8, <1>10, <3>2 DEF SyncTimeGrows, TypeOK, Servers
    <3> QED BY <3>1, <3>2
  <2>2. SyncTimeBounded'
    BY <1>1, <1>10 DEF SyncTimeGrows, SyncTimeBounded, TypeOK
  <2> QED BY <1>1, <2>1, <2>2 DEF SyncTimeGrows
<1>17. NoneOvertaken'
  <2>1. ASSUME NEW g \in Frames, shown[g] = "sync"
        PROVE  /\ SentTime[g] + SYNC_TIME_MS <= now
               /\ \A h \in Held' \cap inTime' : SentTime[g] <= SentTime[h]
    <3>1. SentTime[g] \in Nat /\ SentTime[g] + SYNC_TIME_MS <= now
      BY <2>1, SentTimeAssumption DEF NoneOvertaken
    <3>2. ASSUME NEW h \in Held' \cap inTime' PROVE SentTime[g] <= SentTime[h]
      <4>1. CASE h = f
        <5>1. f \notin inTime
          BY <1>3 DEF InOnePlace
        <5>2. now <= SentTime[f] + SYNC_TIME_MS
          BY <1>1, <3>2, <4>1, <5>1
        <5> QED BY <1>4, <3>1, <4>1, <5>2
      <4>2. CASE h # f
        BY <1>1, <1>6, <2>1, <3>2, <4>2 DEF NoneOvertaken
      <4> QED BY <4>1, <4>2
    <3> QED BY <3>1, <3>2
  <2> QED BY <1>1, <2>1 DEF NoneOvertaken
<1>18. \A g \in Frames : Arrived(g)' <=> Arrived(g)
  <2>1. ASSUME NEW g \in Frames PROVE Arrived(g)' <=> Arrived(g)
    <3>1. Server[g] \in Servers /\ g # NoFrame
      BY FramesAssumption, SentTimeAssumption DEF Servers
    <3>2. (g \in Held' <=> g \in Held \/ g = f) /\ shown' = shown
      BY <1>1, <1>6
    <3>3. CASE Server[g] = s
      <4>1. reader'[Server[g]].frame # g /\ (reader[Server[g]].frame = g <=> f = g)
        BY <1>12, <3>1, <3>3 DEF f
      <4> QED BY <3>2, <4>1 DEF Arrived, Held
    <3>4. CASE Server[g] # s
      <4>1. reader'[Server[g]] = reader[Server[g]] /\ g # f
        BY <1>3, <1>12, <3>1, <3>4
      <4> QED BY <3>2, <4>1 DEF Arrived, Held
    <3> QED BY <3>3, <3>4
  <2> QED BY <2>1
<1>19. CameraInOrder'
  <2>1. \A r \in Servers : reader'[r].frame # NoFrame =>
          \A g \in Frames : reader'[r].frame < g /\ Server[g] = r => shown[g] = "no" /\ g \notin Held'
    BY <1>3, <1>6, <1>12 DEF CameraInOrder
  <2>2. \A g \in Frames : shown[g] # "no" /\ Server[f] = Server[g] => SentTime[g] <= SentTime[f]
    <3>1. ASSUME NEW g \in Frames, shown[g] # "no", Server[f] = Server[g]
          PROVE  SentTime[g] <= SentTime[f]
      <4>1. g # f /\ ~(f < g) /\ g \in Nat
        BY <1>1, <1>3, <3>1, FramesAssumption DEF CameraInOrder, f
      <4>2. g < f
        BY <4>1, <1>4
      <4> QED BY <1>3, <3>1, <4>2, FramesAssumption
    <3> QED BY <3>1
  <2> QED BY <1>1, <1>6, <1>18, <2>1, <2>2 DEF CameraInOrder
<1> QED BY <1>6, <1>13, <1>14, <1>15, <1>16, <1>17, <1>19 DEF BufferInv, BufferTypeOK

(* A frame is shown: what holds if what is decided with it does.           *)
LEMMA Showing ==
  ASSUME Inv, NEW branch \in {"sync", "async"}, Show(branch),
         UNCHANGED <<now, reader, movingAverage, inTime, longest, syncAuto>>,
         currentState' \in BOOLEAN, currentSyncTimeMs' \in Nat, SyncTimeGrows',
         branch = "sync" => SentTime[Peek] + SYNC_TIME_MS <= now
  PROVE  Inv'
<1> USE DEF Inv
<1> DEFINE p == popped'
<1>1. Pop /\ shown' = [shown EXCEPT ![p] = branch] /\ updater' = [at |-> "enter", until |-> 0]
  BY DEF Show
<1>2. /\ BufferInv' /\ p = Peek /\ p \in Held /\ p \in Frames
      /\ \A other \in Held : SentTime[p] <= SentTime[other]
      /\ Held' = Held \ {p}
  <2>1. BufferInv
    BY DEF TypeOK, BufferInv, BufferTypeOK
  <2> QED BY <1>1, <2>1, Popping
<1>3. Held \subseteq Frames
  BY HeldFrames DEF BufferInv, BufferTypeOK, TypeOK
<1> HIDE DEF p
<1>4. \A f \in Frames : shown'[f] = IF f = p THEN branch ELSE shown[f]
  BY <1>1, <1>2 DEF TypeOK
<1>5. shown[p] = "no" /\ branch # "no"
  BY <1>2 DEF InOnePlace
<1>6. TypeOK'
  <2>1. shown' \in [Frames -> {"no", "sync", "async"}]
    BY <1>1, <1>2 DEF TypeOK
  <2>2. updater' \in [at : {"enter", "empty", "sleep", "roused"}, until : Nat]
    BY <1>1
  <2> QED BY <1>2, <2>1, <2>2 DEF TypeOK, BufferInv, BufferTypeOK
<1>7. InOnePlace'
  <2>1. \A f \in Held' : shown'[f] = "no"
    BY <1>2, <1>3, <1>4 DEF InOnePlace
  <2>2. \A f \in inTime' : f \in Held' \/ shown'[f] # "no"
    BY <1>2, <1>4, <1>5 DEF InOnePlace, TypeOK
  <2>3. \A s \in Servers : reader[s].frame # NoFrame =>
          /\ reader[s].frame \in Frames /\ reader[s].frame # p
          /\ reader[s].frame \notin Held'
    BY <1>2 DEF InOnePlace, TypeOK
  <2> QED BY <1>4, <2>1, <2>2, <2>3 DEF InOnePlace
<1>8. WaitsRightly'
  BY <1>1 DEF WaitsRightly, NoOversleep, NoLostFrame
<1>9. NoneOvertaken'
  BY <1>2, <1>3, <1>4 DEF NoneOvertaken
<1>10. \A f \in Frames : Arrived(f)' <=> Arrived(f)
  <2>1. \A f \in Frames : (f \in Held' \/ shown'[f] # "no") <=> (f \in Held \/ shown[f] # "no")
    BY <1>2, <1>4, <1>5
  <2> QED BY <2>1 DEF Arrived, Held
<1>11. CameraInOrder'
  <2>1. \A s \in Servers : reader[s].frame # NoFrame =>
          \A g \in Frames : reader[s].frame < g /\ Server[g] = s => shown'[g] = "no" /\ g \notin Held'
    BY <1>2, <1>4 DEF CameraInOrder
  <2>2. \A f \in Held' : \A g \in Frames :
          shown'[g] # "no" /\ Server[f] = Server[g] => SentTime[g] <= SentTime[f]
    BY <1>2, <1>4 DEF CameraInOrder
  <2> QED BY <1>10, <2>1, <2>2 DEF CameraInOrder
<1> QED BY <1>2, <1>6, <1>7, <1>8, <1>9, <1>11 DEF BufferInv, BufferTypeOK

(* A step that leaves the buffer and the frames where they are.            *)
LEMMA Staying ==
  ASSUME Inv, UNCHANGED <<now, bufferVars, reader, movingAverage, historyVars>>,
         updater' \in [at : {"enter", "empty", "sleep", "roused"}, until : Nat],
         currentState' \in BOOLEAN, syncAuto' \in BOOLEAN, currentSyncTimeMs' \in Nat,
         SyncTimeGrows', WaitsRightly'
  PROVE  Inv'
<1> USE DEF Inv
<1>1. InOnePlace' /\ CameraInOrder' /\ NewestFirst'
  BY PlacesSame DEF historyVars
<1>2. TypeOK'
  BY DEF TypeOK, bufferVars, historyVars
<1>3. Held' = Held
  BY DEF Held, bufferVars
<1>4. NoneOvertaken'
  BY <1>3 DEF NoneOvertaken, historyVars
<1> QED BY <1>1, <1>2, <1>4

LEMMA GrowingSyncTime ==
  ASSUME Inv
  PROVE  /\ GrownSyncTime \in Nat /\ GrownSyncTime >= currentSyncTimeMs
         /\ GrownSyncTime >= SYNC_TIME_MS
         /\ GrownSyncTime > SYNC_TIME_MS => GrownSyncTime < 2 * longest
<1>1. /\ currentSyncTimeMs \in Nat /\ movingAverage[1] \in Nat /\ longest \in Nat
      /\ currentSyncTimeMs >= SYNC_TIME_MS /\ movingAverage[1] <= longest /\ SYNC_TIME_MS \in Nat
      /\ currentSyncTimeMs > SYNC_TIME_MS => currentSyncTimeMs < 2 * longest
  BY TimesAssumption DEF Inv, TypeOK, Servers, SyncTimeGrows, SyncTimeBounded
<1> QED BY <1>1 DEF GrownSyncTime

(* The loop of the synchronous branch, with the sync time it has found.    *)
LEMMA InvShowWhenDue ==
  ASSUME Inv, NEW t \in Nat, ShowWhenDue(t), frames # <<>>, currentSyncTimeMs' = t,
         t >= SYNC_TIME_MS, t > SYNC_TIME_MS => t < 2 * longest,
         UNCHANGED <<now, reader, movingAverage, syncAuto, inTime, longest>>
  PROVE  Inv'
<1>1. SentTime[Peek] \in Nat /\ now \in Nat /\ SYNC_TIME_MS \in Nat
  BY PeekIsHeld, TimesAssumption DEF Inv, TypeOK, BufferInv, BufferTypeOK
<1>2. SyncTimeGrows'
  BY DEF Inv, SyncTimeGrows, SyncTimeBounded
<1>3. CASE SentTime[Peek] + t > now
  <2>1. /\ updater' = [at |-> "sleep", until |-> SentTime[Peek] + t]
        /\ UNCHANGED <<bufferVars, currentState, shown>>
    BY <1>3 DEF ShowWhenDue
  <2>2. updater' \in [at : {"enter", "empty", "sleep", "roused"}, until : Nat]
    BY <1>1, <2>1
  <2>3. WaitsRightly'
    BY <2>1 DEF WaitsRightly, NoOversleep, NoLostFrame, Peek, bufferVars
  <2>4. currentState' \in BOOLEAN /\ syncAuto' \in BOOLEAN
    BY <2>1 DEF Inv, TypeOK
  <2>5. UNCHANGED <<now, bufferVars, reader, movingAverage, historyVars>>
    BY <2>1 DEF historyVars
  <2> QED BY <1>2, <2>2, <2>3, <2>4, <2>5, Staying
<1>4. CASE ~(SentTime[Peek] + t > now)
  <2>1. /\ Show("sync")
        /\ currentState' = (currentState /\ ~(syncAuto /\ Difference > SYNC_TIME_MS + SYNC_TIME_HYSTERESIS_MS))
    BY <1>4 DEF ShowWhenDue
  <2>2. currentState' \in BOOLEAN
    BY <2>1
  <2>3. SentTime[Peek] + SYNC_TIME_MS <= now
    BY <1>1, <1>4
  <2> QED BY <1>2, <2>1, <2>2, <2>3, Showing
<1> QED BY <1>3, <1>4

LEMMA InvUpdater ==
  ASSUME Inv, Updater
  PROVE  Inv'
<1>t. /\ currentState \in BOOLEAN /\ syncAuto \in BOOLEAN /\ currentSyncTimeMs \in Nat
      /\ updater \in [at : {"enter", "empty", "sleep", "roused"}, until : Nat]
      /\ SyncTimeGrows
  BY DEF Inv, TypeOK
<1>1. CASE UpdateWaitsForFrame
  <2>1. /\ frames = <<>> /\ updater' = [updater EXCEPT !.at = "empty"]
        /\ UNCHANGED <<now, bufferVars, reader, delayVars, modeVars, historyVars>>
    BY <1>1 DEF UpdateWaitsForFrame
  <2>2. updater' \in [at : {"enter", "empty", "sleep", "roused"}, until : Nat] /\ updater'.at = "empty"
    BY <1>t, <2>1
  <2>3. WaitsRightly'
    BY <2>1, <2>2 DEF WaitsRightly, NoOversleep, NoLostFrame, bufferVars
  <2>4. SyncTimeGrows'
    BY <1>t, <2>1 DEF SyncTimeGrows, SyncTimeBounded, delayVars, historyVars
  <2> QED BY <1>t, <2>1, <2>2, <2>3, <2>4, Staying DEF delayVars, modeVars
<1>2. CASE UpdateAsynchronous
  <2>1. /\ Show("async")
        /\ currentState' = (syncAuto /\ Difference < SYNC_TIME_MS - SYNC_TIME_HYSTERESIS_MS)
        /\ UNCHANGED <<now, reader, delayVars, syncAuto, inTime, longest>>
    BY <1>2 DEF UpdateAsynchronous
  <2>2. currentState' \in BOOLEAN
    BY <2>1
  <2>3. SyncTimeGrows' /\ currentSyncTimeMs' \in Nat /\ UNCHANGED movingAverage
    BY <1>t, <2>1 DEF SyncTimeGrows, SyncTimeBounded, delayVars
  <2> QED BY <2>1, <2>2, <2>3, Showing
<1>3. CASE UpdateSynchronous
  <2>1. /\ frames # <<>> /\ currentSyncTimeMs' = GrownSyncTime /\ ShowWhenDue(GrownSyncTime)
        /\ UNCHANGED <<now, reader, movingAverage, syncAuto, inTime, longest>>
    BY <1>3 DEF UpdateSynchronous
  <2> QED BY <2>1, GrowingSyncTime, InvShowWhenDue
<1>4. CASE UpdateWakes
  <2>1. /\ updater.at \in {"roused", "sleep"} /\ ShowWhenDue(currentSyncTimeMs)
        /\ UNCHANGED <<now, reader, delayVars, syncAuto, inTime, longest>>
    BY <1>4 DEF UpdateWakes
  <2>2. frames # <<>>
    BY <2>1 DEF Inv, WaitsRightly, NoOversleep
  <2>3. /\ currentSyncTimeMs' = currentSyncTimeMs /\ UNCHANGED movingAverage
        /\ currentSyncTimeMs >= SYNC_TIME_MS
        /\ currentSyncTimeMs > SYNC_TIME_MS => currentSyncTimeMs < 2 * longest
    BY <1>t, <2>1 DEF SyncTimeGrows, SyncTimeBounded, delayVars
  <2> QED BY <1>t, <2>1, <2>2, <2>3, InvShowWhenDue
<1> QED BY <1>1, <1>2, <1>3, <1>4 DEF Updater

LEMMA InvSettings ==
  ASSUME Inv, (\E on \in BOOLEAN : PressSync(on)) \/ PressAuto \/ ModeChanges
  PROVE  Inv'
<1>t. /\ currentState \in BOOLEAN /\ syncAuto \in BOOLEAN /\ currentSyncTimeMs \in Nat
      /\ updater \in [at : {"enter", "empty", "sleep", "roused"}, until : Nat]
      /\ SyncTimeGrows /\ WaitsRightly
  BY DEF Inv, TypeOK
<1>1. CASE (\E on \in BOOLEAN : PressSync(on)) \/ PressAuto
  <2>1. /\ currentState' \in BOOLEAN /\ syncAuto' \in BOOLEAN
        /\ UNCHANGED <<now, bufferVars, reader, delayVars, updater, historyVars>>
    BY <1>1, <1>t DEF PressSync, PressAuto
  <2>2. SyncTimeGrows' /\ WaitsRightly' /\ currentSyncTimeMs' \in Nat
    BY <1>t, <2>1 DEF SyncTimeGrows, SyncTimeBounded, WaitsRightly, NoOversleep, NoLostFrame, Peek,
       bufferVars, delayVars, historyVars
  <2> QED BY <1>t, <2>1, <2>2, Staying DEF delayVars
<1>2. CASE ModeChanges
  <2>1. /\ Wake /\ UNCHANGED <<now, bufferVars, reader, delayVars, modeVars, historyVars>>
    BY <1>2 DEF ModeChanges
  <2>2. /\ updater' \in [at : {"enter", "empty", "sleep", "roused"}, until : Nat]
        /\ updater'.at \notin {"empty", "sleep"}
        /\ updater'.at = "roused" => updater.at \in {"sleep", "roused"}
    BY <1>t, <2>1, Waking
  <2>3. WaitsRightly'
    BY <1>t, <2>1, <2>2 DEF WaitsRightly, NoOversleep, NoLostFrame, bufferVars
  <2>4. SyncTimeGrows'
    BY <1>t, <2>1 DEF SyncTimeGrows, SyncTimeBounded, delayVars, historyVars
  <2> QED BY <1>t, <2>1, <2>2, <2>3, <2>4, Staying DEF delayVars, modeVars
<1> QED BY <1>1, <1>2

LEMMA InvNext == Inv /\ [Next]_vars => Inv'
<1> SUFFICES ASSUME Inv, [Next]_vars PROVE Inv'
  OBVIOUS
<1>1. CASE UNCHANGED vars
  <2>1. SyncTimeGrows' /\ WaitsRightly'
    BY <1>1 DEF vars, bufferVars, delayVars, historyVars, Inv, SyncTimeGrows, SyncTimeBounded,
       WaitsRightly, NoOversleep, NoLostFrame, Peek
  <2>2. /\ updater' \in [at : {"enter", "empty", "sleep", "roused"}, until : Nat]
        /\ currentState' \in BOOLEAN /\ syncAuto' \in BOOLEAN /\ currentSyncTimeMs' \in Nat
    BY <1>1 DEF vars, delayVars, modeVars, Inv, TypeOK
  <2>3. UNCHANGED <<now, bufferVars, reader, movingAverage, historyVars>>
    BY <1>1 DEF vars, delayVars
  <2> QED BY <2>1, <2>2, <2>3, Staying
<1> QED BY <1>1, InvTick, InvReceive, InvAddFrame, InvUpdater, InvSettings DEF Next

LEMMA InvAlways == Spec => []Inv
BY InvInit, InvNext, PTL DEF Spec

(* What a step that shows a frame does.                                    *)
LEMMA FrameShown ==
  ASSUME Inv, [Next]_vars, NEW f \in Frames, IsShown(f)
  PROVE  /\ f \in Held /\ \A other \in Held : SentTime[f] <= SentTime[other]
         /\ shown'[f] = "sync" => now >= SentTime[f] + currentSyncTimeMs
<1>1. shown' # shown
  BY DEF IsShown
<1>2. ASSUME NEW branch, Show(branch) PROVE /\ f = Peek /\ f \in Held /\ shown'[f] = branch
                                            /\ \A other \in Held : SentTime[f] <= SentTime[other]
  <2>1. Pop /\ shown' = [shown EXCEPT ![popped'] = branch]
    BY <1>2 DEF Show
  <2>2. /\ popped' = Peek /\ popped' \in Held /\ popped' \in Frames
        /\ \A other \in Held : SentTime[popped'] <= SentTime[other]
    BY <2>1, Popping DEF Inv, TypeOK, BufferInv, BufferTypeOK
  <2>3. f = popped'
    BY <2>1, <2>2 DEF IsShown, Inv, TypeOK
  <2> QED BY <2>1, <2>2, <2>3 DEF Inv, TypeOK
<1>3. ASSUME NEW t \in Nat, ShowWhenDue(t), t >= currentSyncTimeMs
      PROVE  /\ Show("sync")
             /\ f = Peek => now >= SentTime[f] + currentSyncTimeMs
  <2>1. ~(SentTime[Peek] + t > now)
    BY <1>1, <1>3 DEF ShowWhenDue
  <2>2. Show("sync")
    BY <2>1, <1>3 DEF ShowWhenDue
  <2>3. SentTime[f] \in Nat /\ now \in Nat /\ currentSyncTimeMs \in Nat
    BY SentTimeAssumption, TimesAssumption DEF Inv, TypeOK
  <2> QED BY <1>3, <2>1, <2>2, <2>3
<1>4. CASE UpdateAsynchronous
  <2>1. Show("async")
    BY <1>4 DEF UpdateAsynchronous
  <2> QED BY <2>1, <1>2
<1>5. CASE UpdateSynchronous
  <2>1. ShowWhenDue(GrownSyncTime)
    BY <1>5 DEF UpdateSynchronous
  <2> QED BY <2>1, <1>2, <1>3, GrowingSyncTime
<1>6. CASE UpdateWakes
  <2>1. ShowWhenDue(currentSyncTimeMs) /\ currentSyncTimeMs \in Nat
    BY <1>6 DEF UpdateWakes, Inv, TypeOK
  <2> QED BY <2>1, <1>2, <1>3
<1>7. UpdateAsynchronous \/ UpdateSynchronous \/ UpdateWakes
  BY <1>1 DEF Next, vars, historyVars, Tick, Receive, AddFrame, Updater, UpdateWaitsForFrame,
     PressSync, PressAuto, ModeChanges
<1> QED BY <1>4, <1>5, <1>6, <1>7

-----------------------------------------------------------------------------
(* TypeOK: averages of truncated products, and times taken from one        *)
(* another, stay numbers of milliseconds.                                  *)
THEOREM TypeCorrect == Spec => []TypeOK
<1>1. Inv => TypeOK
  BY DEF Inv
<1> QED BY InvAlways, <1>1, PTL

(* NoOversleep: update sleeps until the time of the frame at the head of   *)
(* the buffer and no other, whatever comes in while it sleeps.             *)
THEOREM SleepsForTheHead == Spec => []NoOversleep
<1>1. Inv => NoOversleep
  BY DEF Inv, WaitsRightly
<1> QED BY InvAlways, <1>1, PTL

(* NoLostFrame: no notification is lost between addFrame and update.       *)
THEOREM WaitsOnlyWhenEmpty == Spec => []NoLostFrame
<1>1. Inv => NoLostFrame
  BY DEF Inv, WaitsRightly
<1> QED BY InvAlways, <1>1, PTL

(* SyncTimeBounded: the sync time the delays of the first server can make  *)
(* is below twice the longest of them.                                     *)
THEOREM SyncTimeIsBounded == Spec => []SyncTimeBounded
<1>1. Inv => SyncTimeBounded
  BY DEF Inv, SyncTimeGrows
<1> QED BY InvAlways, <1>1, PTL

(* NeverEarly: a frame of the synchronous mode is shown at its time or     *)
(* after it.                                                               *)
THEOREM ShownWhenDue == Spec => NeverEarly
<1>1. Inv /\ [Next]_vars =>
        [\A f \in Frames :
           IsShown(f) /\ shown'[f] = "sync" => now >= SentTime[f] + currentSyncTimeMs]_vars
  BY FrameShown
<1> QED BY InvAlways, <1>1, PTL DEF Spec, NeverEarly

(* InOrderIfInTime: across the two cameras no frame overtakes one that was *)
(* in the client within the sync time.                                     *)
THEOREM NotOvertaken == Spec => InOrderIfInTime
<1>1. ASSUME Inv, [Next]_vars
      PROVE  [\A f, g \in Frames :
                IsShown(f) /\ shown[g] = "sync" /\ SentTime[f] < SentTime[g] => f \notin inTime]_vars
  <2>1. ASSUME NEW f \in Frames, NEW g \in Frames, IsShown(f), shown[g] = "sync",
               SentTime[f] < SentTime[g]
        PROVE  f \notin inTime
    <3>1. f \in Held
      BY <1>1, <2>1, FrameShown
    <3>2. f \in inTime => SentTime[g] <= SentTime[f]
      BY <1>1, <2>1, <3>1 DEF Inv, NoneOvertaken
    <3>3. SentTime[f] \in Nat /\ SentTime[g] \in Nat
      BY SentTimeAssumption
    <3> QED BY <2>1, <3>2, <3>3
  <2> QED BY <2>1
<1> QED BY InvAlways, <1>1, PTL DEF Spec, InOrderIfInTime

(* PerCameraOrder: a camera's frames are shown in the order it sent them.  *)
THEOREM OneCameraInOrder == Spec => PerCameraOrder
<1>1. ASSUME Inv, [Next]_vars
      PROVE  [\A f, g \in Frames :
                IsShown(f) /\ shown[g] # "no" /\ Server[f] = Server[g] => SentTime[g] <= SentTime[f]]_vars
  <2>1. ASSUME NEW f \in Frames, NEW g \in Frames, IsShown(f), shown[g] # "no",
               Server[f] = Server[g]
        PROVE  SentTime[g] <= SentTime[f]
    <3>1. f \in Held
      BY <1>1, <2>1, FrameShown
    <3> QED BY <1>1, <2>1, <3>1 DEF Inv, CameraInOrder
  <2> QED BY <2>1
<1> QED BY InvAlways, <1>1, PTL DEF Spec, PerCameraOrder

(* ImplementsSet: what the readers and the updater do to the buffer, under *)
(* the monitor's lock and in any interleaving, adds each frame once and    *)
(* takes an oldest of those there.                                         *)
THEOREM BufferIsASet == Spec => ImplementsSet
<1>1. Init => BufferInit
  BY DEF Init
<1>2. ASSUME Inv, [Next]_vars PROVE [BufferNext]_bufferVars
  <2>1. ASSUME NEW s \in Servers, AddFrame(s) PROVE BufferNext
    <3>1. reader[s].frame \in Frames
      BY <1>2, <2>1 DEF AddFrame, Inv, TypeOK
    <3> QED BY <2>1, <3>1 DEF AddFrame, BufferNext
  <2>2. ASSUME Updater PROVE [BufferNext]_bufferVars
    BY <2>2 DEF Updater, UpdateWaitsForFrame, UpdateAsynchronous, UpdateSynchronous, UpdateWakes,
       ShowWhenDue, Show, BufferNext
  <2>3. ASSUME Tick \/ (\E f \in Frames : Receive(f)) \/ (\E on \in BOOLEAN : PressSync(on))
                 \/ PressAuto \/ ModeChanges \/ UNCHANGED vars
        PROVE  UNCHANGED bufferVars
    BY <2>3 DEF Tick, Receive, PressSync, PressAuto, ModeChanges, vars
  <2> QED BY <1>2, <2>1, <2>2, <2>3 DEF Next
<1> QED BY InvAlways, <1>1, <1>2, Implements, PTL DEF Spec, BufferSpec
=============================================================================
