------------------------ MODULE MotionDetect_proofs ------------------------
(***************************************************************************)
(* Proofs about MotionDetect, for frames of any size, any pictures and any *)
(* threshold.                                                              *)
(***************************************************************************)
EXTENDS MotionDetect, WellFoundedInduction, TLAPS

(* The number of rounds of the loops.                                      *)
Rounds == Width * Height

(* A set of numbers that is not empty has a least one.                     *)
LEMMA LeastNumber ==
  ASSUME NEW S \in SUBSET Nat, S # {}
  PROVE  \E n \in S : \A m \in S : n <= m
<1> DEFINE R == OpToRel(<, Nat)
<1>1. IsWellFoundedOn(R, Nat)
  BY NatLessThanWellFounded
<1>2. PICK n \in S : \A m \in S : <<m, n>> \notin R
  <2> HIDE DEF R
  <2> QED BY <1>1, WFMin
<1>3. \A m \in S : ~(m < n)
  BY <1>2 DEF OpToRel
<1> QED BY <1>3

-----------------------------------------------------------------------------
(* Sums of the first n terms                                               *)

(* f has the sums of the terms of d, as far as m.                          *)
IsSum(f, d, m) ==
  /\ f \in [0 .. m -> Int]
  /\ f[0] = 0
  /\ \A n \in 1 .. m : f[n] = f[n - 1] + d[n]

(* There is a function with the sums: one that has no sums as far as m,    *)
(* for the least such m, would have them as far as m - 1.                  *)
LEMMA SumExists ==
  ASSUME NEW N \in Nat, NEW d \in [1 .. N -> Int]
  PROVE  \E f : IsSum(f, d, N)
<1> DEFINE S == {m \in 0 .. N : ~ \E f : IsSum(f, d, m)}
<1> SUFFICES ASSUME S # {}
             PROVE  FALSE
  <2>1. N \in 0 .. N
    OBVIOUS
  <2> QED BY <2>1
<1>1. PICK m \in S : \A k \in S : m <= k
  <2>1. S \in SUBSET Nat
    OBVIOUS
  <2> HIDE DEF S
  <2> QED BY <2>1, LeastNumber
<1>2. CASE m = 0
  <2> DEFINE f == [n \in 0 .. 0 |-> 0]
  <2>1. IsSum(f, d, 0)
    BY DEF IsSum
  <2> QED BY <2>1, <1>1, <1>2
<1>3. CASE m # 0
  <2>1. m \in 1 .. N /\ m - 1 \in 0 .. N /\ m - 1 \notin S
    BY <1>1, <1>3
  <2>2. PICK g : IsSum(g, d, m - 1)
    BY <2>1
  <2> DEFINE f == [n \in 0 .. m |-> IF n = m THEN g[m - 1] + d[m] ELSE g[n]]
  <2>3. f \in [0 .. m -> Int] /\ f[0] = 0
    BY <2>1, <2>2 DEF IsSum
  <2>4. ASSUME NEW n \in 1 .. m
        PROVE  f[n] = f[n - 1] + d[n]
    <3>1. CASE n = m
      BY <3>1, <2>1
    <3>2. CASE n # m
      BY <3>2, <2>1, <2>2 DEF IsSum
    <3> QED BY <3>1, <3>2
  <2>5. IsSum(f, d, m)
    BY <2>3, <2>4 DEF IsSum
  <2> QED BY <2>5, <1>1
<1> QED BY <1>2, <1>3

(* A sum of n terms that are each at least k is at least n * k.            *)
LEMMA SumAtLeast ==
  ASSUME NEW N \in Nat, NEW d \in [1 .. N -> Int], NEW f, IsSum(f, d, N),
         NEW k \in Int, \A n \in 1 .. N : d[n] >= k
  PROVE  f[N] >= N * k
<1> DEFINE S == {m \in 0 .. N : ~(f[m] >= m * k)}
<1> SUFFICES ASSUME S # {}
             PROVE  FALSE
  <2>1. N \in 0 .. N
    OBVIOUS
  <2> QED BY <2>1
<1>1. PICK m \in S : \A j \in S : m <= j
  <2>1. S \in SUBSET Nat
    OBVIOUS
  <2> HIDE DEF S
  <2> QED BY <2>1, LeastNumber
<1>2. m # 0
  BY <1>1 DEF IsSum
<1>3. m \in 1 .. N /\ m - 1 \in 0 .. N /\ m - 1 \notin S
  BY <1>1, <1>2
<1>4. /\ f[m - 1] \in Int /\ f[m - 1] >= (m - 1) * k
      /\ d[m] \in Int /\ d[m] >= k
      /\ f[m] = f[m - 1] + d[m]
  BY <1>3 DEF IsSum
<1>5. (m - 1) * k + k = m * k
  BY <1>3
<1>6. (m - 1) * k \in Int /\ m * k \in Int
  BY <1>3
<1> QED BY <1>1, <1>4, <1>5, <1>6

(* A sum of n terms that are each at most k is at most n * k.              *)
LEMMA SumAtMost ==
  ASSUME NEW N \in Nat, NEW d \in [1 .. N -> Int], NEW f, IsSum(f, d, N),
         NEW k \in Int, \A n \in 1 .. N : d[n] <= k
  PROVE  f[N] <= N * k
<1> DEFINE S == {m \in 0 .. N : ~(f[m] <= m * k)}
<1> SUFFICES ASSUME S # {}
             PROVE  FALSE
  <2>1. N \in 0 .. N
    OBVIOUS
  <2> QED BY <2>1
<1>1. PICK m \in S : \A j \in S : m <= j
  <2>1. S \in SUBSET Nat
    OBVIOUS
  <2> HIDE DEF S
  <2> QED BY <2>1, LeastNumber
<1>2. m # 0
  BY <1>1 DEF IsSum
<1>3. m \in 1 .. N /\ m - 1 \in 0 .. N /\ m - 1 \notin S
  BY <1>1, <1>2
<1>4. /\ f[m - 1] \in Int /\ f[m - 1] <= (m - 1) * k
      /\ d[m] \in Int /\ d[m] <= k
      /\ f[m] = f[m - 1] + d[m]
  BY <1>3 DEF IsSum
<1>5. (m - 1) * k + k = m * k
  BY <1>3
<1>6. (m - 1) * k \in Int /\ m * k \in Int
  BY <1>3
<1> QED BY <1>1, <1>4, <1>5, <1>6

(* A mean is at least what the sum is at least, by the number of terms,    *)
(* and at most what it is at most.                                         *)
LEMMA Mean ==
  ASSUME NEW N \in Nat \ {0}, NEW sum \in Int, NEW k \in Int
  PROVE  /\ sum \div N \in Int
         /\ sum >= N * k => sum \div N >= k
         /\ sum <= N * k => sum \div N <= k
<1> DEFINE q == sum \div N
<1>1. q \in Int /\ N * q <= sum /\ sum < N * q + N
  OBVIOUS
<1> HIDE DEF q
<1>2. CASE q >= k + 1
  <2>1. N * q >= N * (k + 1)
    BY <1>1, <1>2
  <2>2. N * (k + 1) = N * k + N /\ N * k \in Int /\ N * q \in Int
    BY <1>1
  <2> QED BY <1>1, <1>2, <2>1, <2>2 DEF q
<1>3. CASE q <= k - 1
  <2>1. N * q <= N * (k - 1)
    BY <1>1, <1>3
  <2>2. N * (k - 1) = N * k - N /\ N * k \in Int /\ N * q \in Int
    BY <1>1
  <2> QED BY <1>1, <1>3, <2>1, <2>2 DEF q
<1>4. CASE q = k
  BY <1>4 DEF q
<1> QED BY <1>1, <1>2, <1>3, <1>4

-----------------------------------------------------------------------------
(* analyse_frames                                                          *)

LEMMA Sizes ==
  /\ Width \in Nat /\ Width >= 1 /\ Height \in Nat /\ Height >= 1
  /\ HalfByte \in Nat /\ HalfByte >= 1 /\ Rounds \in Nat /\ Rounds >= 1
<1>1. Width \in Nat \ {0} /\ Height \in Nat \ {0} /\ HalfByte \in Nat \ {0}
  BY SizeAssumption
<1>2. Width * Height \in Nat /\ Width * Height >= 1
  BY <1>1
<1> QED BY <1>1, <1>2 DEF Rounds

(* The places looked at are places of the frame: the last one looked at is *)
(* Width + Height - 2, and a frame has (Width - 1) * (Height - 1) more.     *)
LEMMA WatchedPlaces == Watched \subseteq Places
<1>1. PICK w \in Nat : Width = w + 1
  <2>1. Width - 1 \in Nat /\ Width = (Width - 1) + 1
    BY Sizes
  <2> QED BY <2>1
<1>2. PICK h \in Nat : Height = h + 1
  <2>1. Height - 1 \in Nat /\ Height = (Height - 1) + 1
    BY Sizes
  <2> QED BY <2>1
<1>3. Width * Height = w * h + w + h + 1 /\ w * h \in Nat
  BY <1>1, <1>2
<1>4. Width + Height - 2 <= Width * Height - 1
  BY <1>1, <1>2, <1>3
<1> QED BY <1>3, <1>4, <1>1, <1>2 DEF Watched, Places

(* Two bytes differ by no more than a byte has.                            *)
LEMMA Difference ==
  ASSUME NEW cur \in Pictures, NEW prev \in Pictures, NEW pos \in Places
  PROVE  ByteDiff(cur, prev, pos) \in Bytes
<1>1. cur[pos] \in Bytes /\ prev[pos] \in Bytes
  BY PictureAssumption
<1>2. ASSUME NEW byte \in Bytes
      PROVE  Signed(byte) \in Int /\ - HalfByte <= Signed(byte) /\ Signed(byte) < HalfByte
  BY <1>2, Sizes DEF Signed, Bytes
<1> DEFINE c == Signed(cur[pos])
           p == Signed(prev[pos])
<1>3. c \in Int /\ - HalfByte <= c /\ c < HalfByte /\ p \in Int /\ - HalfByte <= p /\ p < HalfByte
  BY <1>1, <1>2
<1>4. ByteDiff(cur, prev, pos) = Abs(c - p)
  BY DEF ByteDiff
<1> HIDE DEF c, p
<1>5. Abs(c - p) \in 0 .. 2 * HalfByte - 1
  BY <1>3, Sizes DEF Abs
<1> QED BY <1>4, <1>5 DEF Bytes

(* Each round compares the bytes of one of the places looked at.           *)
LEMMA RoundWatched ==
  ASSUME NEW cur, NEW prev, NEW n \in 1 .. Rounds
  PROVE  \E pos \in Watched : Round(cur, prev, n) = ByteDiff(cur, prev, pos)
<1> DEFINE i == (n - 1) \div Width
           j == (n - 1) % Width
<1>1. /\ n - 1 \in Nat /\ n - 1 < Height * Width
      /\ Height * Width \in Nat
  BY Sizes DEF Rounds
<1>2. /\ i \in Int /\ j \in Int /\ j >= 0 /\ j <= Width - 1
      /\ n - 1 = Width * i + j
  BY <1>1, Sizes
<1> HIDE DEF i, j
<1>3. i >= 0
  <2> SUFFICES ASSUME i <= -1
               PROVE  FALSE
    BY <1>2
  <2>1. Width * i <= Width * (-1)
    BY <1>2, Sizes
  <2>2. Width * i <= - Width /\ Width * i \in Int
    BY <2>1, <1>2, Sizes
  <2> QED BY <2>2, <1>1, <1>2, Sizes
<1>4. i <= Height - 1
  <2> SUFFICES ASSUME i >= Height
               PROVE  FALSE
    BY <1>2, Sizes
  <2>1. Width * i >= Width * Height /\ Width * Height = Height * Width /\ Width * i \in Int
    BY <1>2, Sizes
  <2> QED BY <2>1, <1>1, <1>2
<1>5. i + j \in Watched
  BY <1>2, <1>3, <1>4, Sizes DEF Watched
<1>6. Round(cur, prev, n) = ByteDiff(cur, prev, i + j)
  BY DEF Round, Position, i, j
<1> QED BY <1>5, <1>6

(* The result is a mean of the differences at the places looked at: it is  *)
(* no less than all of them are no less than, and no more than all of them *)
(* are no more than.                                                       *)
LEMMA Analysed ==
  ASSUME NEW cur \in Pictures, NEW prev \in Pictures
  PROVE  /\ analyse_frames(cur, prev) \in Int
         /\ \A k \in Int :
              /\ (\A pos \in Watched : ByteDiff(cur, prev, pos) >= k)
                   => analyse_frames(cur, prev) >= k
              /\ (\A pos \in Watched : ByteDiff(cur, prev, pos) <= k)
                   => analyse_frames(cur, prev) <= k
<1> DEFINE d == [n \in 1 .. Rounds |-> Round(cur, prev, n)]
           D(f) == [n \in 0 .. Rounds |-> IF n = 0 THEN 0 ELSE f[n - 1] + Round(cur, prev, n)]
           sum == CHOOSE f : f = D(f)
<1>1. d \in [1 .. Rounds -> Int]
  <2> SUFFICES ASSUME NEW n \in 1 .. Rounds
               PROVE  Round(cur, prev, n) \in Int
    OBVIOUS
  <2>1. PICK pos \in Watched : Round(cur, prev, n) = ByteDiff(cur, prev, pos)
    BY RoundWatched
  <2>2. ByteDiff(cur, prev, pos) \in Bytes
    BY WatchedPlaces, Difference
  <2> QED BY <2>1, <2>2, Sizes DEF Bytes
<1>2. sum = D(sum)
  <2>1. PICK f : IsSum(f, d, Rounds)
    BY <1>1, SumExists, Sizes
  <2>2. f = D(f)
    <3>1. f = [n \in 0 .. Rounds |-> f[n]]
      BY <2>1 DEF IsSum
    <3>2. ASSUME NEW n \in 0 .. Rounds
          PROVE  f[n] = IF n = 0 THEN 0 ELSE f[n - 1] + Round(cur, prev, n)
      <4>1. CASE n = 0
        BY <4>1, <2>1 DEF IsSum
      <4>2. CASE n # 0
        <5>1. n \in 1 .. Rounds
          BY <4>2, Sizes
        <5> QED BY <5>1, <4>2, <2>1 DEF IsSum
      <4> QED BY <4>1, <4>2
    <3> QED BY <3>1, <3>2
  <2> QED BY <2>2
<1>3. analyse_frames(cur, prev) = sum[Rounds] \div Rounds
  BY DEF analyse_frames, Rounds
<1> HIDE DEF sum
<1>4. IsSum(sum, d, Rounds)
  <2>1. DOMAIN sum = 0 .. Rounds /\ sum[0] = 0
    BY <1>2, Sizes
  <2>2. ASSUME NEW n \in 1 .. Rounds
        PROVE  sum[n] = sum[n - 1] + d[n]
    <3>1. n \in 0 .. Rounds /\ n # 0 /\ d[n] = Round(cur, prev, n)
      BY Sizes
    <3> QED BY <3>1, <1>2
  <2>3. ASSUME NEW f, IsSum(f, d, Rounds), NEW m \in 0 .. Rounds
        PROVE  sum[m] = f[m]
    <3> DEFINE S == {n \in 0 .. Rounds : sum[n] # f[n]}
    <3> SUFFICES ASSUME S # {}
                 PROVE  FALSE
      OBVIOUS
    <3>1. PICK n \in S : \A k \in S : n <= k
      <4>1. S \in SUBSET Nat
        OBVIOUS
      <4> HIDE DEF S
      <4> QED BY <4>1, LeastNumber
    <3>2. n # 0
      BY <2>1, <2>3, <3>1 DEF IsSum
    <3>3. n \in 1 .. Rounds /\ n - 1 \in 0 .. Rounds /\ n - 1 \notin S
      BY <3>1, <3>2, Sizes
    <3> HIDE DEF d
    <3>4. sum[n] = f[n]
      BY <2>2, <2>3, <3>3 DEF IsSum
    <3> QED BY <3>1, <3>4
  <2>4. PICK f : IsSum(f, d, Rounds)
    BY <1>1, SumExists, Sizes
  <2>5. \A m \in 0 .. Rounds : sum[m] \in Int
    BY <2>3, <2>4 DEF IsSum
  <2>6. sum = [n \in 0 .. Rounds |-> sum[n]]
    BY <1>2
  <2>7. sum \in [0 .. Rounds -> Int]
    BY <2>5, <2>6
  <2> HIDE DEF d
  <2> QED BY <2>1, <2>2, <2>7 DEF IsSum
<1> HIDE DEF d
<1>5. sum[Rounds] \in Int
  BY <1>4, Sizes DEF IsSum
<1>6. ASSUME NEW n \in 1 .. Rounds
      PROVE  \E pos \in Watched : d[n] = ByteDiff(cur, prev, pos)
  <2>1. d[n] = Round(cur, prev, n)
    BY DEF d
  <2> QED BY <2>1, RoundWatched
<1>7. ASSUME NEW k \in Int, \A pos \in Watched : ByteDiff(cur, prev, pos) >= k
      PROVE  analyse_frames(cur, prev) >= k
  <2>1. \A n \in 1 .. Rounds : d[n] >= k
    BY <1>6, <1>7
  <2>2. sum[Rounds] >= Rounds * k
    BY <2>1, <1>1, <1>4, SumAtLeast, Sizes
  <2> QED BY <2>2, <1>3, <1>5, Mean, Sizes
<1>8. ASSUME NEW k \in Int, \A pos \in Watched : ByteDiff(cur, prev, pos) <= k
      PROVE  analyse_frames(cur, prev) <= k
  <2>1. \A n \in 1 .. Rounds : d[n] <= k
    BY <1>6, <1>8
  <2>2. sum[Rounds] <= Rounds * k
    BY <2>1, <1>1, <1>4, SumAtMost, Sizes
  <2> QED BY <2>2, <1>3, <1>5, Mean, Sizes
<1>9. analyse_frames(cur, prev) \in Int
  BY <1>3, <1>5, Mean, Sizes
<1> QED BY <1>7, <1>8, <1>9

LEMMA AnalysedByte ==
  ASSUME NEW cur \in Pictures, NEW prev \in Pictures
  PROVE  analyse_frames(cur, prev) \in Bytes
<1>1. ASSUME NEW pos \in Watched
      PROVE  ByteDiff(cur, prev, pos) >= 0 /\ ByteDiff(cur, prev, pos) <= 2 * HalfByte - 1
  BY WatchedPlaces, Difference, Sizes DEF Bytes
<1>2. 2 * HalfByte - 1 \in Int
  BY Sizes
<1>3. /\ analyse_frames(cur, prev) \in Int
      /\ analyse_frames(cur, prev) >= 0
      /\ analyse_frames(cur, prev) <= 2 * HalfByte - 1
  BY <1>1, <1>2, Analysed
<1> QED BY <1>3, Sizes DEF Bytes

(* More than the threshold everywhere is more in the mean, and a mean of   *)
(* more is more somewhere.                                                 *)
LEMMA AnalysedMotion ==
  ASSUME NEW cur \in Pictures, NEW prev \in Pictures
  PROVE  /\ (\A pos \in Watched : ByteDiff(cur, prev, pos) > MOTION_THRESHOLD)
              => analyse_frames(cur, prev) > MOTION_THRESHOLD
         /\ analyse_frames(cur, prev) > MOTION_THRESHOLD
              => \E pos \in Watched : ByteDiff(cur, prev, pos) > MOTION_THRESHOLD
<1> USE ThresholdAssumption
<1>1. analyse_frames(cur, prev) \in Int
  BY Analysed
<1>2. \A pos \in Watched : ByteDiff(cur, prev, pos) \in Int
  BY WatchedPlaces, Difference, Sizes DEF Bytes
<1>3. ASSUME \A pos \in Watched : ByteDiff(cur, prev, pos) > MOTION_THRESHOLD
      PROVE  analyse_frames(cur, prev) > MOTION_THRESHOLD
  <2>1. \A pos \in Watched : ByteDiff(cur, prev, pos) >= MOTION_THRESHOLD + 1
    BY <1>2, <1>3
  <2>2. analyse_frames(cur, prev) >= MOTION_THRESHOLD + 1
    BY <2>1, Analysed
  <2> QED BY <2>2, <1>1
<1>4. ASSUME \A pos \in Watched : ~(ByteDiff(cur, prev, pos) > MOTION_THRESHOLD)
      PROVE  ~(analyse_frames(cur, prev) > MOTION_THRESHOLD)
  <2>1. \A pos \in Watched : ByteDiff(cur, prev, pos) <= MOTION_THRESHOLD
    BY <1>2, <1>4
  <2>2. analyse_frames(cur, prev) <= MOTION_THRESHOLD
    BY <2>1, Analysed
  <2> QED BY <2>2, <1>1
<1> QED BY <1>3, <1>4

-----------------------------------------------------------------------------
(* The motion thread                                                       *)

(* The thread has the frames it has taken, and the result is of these two  *)
(* until they are freed.                                                   *)
HasFrames ==
  /\ thread \in {"two", "analyse", "test", "free"} => frame_one \in Pictures
  /\ thread \in {"analyse", "test", "free"} => frame_two \in Pictures
  /\ thread = "test" => result = analyse_frames(frame_one, frame_two)

Inv == TypeOK /\ HasFrames

LEMMA InvInit == Init => Inv
<1>1. 0 \in Bytes
  BY Sizes DEF Bytes
<1> QED BY <1>1 DEF Init, Inv, TypeOK, HasFrames, Labels, Modes, MODE_IDLE, MODE_MOVIE

(* Whoever sets the mode, the motion bit is of Movie.                      *)
LEMMA SettingMode ==
  ASSUME TypeOK, NEW mode \in Modes, NEW motion \in BOOLEAN, SetMode(mode, motion),
         motion => mode = MODE_MOVIE
  PROVE  /\ server' \in [mode : Modes, motion : BOOLEAN]
         /\ server'.motion => server'.mode = MODE_MOVIE
BY DEF TypeOK, SetMode

LEMMA InvNext == Inv /\ [Next]_vars => Inv'
<1> SUFFICES ASSUME Inv, [Next]_vars
             PROVE  Inv'
  OBVIOUS
<1> USE DEF Inv, TypeOK, HasFrames, Labels
<1>1. CASE CaptureOne
  BY <1>1 DEF CaptureOne
<1>2. CASE CaptureTwo
  BY <1>2 DEF CaptureTwo
<1>3. CASE Analyse
  <2>1. result' \in Bytes
    BY <1>3, AnalysedByte DEF Analyse
  <2> QED BY <1>3, <2>1 DEF Analyse
<1>4. CASE Test
  <2>1. /\ server' \in [mode : Modes, motion : BOOLEAN]
        /\ server'.motion => server'.mode = MODE_MOVIE
    BY <1>4, SettingMode DEF Test, Modes
  <2> QED BY <1>4, <2>1 DEF Test
<1>5. CASE Free
  BY <1>5 DEF Free
<1>6. ASSUME NEW mode \in Modes, ClientAsks(mode)
      PROVE  Inv'
  <2>1. /\ server' \in [mode : Modes, motion : BOOLEAN]
        /\ server'.motion => server'.mode = MODE_MOVIE
    BY <1>6, SettingMode DEF ClientAsks
  <2> QED BY <1>6, <2>1 DEF ClientAsks
<1>7. CASE UNCHANGED vars
  BY <1>7 DEF vars
<1> QED BY <1>1, <1>2, <1>3, <1>4, <1>5, <1>6, <1>7 DEF Next

LEMMA InvAlways == Spec => []Inv
BY InvInit, InvNext, PTL DEF Spec

(* Every variable keeps to its type, the result to that of a byte.         *)
THEOREM TypeCorrect == Spec => []TypeOK
<1>1. Inv => TypeOK
  BY DEF Inv
<1> QED BY InvAlways, <1>1, PTL

(* Whatever the size of the frames, the sum and the mean of analyse_frames *)
(* (camera.c 57-67) tell motion where it looks from none there.            *)
THEOREM MotionIsFound == Spec => []FoundWhereWatched
<1>1. Inv => FoundWhereWatched
  BY AnalysedMotion DEF Inv, HasFrames, FoundWhereWatched, Moved
<1> QED BY InvAlways, <1>1, PTL

(* The motion bit is set only from Idle, for two frames that differ by     *)
(* more than the threshold (motion_listener.c 18-25).                      *)
THEOREM OnlyMotionSetsTheBit == Spec => BitMeansMotion
<1>1. ASSUME Inv, [Next]_vars, server'.motion, ~server.motion
      PROVE  server.mode = MODE_IDLE /\ \E pos \in Places : Moved(pos)
  <2>1. Test /\ result > MOTION_THRESHOLD /\ SetMode(MODE_MOVIE, TRUE)
    BY <1>1 DEF Next, vars, CaptureOne, CaptureTwo, Analyse, Test, Free, ClientAsks, SetMode
  <2>2. server.mode = MODE_IDLE
    BY <1>1, <2>1 DEF SetMode, Inv, TypeOK, Modes
  <2>3. PICK pos \in Watched : Moved(pos)
    BY <1>1, <2>1, AnalysedMotion DEF Inv, HasFrames, Moved, Test
  <2> QED BY <2>2, <2>3, WatchedPlaces
<1>2. Inv /\ [Next]_vars =>
        [server'.motion /\ ~server.motion =>
           server.mode = MODE_IDLE /\ \E pos \in Places : Moved(pos)]_vars
  BY <1>1
<1> QED BY InvAlways, <1>2, PTL DEF Spec, BitMeansMotion
=============================================================================
