--------------------------- MODULE MotionReader ---------------------------
(***************************************************************************)
(* What a camera's ServerReader promises, free of bytes and frames: it     *)
(* acts on the mode byte of each header once and in the order they were    *)
(* sent, and notes motion when a header brings it after one that did not,  *)
(* which is when it tells the monitor.  A connection that ends inside a    *)
(* header makes it act on a mode byte nobody sent, the last one; it says   *)
(* motion.                                                                 *)
(***************************************************************************)
EXTENDS Sequences

VARIABLES
  headers,     \* the mode bytes under way, as [movie, motionBit]
  motion,      \* the reader's field
  open         \* every mode byte it acted on was sent

vars == <<headers, motion, open>>

Init == headers = <<>> /\ motion = FALSE /\ open = TRUE

Send(h) ==
  /\ open /\ headers' = Append(headers, h)
  /\ UNCHANGED <<motion, open>>

Remembered(h) == (h.motionBit /\ ~motion) \/ (motion /\ h.movie)

Read ==
  /\ open /\ headers # <<>>
  /\ headers' = Tail(headers)
  /\ motion' = Remembered(Head(headers))
  /\ UNCHANGED open

MakeUp ==
  /\ open /\ open' = FALSE
  /\ headers' = <<>> /\ motion' = TRUE

Next == (\E h \in [movie : BOOLEAN, motionBit : BOOLEAN] : Send(h)) \/ Read \/ MakeUp

Spec == Init /\ [][Next]_vars
=============================================================================
