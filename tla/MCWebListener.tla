--------------------------- MODULE MCWebListener ---------------------------
(* Three browsers: one whose request for the picture comes in two parts,   *)
(* one that sends more than a read returns, and one that says STOP.        *)
EXTENDS WebListener

CONSTANTS split, long, stop

MCClients == {split, long, stop}

MCRequest ==
  [c \in MCClients |->
     CASE c = split -> <<{"GET"}, {"image.jpg"}>>
       [] c = long -> <<{"GET", "image.jpg"}, {}, {"STOP"}>>
       [] c = stop -> <<{"GET"}, {"STOP"}>>]
=============================================================================
