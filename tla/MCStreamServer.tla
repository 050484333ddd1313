--------------------------- MODULE MCStreamServer ---------------------------
(* Small instances of StreamServer; the numbers start after the standard   *)
(* descriptors, and there are more than any run of the code can use.       *)
EXTENDS StreamServer

FdNumbers == 3 .. 9
ListenerIds == 1 .. Cardinality(StreamConns) + MaxAcceptFailures + 1
=============================================================================
