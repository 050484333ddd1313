----------------------------- MODULE MCSyncMode -----------------------------
(* There is nothing to bound: both threads, all three buttons.             *)
EXTENDS SyncMode
=============================================================================
