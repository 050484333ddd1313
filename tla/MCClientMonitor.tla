-------------------------- MODULE MCClientMonitor --------------------------
(* One camera connected, or both: the two ways main starts the client.     *)
EXTENDS ClientMonitor
=============================================================================
