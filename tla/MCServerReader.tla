---------------------------- MODULE MCServerReader ----------------------------
(* A flag of two bytes; one image that begins with the flag, and one that  *)
(* is a single byte of it.                                                 *)
EXTENDS ServerReader

Flag == <<83, 84>>
Pictures == {<<83, 84>>, <<83>>}
===============================================================================
