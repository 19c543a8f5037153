---------------------------- MODULE MCReadDirect ----------------------------
(* The direct read on small instances. *)
EXTENDS ReadDirect

MCPeer == [n \in Node |-> IF n = "client" THEN "file" ELSE "client"]
=============================================================================
