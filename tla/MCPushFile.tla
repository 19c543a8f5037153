----------------------------- MODULE MCPushFile -----------------------------
(* The push of a file on small instances. *)
EXTENDS PushInTurn

MCPeer == [n \in Node |-> IF n = "client" THEN "server" ELSE "client"]
=============================================================================
