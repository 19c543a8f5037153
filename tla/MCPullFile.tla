----------------------------- MODULE MCPullFile -----------------------------
(* The pull of a file on small instances. *)
EXTENDS PullFile

MCPeer == [n \in Node |-> IF n = "client" THEN "server" ELSE "client"]
=============================================================================
