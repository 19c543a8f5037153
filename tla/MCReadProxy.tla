---------------------------- MODULE MCReadProxy ----------------------------
(* The proxied read on small instances. *)
EXTENDS ReadProxy

MCPeer == [n \in Node |-> CASE n = "client" -> "proxy" [] n = "proxy" -> "client"
                            [] n = "up1" -> "meta" [] n = "meta" -> "up1"
                            [] n = "up2" -> "file" [] n = "file" -> "up2"]
=============================================================================
