--------------------------- MODULE MCSwitchedRead ---------------------------
(* The read through the data plane's proxy on small instances. *)
EXTENDS SwitchedRead

MCPeer == [n \in Node |-> CASE n = "client" -> "proxy" [] n = "proxy" -> "client"
                            [] n = "up1" -> "file" [] n = "file" -> "up1"]
=============================================================================
