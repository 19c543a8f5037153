----------------------------- MODULE MCSession -----------------------------
(* The four programs a client connects to, on both planes, with faults. *)
EXTENDS Session
=============================================================================
