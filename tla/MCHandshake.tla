---------------------------- MODULE MCHandshake ----------------------------
(* The opening rounds of the connection scripts: a word, the attributes, a *)
(* word, a buffer's address and key, a word.                               *)
EXTENDS Handshake

MCScript == <<"word", "info", "word", "info", "word">>
=============================================================================
