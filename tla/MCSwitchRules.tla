--------------------------- MODULE MCSwitchRules ---------------------------
(* Sessions are interchangeable, and so are the numbers of each adapter. *)
EXTENDS SwitchRules, TLC

Symmetry == Permutations(Session) \union Permutations(ClientQp) \union Permutations(UpQp)
=============================================================================
