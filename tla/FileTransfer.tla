---------------------------- MODULE FileTransfer ----------------------------
(***************************************************************************)
(* What a transfer of one file promises, whichever side starts it and      *)
(* however many messages it takes: the copy grows by the next of the blocks *)
(* it is to consist of and by nothing else, and the other side is told that *)
(* the transfer is done only when the copy is whole.  Each protocol says   *)
(* which blocks those are.                                                 *)
(***************************************************************************)
EXTENDS Naturals, Sequences

VARIABLES file,      \* the blocks that the copy is to consist of
          saved,     \* the blocks written to the copy, in order
          acked      \* the other side has been told that the file is saved

vars == <<file, saved, acked>>

Init == saved = <<>> /\ acked = FALSE

Save == /\ Len(saved) < Len(file)
        /\ saved' = Append(saved, file[Len(saved) + 1])
        /\ UNCHANGED <<file, acked>>

Acknowledge == /\ Len(saved) = Len(file)
               /\ acked' = TRUE
               /\ UNCHANGED <<file, saved>>

Next == Save \/ Acknowledge

Spec == Init /\ [][Next]_vars
=============================================================================
