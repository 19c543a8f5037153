----------------------------- MODULE ReadDirect -----------------------------
(***************************************************************************)
(* Reading a file without a proxy: the client's new_pull_file and          *)
(* c_init_send against the SEND_FILE branch of src/temp/server.py, which   *)
(* runs s_receive_file_send on the client's own queue pair.                *)
(*                                                                         *)
(* What differs from the proxied read is the data that the two ends see of *)
(* each other.  The server marks the end of a file with an empty write,    *)
(* which leaves the client's file_mr as it is; the client saves a block at *)
(* every write, that one included.  And the server's handler keeps its     *)
(* node until the client says DONE.                                        *)
(***************************************************************************)
EXTENDS ReadEnds

ASSUME DirectAssumption == Node = {"client", "file"} /\ Peer["client"] = "file"

vars == endsVars

Init == EndsInit

-----------------------------------------------------------------------------
ClientNext == ClientStep /\ UNCHANGED <<runVars, fileVars, swapped>>

\* A method that raises closes the node at once, one that returns leaves it to
\* the client's DONE.
FileNextStep == /\ \/ FileBegin \/ FileStep
                   \/ pcF = "fail" /\ FileClose
                   \/ pcF = "return" /\ pcC = "closed" /\ FileClose
                /\ UNCHANGED <<runVars, clientVars>>

Nic(step) == step /\ UNCHANGED <<runVars, clientVars, fileVars, swapped>>

Next == ClientNext \/ FileNextStep \/ \E n \in Node : Nic(NicStep(n))

Spec == Init /\ [][Next]_vars

\* Both processes run, and the adapters and the network make progress.
FairSpec == /\ Spec
            /\ WF_vars(ClientNext) /\ WF_vars(FileNextStep)
            /\ \A n \in Node : /\ WF_vars(Nic(Execute(n)))
                               /\ WF_vars(Nic(Deliver(n) \/ Drop(n)))

-----------------------------------------------------------------------------
(* Properties. *)

\* The empty write makes the client save once more what its region holds: a
\* finished copy is the file's blocks with the last one repeated, old bytes at its
\* end included, or one block of nothing for an empty file, and no copy is longer.
OneBlockMore == /\ Len(dst) <= size + 1
                /\ Len(dst) = size + 1 =>
                     dst[size + 1] = IF size = 0 THEN Nothing ELSE Block(size)
                /\ doneC <=> Len(dst) = size + 1

\* But for that block the read implements the abstract transfer of the file's
\* blocks: the next one is saved and nothing else, and when DONE is sent all are.
Transfer == INSTANCE FileTransfer
              WITH file <- Blocks,
                   saved <- IF doneC THEN SubSeq(dst, 1, Len(dst) - 1) ELSE dst,
                   acked <- doneC /\ pcC = "closed"
TransferSpec == Transfer!Spec

\* When every message is in time, this is where a direct read ends: with the
\* file and everything closed, if it is empty, or if the server does not stop at
\* its pause and the client signals; otherwise the client waits for ever, with
\* one block or, of a file that cannot be opened, with none, while the server
\* has closed its node (pause), waits for NEXT, or waits for DONE.
ReadOutcome ==
  LET whole == canOpen /\ (size = 0 \/ (~ pause /\ signals)) IN
  []InTime =>
    <>[]/\ pcC = IF whole THEN "closed" ELSE "loop"
        /\ Len(dst) = CASE whole -> size + 1 [] canOpen -> 1 [] OTHER -> 0
        /\ pcF = CASE whole \/ (canOpen /\ pause) -> "closed"
                   [] canOpen -> "wait" [] OTHER -> "return"
=============================================================================
