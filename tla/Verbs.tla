------------------------------- MODULE Verbs -------------------------------
(***************************************************************************)
(* The RDMA primitives of src/temp/socket_node.py: the memory regions, the *)
(* two work queues and the completion queue that a SocketNode owns, and    *)
(* the unreliable-connected (UC) service under them.  Every file protocol  *)
(* of this project EXTENDS this module and is a sequence of PostRecv,      *)
(* PostSend, PostWrite and Poll... conjuncts, as its Python method is a    *)
(* sequence of calls.                                                      *)
(*                                                                         *)
(* What is abstracted: a payload is a record naming what the bytes are,    *)
(* not the bytes; an immediate value is 0 or 1 (the code only tests it     *)
(* against 0); a scatter/gather length is 0 or 1 (empty or not).           *)
(*                                                                         *)
(* The shared completion queue is kept as two streams, scq (completions of *)
(* transmitted sends, which carry nothing) and rcq (receive completions,   *)
(* in order).  A poll takes from either: the requester and the responder   *)
(* of a queue pair write their completions independently, so the order of  *)
(* a send completion relative to a receive completion is not determined.   *)
(***************************************************************************)
EXTENDS Naturals, Sequences

CONSTANTS Node,     \* the two end points of every queue pair of a protocol
          Peer,     \* Peer[n]: the end point n's queue pair is connected to
          MaxLoss   \* how many messages the UC service may lose in a run

ASSUME VerbsAssumption == /\ Peer \in [Node -> Node]
                          /\ MaxLoss \in Nat

VARIABLES up,    \* up[n]: the queue pair of n exists (not yet close()d)
          sq,    \* sq[n]: posted, not yet transmitted send work requests
          scq,   \* scq[n]: transmitted sends whose completion is not polled
          rq,    \* rq[n]: posted receives, each the region it names
          rcq,   \* rcq[n]: receive completions not polled
          mem,   \* mem[n][r]: what region r of n holds at its beginning;
                 \* "file_end" stands for the end of file_mr
          wire,  \* wire[n]: messages on their way to n
          lost   \* messages lost so far

verbsVars == <<up, sq, scq, rq, rcq, mem, wire, lost>>

-----------------------------------------------------------------------------
Region == {"msg_mr", "recv_mr", "file_mr"}
Part   == Region \union {"file_end"}

\* Of a text only its kind is told.  Of what fills file_mr: the chunk idx that it
\* begins with and the chunk tail that it ends with, 0 for a region that nothing
\* has been written to.
Payload == [kind : {"none", "torn", "begin", "ready", "next", "done", "err",
                    "oserr", "name", "request", "chunk", "short"},
            idx  : Nat, tail : Nat]

Text(k) == [kind |-> k, idx |-> 0, tail |-> 0]
Nothing == Text("none")

\* A chunk of FILE_SIZE bytes, and one that ends before file_mr does.  A protocol
\* that reads as many bytes as were written tells no difference: all its chunks
\* are Chunk(i).
Chunk(i) == [kind |-> "chunk", idx |-> i, tail |-> i]
Short(i) == [kind |-> "short", idx |-> i, tail |-> 0]

\* A whole region that begins with chunk i and ends as chunk t does.
Padded(i, t) == [kind |-> "chunk", idx |-> i, tail |-> t]

\* What a node's memory holds once p has been put at the beginning of region r:
\* only what fills file_mr reaches its end.
Holding(regions, r, p) ==
  [regions EXCEPT ![r] = p,
                  !["file_end"] = IF r = "file_mr" /\ p.kind = "chunk" THEN p ELSE @]

\* What file_mr.read(FILE_SIZE) returns: a short chunk is followed by what was
\* there before.
FileBlock(n) == LET p == mem[n]["file_mr"] IN
                  IF p.kind = "short" THEN Padded(p.idx, mem[n]["file_end"].tail) ELSE p

WorkRequest == [op : {"SEND", "WRITE_IMM"}, mr : Region, len : 0..1, imm : 0..1]
Message     == [op : {"SEND", "WRITE_IMM"}, data : Payload, len : 0..1, imm : 0..1]
Completion  == [op : {"RECV", "RECV_IMM"}, imm : 0..1]

VerbsTypeOK == /\ up   \in [Node -> BOOLEAN]
               /\ sq   \in [Node -> Seq(WorkRequest)]
               /\ scq  \in [Node -> Nat]
               /\ rq   \in [Node -> Seq(Region)]
               /\ rcq  \in [Node -> Seq(Completion)]
               /\ mem  \in [Node -> [Part -> Payload]]
               /\ wire \in [Node -> Seq(Message)]
               /\ lost \in 0..MaxLoss

\* Queue pairs in RTS, nothing posted but the receives of the argument.
VerbsInit(posted) == /\ up   = [n \in Node |-> TRUE]
                     /\ sq   = [n \in Node |-> <<>>]
                     /\ scq  = [n \in Node |-> 0]
                     /\ rq   = posted
                     /\ rcq  = [n \in Node |-> <<>>]
                     /\ mem  = [n \in Node |-> [r \in Part |-> Nothing]]
                     /\ wire = [n \in Node |-> <<>>]
                     /\ lost = 0

-----------------------------------------------------------------------------
(* The calls of a SocketNode, as conjuncts of a protocol action: what it     *)
(* posts to each queue, or else that it posts nothing there, and NoPoll, or  *)
(* a poll and nothing posted.                                                *)

PostRecv(n, r) == rq' = [rq EXCEPT ![n] = Append(@, r)]
NoRecv == UNCHANGED rq

\* post_send and post_write copy the data into the region and queue the
\* request; the region is read again only when the adapter executes it.
Post(n, r, p, w) == /\ mem' = [mem EXCEPT ![n] = Holding(@, r, p)]
                    /\ sq'  = [sq EXCEPT ![n] = Append(@, w)]
NoSend == UNCHANGED <<sq, mem>>

PostSend(n, r, p) == Post(n, r, p, [op |-> "SEND", mr |-> r, len |-> 1, imm |-> 0])

PostWrite(n, r, p, i) ==
  Post(n, r, p, [op |-> "WRITE_IMM", mr |-> r, len |-> 1, imm |-> i])

\* post_write of zero bytes: the region keeps its content, and so will the
\* peer's; imm_data stays 0.
PostEmptyWrite(n, r) ==
  Post(n, r, mem[n][r], [op |-> "WRITE_IMM", mr |-> r, len |-> 0, imm |-> 0])

NoPoll == UNCHANGED <<up, scq, rcq, wire, lost>>

\* poll_cq returns one completion, of a send or of a receive.
PollSend(n) == /\ scq[n] > 0
               /\ scq' = [scq EXCEPT ![n] = @ - 1]
               /\ UNCHANGED <<up, sq, rq, rcq, mem, wire, lost>>

PollRecv(n) == /\ rcq[n] # <<>>
               /\ rcq' = [rcq EXCEPT ![n] = Tail(@)]
               /\ UNCHANGED <<up, sq, scq, rq, mem, wire, lost>>

PollAny(n) == PollSend(n) \/ PollRecv(n)

\* A method goes from one place in its code to another.
Moves(pc, here, next) == pc = here /\ pc' = next

\* It polls until a receive completes, and takes no notice of a send.
AwaitRecv(n, pc, here, next) == \/ Moves(pc, here, here) /\ PollSend(n)
                                \/ Moves(pc, here, next) /\ PollRecv(n)

\* A server's method begins: the receive for the answer, then BEGIN.
Welcome(n) == /\ PostRecv(n, "file_mr")
              /\ PostSend(n, "msg_mr", Text("begin")) /\ NoPoll

\* close() destroys the queue pair: untransmitted sends are flushed.
CloseNode(n) == /\ up'  = [up  EXCEPT ![n] = FALSE]
                /\ sq'  = [sq  EXCEPT ![n] = <<>>]
                /\ scq' = [scq EXCEPT ![n] = 0]
                /\ rq'  = [rq  EXCEPT ![n] = <<>>]
                /\ rcq' = [rcq EXCEPT ![n] = <<>>]
                /\ UNCHANGED <<mem, wire, lost>>

-----------------------------------------------------------------------------
(* The adapter and the network. *)

\* What the adapter of n makes of its oldest send: the payload is read now.
Outgoing(n) == LET w == Head(sq[n]) IN
                 [op |-> w.op, data |-> mem[n][w.mr], len |-> w.len, imm |-> w.imm]

Transmit(n, to, m) == /\ sq[n] # <<>>
                      /\ wire' = [wire EXCEPT ![to] = Append(@, m)]
                      /\ sq'  = [sq EXCEPT ![n] = Tail(@)]
                      /\ scq' = [scq EXCEPT ![n] = @ + 1]
                      /\ UNCHANGED <<up, rq, rcq, mem, lost>>

Execute(n) == Transmit(n, Peer[n], Outgoing(n))

\* A message arrives and finds a receive: a SEND fills the region the receive
\* names, a write with immediate fills file_mr (the region whose key the peer
\* was given) and consumes the receive for its completion only.
Deliver(n) ==
  /\ wire[n] # <<>> /\ up[n] /\ rq[n] # <<>>
  /\ LET m == Head(wire[n])
         r == IF m.op = "SEND" THEN Head(rq[n]) ELSE "file_mr" IN
       /\ mem' = IF m.len = 0 THEN mem ELSE [mem EXCEPT ![n] = Holding(@, r, m.data)]
       /\ rcq' = [rcq EXCEPT ![n] =
                    Append(@, [op  |-> IF m.op = "SEND" THEN "RECV" ELSE "RECV_IMM",
                               imm |-> m.imm])]
  /\ rq'   = [rq EXCEPT ![n] = Tail(@)]
  /\ wire' = [wire EXCEPT ![n] = Tail(@)]
  /\ UNCHANGED <<up, sq, scq, lost>>

\* The message is discarded; of a write, nothing or some packets may already
\* be in file_mr, but not its last.
Discard(n) ==
  /\ wire[n] # <<>>
  /\ wire' = [wire EXCEPT ![n] = Tail(@)]
  /\ mem' \in IF up[n] /\ Head(wire[n]).op = "WRITE_IMM" /\ Head(wire[n]).len = 1
                THEN {mem, [mem EXCEPT ![n]["file_mr"] = Text("torn")]}
                ELSE {mem}
  /\ UNCHANGED <<up, sq, scq, rq, rcq>>

\* UC has no receiver-not-ready retry: without a posted receive, or without a
\* queue pair, the message is silently dropped.
Drop(n) == (~ up[n] \/ rq[n] = <<>>) /\ Discard(n) /\ UNCHANGED lost

\* UC does not retransmit: the network may lose a message.
Lose(n) == lost < MaxLoss /\ lost' = lost + 1 /\ Discard(n)

NicStep(n) == Execute(n) \/ Deliver(n) \/ Drop(n) \/ Lose(n)

-----------------------------------------------------------------------------
(* What the protocols state of their queues. *)

\* The limits a queue pair and its completion queue are made with.
MaxSendWr == 4
MaxRecvWr == 4
Cqe       == 8

\* A receive holds its place from the time it is posted to the time it is polled,
\* a send from the time it is posted to the time its completion is polled.
Receives(n) == Len(rq[n]) + Len(rcq[n])
Sends(n)    == Len(sq[n]) + scq[n]

\* No queue is asked to hold more than it was made for.  The code counts nothing
\* and never polls for a send: its protocols have to keep within the limits.
QueuesFit == \A n \in Node : /\ Sends(n) <= MaxSendWr /\ Receives(n) <= MaxRecvWr
                             /\ scq[n] + Len(rcq[n]) <= Cqe

\* A completion queue in order, but that the completion of a send may come after
\* the answer to what was sent: a poll leaves at most one send behind.
InTurn == \A n \in Node : PollRecv(n) => scq[n] <= 1

\* A message that arrives at a live queue pair finds a posted receive: the
\* receiver-not-ready drop cannot happen.
Ready(n) == wire[n] # <<>> /\ up[n] => rq[n] # <<>>

\* A region whose send is still queued is not overwritten.
SendBufferHeld(n) ==
  \A i \in 1..Len(sq[n]) :
     Len(sq'[n]) >= Len(sq[n]) => mem'[n][sq[n][i].mr] = mem[n][sq[n][i].mr]
=============================================================================
