------------------------------ MODULE Channels ------------------------------
(***************************************************************************)
(* How the invariants of the file protocols speak of the messages for an   *)
(* end point, wherever the verbs keep them: in the send queue of its peer, *)
(* on the wire, or received and not polled.  The protocols are lock-step:  *)
(* at any time at most one message is on its way between two peers.        *)
(***************************************************************************)
EXTENDS Verbs

Sent(k)       == [op |-> "SEND", data |-> Text(k), len |-> 1, imm |-> 0]
Written(p, i) == [op |-> "WRITE_IMM", data |-> p, len |-> 1, imm |-> i]
EmptyWrite    == [op |-> "WRITE_IMM", data |-> Nothing, len |-> 0, imm |-> 0]

\* Nothing is on its way to n.
Idle(n) == sq[Peer[n]] = <<>> /\ wire[n] = <<>> /\ rcq[n] = <<>>

\* The only thing on its way to n is the message l: still queued by its peer,
\* in which case its content is that of the region it names; on the wire; or
\* received, in which case its content is in the region that it has filled, r
\* for a SEND.  A message of length 0 has no content.
IsQueued(n, l) ==
  /\ Len(sq[Peer[n]]) = 1 /\ wire[n] = <<>> /\ rcq[n] = <<>>
  /\ LET w == Head(sq[Peer[n]]) IN
       /\ w.op = l.op /\ w.len = l.len /\ w.imm = l.imm
       /\ l.len = 1 => mem[Peer[n]][w.mr] = l.data

IsOnWire(n, l) ==
  /\ sq[Peer[n]] = <<>> /\ Len(wire[n]) = 1 /\ rcq[n] = <<>>
  /\ LET m == Head(wire[n]) IN
       /\ m.op = l.op /\ m.len = l.len /\ m.imm = l.imm
       /\ l.len = 1 => m.data = l.data

Filled(r, l) == IF l.op = "SEND" THEN r ELSE "file_mr"

IsReceived(n, r, l) ==
  /\ sq[Peer[n]] = <<>> /\ wire[n] = <<>> /\ Len(rcq[n]) = 1
  /\ LET c == Head(rcq[n]) IN
       /\ c.op = (IF l.op = "SEND" THEN "RECV" ELSE "RECV_IMM") /\ c.imm = l.imm
       /\ l.len = 1 => mem[n][Filled(r, l)] = l.data

InFlight(n, r, l) == IsQueued(n, l) \/ IsOnWire(n, l) \/ IsReceived(n, r, l)

\* The same, whichever region it has filled.
Coming(n, l) == \E r \in Region : InFlight(n, r, l)

\* All posted receives of n name the region r.
AllPosted(n, r) == \A i \in 1..Len(rq[n]) : rq[n][i] = r

\* A whole chunk in file_mr reaches to its end, at every node.
EndsHeld == \A n \in Node : mem[n]["file_mr"].kind = "chunk" =>
                            mem[n]["file_end"] = mem[n]["file_mr"]

\* Of a file whose last chunk is short, n has kept some chunks: the end of file_mr is
\* that of the last of them or of one after it, and never that of a short chunk.
EndKept(n, kept, chunks) == LET t == mem[n]["file_end"].tail IN
                              t = chunks - 1 \/ (kept <= t /\ t < chunks)

\* A step leaves all that n has alone.
Same(n) == /\ up'[n] = up[n] /\ sq'[n] = sq[n] /\ scq'[n] = scq[n] /\ rq'[n] = rq[n]
           /\ rcq'[n] = rcq[n] /\ mem'[n] = mem[n] /\ wire'[n] = wire[n]

\* How many messages are on their way to n, and whether one with this opcode and
\* immediate value is among them.
Transit(n) == Len(sq[Peer[n]]) + Len(wire[n]) + Len(rcq[n])

Comes(n, o, v) ==
  \/ \E i \in 1..Len(sq[Peer[n]]) : LET w == sq[Peer[n]][i] IN w.op = o /\ w.imm = v
  \/ \E i \in 1..Len(wire[n])     : LET m == wire[n][i] IN m.op = o /\ m.imm = v
  \/ \E i \in 1..Len(rcq[n])      : LET c == rcq[n][i] IN
       c.op = (IF o = "SEND" THEN "RECV" ELSE "RECV_IMM") /\ c.imm = v
=============================================================================
