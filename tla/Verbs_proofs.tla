---------------------------- MODULE Verbs_proofs ----------------------------
(***************************************************************************)
(* Lemmas about the verbs, for any end points: what each call and each step*)
(* of an adapter does to the types, to the messages on their way and to    *)
(* the receives and sends of a node.                                       *)
(***************************************************************************)
EXTENDS Channels, TLAPS

\* Append and Tail, index by index.
LEMMA AppendFacts ==
  ASSUME NEW S, NEW s \in Seq(S), NEW e \in S
  PROVE  /\ Append(s, e) \in Seq(S)
         /\ Len(Append(s, e)) = Len(s) + 1
         /\ \A i \in 1..Len(s) : Append(s, e)[i] = s[i]
         /\ Append(s, e)[Len(s) + 1] = e
         /\ Append(s, e) # <<>>
OBVIOUS

LEMMA TailFacts ==
  ASSUME NEW S, NEW s \in Seq(S), s # <<>>
  PROVE  /\ Len(s) \in Nat /\ Len(s) > 0 /\ 1 \in 1..Len(s)
         /\ Head(s) = s[1] /\ Head(s) \in S
         /\ Tail(s) \in Seq(S)
         /\ Len(Tail(s)) = Len(s) - 1
         /\ \A i \in 1..Len(Tail(s)) : Tail(s)[i] = s[i + 1] /\ i + 1 \in 1..Len(s)
OBVIOUS

\* Every payload the programs write is a payload.
LEMMA PayloadFacts ==
  /\ \A k \in {"none", "torn", "begin", "ready", "next", "done", "err", "oserr", "name",
              "request"} :
        Text(k) \in Payload
  /\ \A i \in Nat : Chunk(i) \in Payload /\ Short(i) \in Payload
BY DEF Text, Chunk, Short, Payload

\* A short chunk, followed by what was there before, is a payload as well.
LEMMA BlockFacts == \A i, t \in Nat : Padded(i, t) \in Payload
BY DEF Padded, Payload

LEMMA LetterFacts ==
  /\ \A k \in {"begin", "ready", "next", "done", "err", "oserr", "name", "request"} :
        Sent(k) \in Message
  /\ \A p \in Payload : \A i \in 0..1 : Written(p, i) \in Message
  /\ EmptyWrite \in Message
BY PayloadFacts DEF Sent, Written, EmptyWrite, Message, Nothing

\* What a region holds, and what the end of file_mr holds, once a payload is put there.
LEMMA HoldingFacts ==
  ASSUME NEW held \in [Part -> Payload], NEW r \in Region, NEW p
  PROVE  /\ DOMAIN Holding(held, r, p) = Part
         /\ Holding(held, r, p)[r] = p
         /\ \A x \in Region \ {r} : Holding(held, r, p)[x] = held[x]
         /\ Holding(held, r, p)["file_end"] =
              IF r = "file_mr" /\ p.kind = "chunk" THEN p ELSE held["file_end"]
         /\ p \in Payload => Holding(held, r, p) \in [Part -> Payload]
<1>1. r \in Part /\ r # "file_end" /\ "file_end" \in Part /\ Region = Part \ {"file_end"}
  BY DEF Region, Part
<1>2. CASE r = "file_mr" /\ p.kind = "chunk"
  <2>1. Holding(held, r, p) = [x \in Part |-> IF x \in {r, "file_end"} THEN p ELSE held[x]]
    BY <1>1, <1>2 DEF Holding
  <2> QED BY <1>1, <1>2, <2>1
<1>3. CASE ~ (r = "file_mr" /\ p.kind = "chunk")
  <2>1. Holding(held, r, p) = [x \in Part |-> IF x = r THEN p ELSE held[x]]
    BY <1>1, <1>3 DEF Holding
  <2> QED BY <1>1, <1>3, <2>1
<1> QED BY <1>2, <1>3

LEMMA HoldingEnds ==
  ASSUME NEW held \in [Part -> Payload], NEW r \in Region, NEW p,
         held["file_mr"].kind = "chunk" => held["file_end"] = held["file_mr"]
  PROVE  Holding(held, r, p)["file_mr"].kind = "chunk" =>
           Holding(held, r, p)["file_end"] = Holding(held, r, p)["file_mr"]
<1>1. "file_mr" \in Region
  BY DEF Region
<1>2. CASE r = "file_mr"
  BY <1>2, HoldingFacts
<1>3. CASE r # "file_mr"
  <2>1. Holding(held, r, p)["file_mr"] = held["file_mr"]
    BY <1>1, <1>3, HoldingFacts
  <2>2. Holding(held, r, p)["file_end"] = held["file_end"]
    BY <1>3, HoldingFacts
  <2> QED BY <2>1, <2>2
<1> QED BY <1>2, <1>3

\* A region read as one block, whatever it holds, is a payload.
LEMMA FileBlockType ==
  ASSUME VerbsTypeOK, NEW n \in Node
  PROVE  FileBlock(n) \in Payload
<1>1. /\ mem[n]["file_mr"] \in Payload /\ mem[n]["file_end"] \in Payload
  BY DEF VerbsTypeOK, Region, Part
<1>2. mem[n]["file_mr"].idx \in Nat /\ mem[n]["file_end"].tail \in Nat
  BY <1>1 DEF Payload
<1> QED BY <1>1, <1>2, BlockFacts DEF FileBlock

-----------------------------------------------------------------------------
(* Type correctness of the verbs. *)

LEMMA PostRecvType ==
  ASSUME VerbsTypeOK, NEW n \in Node, NEW r \in Region, PostRecv(n, r)
  PROVE  rq' \in [Node -> Seq(Region)]
BY AppendFacts DEF VerbsTypeOK, PostRecv

LEMMA PostType ==
  ASSUME VerbsTypeOK, NEW n \in Node, NEW r \in Region, NEW p \in Payload,
         NEW w \in WorkRequest, Post(n, r, p, w)
  PROVE  mem' \in [Node -> [Part -> Payload]] /\ sq' \in [Node -> Seq(WorkRequest)]
<1>1. Holding(mem[n], r, p) \in [Part -> Payload]
  BY HoldingFacts DEF VerbsTypeOK
<1>2. mem' = [mem EXCEPT ![n] = Holding(mem[n], r, p)]
  BY DEF Post
<1>3. mem' \in [Node -> [Part -> Payload]]
  BY <1>1, <1>2 DEF VerbsTypeOK
<1> QED BY <1>3, AppendFacts DEF VerbsTypeOK, Post

LEMMA NicType ==
  ASSUME VerbsTypeOK, NEW n \in Node, NicStep(n)
  PROVE  VerbsTypeOK'
<1> USE DEF VerbsTypeOK
<1>0. Peer[n] \in Node
  BY VerbsAssumption
<1>1. CASE Execute(n)
  <2> DEFINE w == Head(sq[n])
             m == [op |-> w.op, data |-> mem[n][w.mr], len |-> w.len, imm |-> w.imm]
  <2>1. w \in WorkRequest /\ Tail(sq[n]) \in Seq(WorkRequest)
    BY <1>1, TailFacts DEF Execute, Transmit, Outgoing
  <2>2. m \in Message
    BY <2>1 DEF Message, WorkRequest, Part
  <2>3. Append(wire[Peer[n]], m) \in Seq(Message)
    BY <2>2, <1>0, AppendFacts
  <2>4. /\ wire' = [wire EXCEPT ![Peer[n]] = Append(@, m)]
        /\ sq' = [sq EXCEPT ![n] = Tail(@)]
        /\ scq' = [scq EXCEPT ![n] = @ + 1]
        /\ UNCHANGED <<up, rq, rcq, mem, lost>>
    BY <1>1 DEF Execute, Transmit, Outgoing
  <2>5. wire' \in [Node -> Seq(Message)]
    BY <2>3, <2>4, <1>0
  <2>6. sq' \in [Node -> Seq(WorkRequest)]
    BY <2>1, <2>4
  <2>7. scq' \in [Node -> Nat]
    BY <2>4
  <2> QED BY <2>4, <2>5, <2>6, <2>7
<1>2. CASE Deliver(n)
  <2> DEFINE m == Head(wire[n])
             r == IF m.op = "SEND" THEN Head(rq[n]) ELSE "file_mr"
             c == [op |-> IF m.op = "SEND" THEN "RECV" ELSE "RECV_IMM", imm |-> m.imm]
  <2>1. m \in Message /\ Tail(wire[n]) \in Seq(Message)
    BY <1>2, TailFacts DEF Deliver
  <2>2. r \in Region /\ Tail(rq[n]) \in Seq(Region)
    BY <1>2, TailFacts DEF Deliver, Region
  <2>3. c \in Completion /\ m.data \in Payload
    BY <2>1 DEF Completion, Message
  <2>4. Append(rcq[n], c) \in Seq(Completion)
    BY <2>3, AppendFacts
  <2>5. /\ mem' = IF m.len = 0 THEN mem ELSE [mem EXCEPT ![n] = Holding(mem[n], r, m.data)]
        /\ rcq' = [rcq EXCEPT ![n] = Append(@, c)]
        /\ rq' = [rq EXCEPT ![n] = Tail(@)]
        /\ wire' = [wire EXCEPT ![n] = Tail(@)]
        /\ UNCHANGED <<up, sq, scq, lost>>
    BY <1>2 DEF Deliver
  <2>6. Holding(mem[n], r, m.data) \in [Part -> Payload]
    BY <2>2, <2>3, HoldingFacts
  <2> HIDE DEF m, r, c
  <2> QED BY <2>1, <2>2, <2>4, <2>5, <2>6
<1>3. ASSUME Discard(n) PROVE /\ wire' \in [Node -> Seq(Message)]
                              /\ mem' \in [Node -> [Part -> Payload]]
                              /\ UNCHANGED <<up, sq, scq, rq, rcq>>
  <2>1. Tail(wire[n]) \in Seq(Message)
    BY <1>3, TailFacts DEF Discard
  <2>2. mem' \in {mem, [mem EXCEPT ![n]["file_mr"] = Text("torn")]}
    BY <1>3 DEF Discard
  <2>3. [mem EXCEPT ![n]["file_mr"] = Text("torn")] \in [Node -> [Part -> Payload]]
    BY PayloadFacts DEF Region, Part
  <2> QED BY <2>1, <2>2, <2>3, <1>3 DEF Discard
<1>4. CASE Drop(n)
  BY <1>3, <1>4 DEF Drop
<1>5. CASE Lose(n)
  BY <1>3, <1>5, VerbsAssumption DEF Lose
<1> QED BY <1>1, <1>2, <1>4, <1>5 DEF NicStep

LEMMA SendType ==
  ASSUME VerbsTypeOK, NEW n \in Node, NEW r \in Region, NEW p \in Payload,
         PostSend(n, r, p)
  PROVE  mem' \in [Node -> [Part -> Payload]] /\ sq' \in [Node -> Seq(WorkRequest)]
<1>1. [op |-> "SEND", mr |-> r, len |-> 1, imm |-> 0] \in WorkRequest
  BY DEF WorkRequest
<1> QED BY <1>1, PostType DEF PostSend

LEMMA WriteType ==
  ASSUME VerbsTypeOK, NEW n \in Node, NEW r \in Region, NEW p \in Payload, NEW i \in 0..1,
         PostWrite(n, r, p, i)
  PROVE  mem' \in [Node -> [Part -> Payload]] /\ sq' \in [Node -> Seq(WorkRequest)]
<1>1. [op |-> "WRITE_IMM", mr |-> r, len |-> 1, imm |-> i] \in WorkRequest
  BY DEF WorkRequest
<1> QED BY <1>1, PostType DEF PostWrite

LEMMA EmptyWriteType ==
  ASSUME VerbsTypeOK, NEW n \in Node, NEW r \in Region, PostEmptyWrite(n, r)
  PROVE  mem' \in [Node -> [Part -> Payload]] /\ sq' \in [Node -> Seq(WorkRequest)]
<1>1. [op |-> "WRITE_IMM", mr |-> r, len |-> 0, imm |-> 0] \in WorkRequest
  BY DEF WorkRequest
<1>2. mem[n][r] \in Payload
  BY DEF VerbsTypeOK, Part
<1> QED BY <1>1, <1>2, PostType DEF PostEmptyWrite

LEMMA PollType ==
  ASSUME VerbsTypeOK, NEW n \in Node, PollAny(n)
  PROVE  VerbsTypeOK'
<1> USE DEF VerbsTypeOK
<1>1. CASE PollSend(n)
  <2>1. scq' \in [Node -> Nat]
    BY <1>1 DEF PollSend
  <2> QED BY <1>1, <2>1 DEF PollSend
<1>2. CASE PollRecv(n)
  <2>1. Tail(rcq[n]) \in Seq(Completion)
    BY <1>2, TailFacts DEF PollRecv
  <2> QED BY <1>2, <2>1 DEF PollRecv
<1> QED BY <1>1, <1>2 DEF PollAny

LEMMA CloseType ==
  ASSUME VerbsTypeOK, NEW n \in Node, CloseNode(n)
  PROVE  VerbsTypeOK'
BY DEF VerbsTypeOK, CloseNode

LEMMA EmptyFacts ==
  ASSUME NEW S, NEW s \in Seq(S)
  PROVE  Len(s) \in Nat /\ (Len(s) = 0 <=> s = <<>>)
OBVIOUS

LEMMA AppendToEmpty == \A w : Append(<<>>, w) = <<w>>
OBVIOUS

-----------------------------------------------------------------------------
(* What the steps do to the queues of each node. *)

\* Every end point has one peer.
Paired == \A n \in Node : Peer[n] \in Node /\ Peer[n] # n /\ Peer[Peer[n]] = n

LEMMA NodeTypes ==
  ASSUME VerbsTypeOK, NEW n \in Node
  PROVE  /\ sq[n] \in Seq(WorkRequest) /\ wire[n] \in Seq(Message)
         /\ rcq[n] \in Seq(Completion) /\ rq[n] \in Seq(Region)
         /\ scq[n] \in Nat /\ mem[n] \in [Part -> Payload]
         /\ Len(sq[n]) \in Nat /\ Len(wire[n]) \in Nat
         /\ Len(rcq[n]) \in Nat /\ Len(rq[n]) \in Nat
BY DEF VerbsTypeOK

\* How the sequences of one node differ after a step from those before it.
LEMMA ExecuteEffect ==
  ASSUME VerbsTypeOK, NEW k \in Node, Execute(k), Peer[k] \in Node
  PROVE  /\ sq[k] # <<>> /\ sq'[k] = Tail(sq[k])
         /\ wire'[Peer[k]] = Append(wire[Peer[k]], Outgoing(k))
         /\ scq'[k] = scq[k] + 1
         /\ \A n \in Node \ {k} : sq'[n] = sq[n] /\ scq'[n] = scq[n]
         /\ \A n \in Node \ {Peer[k]} : wire'[n] = wire[n]
         /\ UNCHANGED <<up, rq, rcq, mem, lost>>
BY DEF VerbsTypeOK, Execute, Transmit

Arriving(k) == Head(wire[k])

LEMMA DeliverEffect ==
  ASSUME VerbsTypeOK, NEW k \in Node, Deliver(k)
  PROVE  LET r == IF Arriving(k).op = "SEND" THEN Head(rq[k]) ELSE "file_mr" IN
         /\ wire[k] # <<>> /\ wire'[k] = Tail(wire[k])
         /\ rq[k] # <<>> /\ rq'[k] = Tail(rq[k])
         /\ rcq'[k] = Append(rcq[k],
                       [op |-> IF Arriving(k).op = "SEND" THEN "RECV" ELSE "RECV_IMM",
                        imm |-> Arriving(k).imm])
         /\ Arriving(k).len # 0 => mem'[k][r] = Arriving(k).data
         /\ \A n \in Node \ {k} : /\ wire'[n] = wire[n] /\ rq'[n] = rq[n]
                                  /\ rcq'[n] = rcq[n] /\ mem'[n] = mem[n]
         /\ UNCHANGED <<up, sq, scq, lost>>
<1> DEFINE r == IF Arriving(k).op = "SEND" THEN Head(rq[k]) ELSE "file_mr"
<1>1. r \in Region
  BY NodeTypes, TailFacts DEF Deliver, Region
<1>2. /\ wire[k] # <<>> /\ wire' = [wire EXCEPT ![k] = Tail(@)]
      /\ rq[k] # <<>> /\ rq' = [rq EXCEPT ![k] = Tail(@)]
      /\ rcq' = [rcq EXCEPT ![k] = Append(@,
                  [op |-> IF Arriving(k).op = "SEND" THEN "RECV" ELSE "RECV_IMM",
                   imm |-> Arriving(k).imm])]
      /\ mem' = IF Arriving(k).len = 0 THEN mem 
                                            ELSE [mem EXCEPT ![k] =
                                                    Holding(mem[k], r, Arriving(k).data)]
      /\ UNCHANGED <<up, sq, scq, lost>>
  BY DEF Deliver, Arriving
<1>3. /\ DOMAIN wire = Node /\ DOMAIN rq = Node /\ DOMAIN rcq = Node /\ DOMAIN mem = Node
      /\ mem[k] \in [Part -> Payload] /\ "file_mr" \in Region
  BY DEF VerbsTypeOK, Region
<1> HIDE DEF r, Arriving
<1>4. Arriving(k).len # 0 => mem'[k][r] = Arriving(k).data
  <2>1. Arriving(k).len # 0 => mem'[k] = Holding(mem[k], r, Arriving(k).data)
    BY <1>2, <1>3
  <2> DEFINE h == mem[k]
             d == Arriving(k).data
  <2>2. Holding(h, r, d)[r] = d
    <3>1. h \in [Part -> Payload]
      BY <1>3
    <3> HIDE DEF h, d
    <3> QED BY <1>1, <3>1, HoldingFacts
  <2> QED BY <2>1, <2>2
<1>5. \A n \in Node \ {k} : mem'[n] = mem[n]
  BY <1>2, <1>3
<1>6. \A n \in Node \ {k} : wire'[n] = wire[n] /\ rq'[n] = rq[n] /\ rcq'[n] = rcq[n]
  BY <1>2, <1>3
<1> QED BY <1>2, <1>3, <1>4, <1>5, <1>6 DEF r

\* What arrives fills the region it is for, and reaches the end of file_mr if it is
\* a chunk written there.
LEMMA DeliverHeld ==
  ASSUME VerbsTypeOK, NEW k \in Node, Deliver(k)
  PROVE  LET r == IF Arriving(k).op = "SEND" THEN Head(rq[k]) ELSE "file_mr" IN
         /\ r \in Region
         /\ mem'[k] = IF Arriving(k).len = 0 THEN mem[k]
                                             ELSE Holding(mem[k], r, Arriving(k).data)
<1> DEFINE r == IF Arriving(k).op = "SEND" THEN Head(rq[k]) ELSE "file_mr"
<1>1. r \in Region
  BY NodeTypes, TailFacts DEF Deliver, Region
<1>2. mem' = IF Arriving(k).len = 0 THEN mem ELSE [mem EXCEPT ![k] =
                                                    Holding(mem[k], r, Arriving(k).data)]
  BY DEF Deliver, Arriving
<1>3. DOMAIN mem = Node
  BY DEF VerbsTypeOK
<1> HIDE DEF r, Arriving
<1>4. mem'[k] = IF Arriving(k).len = 0 THEN mem[k] ELSE Holding(mem[k], r, Arriving(k).data)
  BY <1>2, <1>3
<1> QED BY <1>1, <1>4 DEF r

LEMMA DiscardEffect ==
  ASSUME VerbsTypeOK, NEW k \in Node, Discard(k)
  PROVE  /\ wire[k] # <<>> /\ wire'[k] = Tail(wire[k])
         /\ \A n \in Node \ {k} : wire'[n] = wire[n] /\ mem'[n] = mem[n]
         /\ mem'[k]["file_end"] = mem[k]["file_end"]
         /\ mem'[k]["file_mr"] \in {mem[k]["file_mr"], Text("torn")}
         /\ UNCHANGED <<up, sq, scq, rq, rcq>>
<1>1. mem[k] \in [Part -> Payload] /\ "file_end" \in Part /\ "file_mr" \in Part
  BY DEF VerbsTypeOK, Region, Part
<1>2. mem' = mem \/ mem' = [mem EXCEPT ![k]["file_mr"] = Text("torn")]
  BY DEF Discard
<1> QED BY <1>1, <1>2 DEF VerbsTypeOK, Discard

\* Without a message for n on the wire, or with none for anybody, an adapter's
\* step leaves what n has received alone; nothing for n stays nothing; and a
\* receive is only used for a completion, a send for its own.
LEMMA NicKeeps ==
  ASSUME VerbsTypeOK, Paired, NEW k \in Node, NicStep(k), NEW n \in Node
  PROVE  /\ up' = up
         /\ Receives(n)' = Receives(n)
         /\ Sends(n)' = Sends(n)
         /\ \A r : AllPosted(n, r) => AllPosted(n, r)'
         /\ Idle(n) => Idle(n)'
         /\ wire[n] = <<>> => mem'[n] = mem[n] /\ rq'[n] = rq[n] /\ rcq'[n] = rcq[n]
<1> DEFINE P == /\ up' = up
                /\ Receives(n)' = Receives(n)
                /\ Sends(n)' = Sends(n)
                /\ \A r : AllPosted(n, r) => AllPosted(n, r)'
                /\ Idle(n) => Idle(n)'
                /\ wire[n] = <<>> => mem'[n] = mem[n] /\ rq'[n] = rq[n] /\ rcq'[n] = rcq[n]
<1>0. Peer[n] \in Node /\ Peer[k] \in Node /\ Peer[n] # n /\ (Peer[k] = n <=> k = Peer[n])
  BY DEF Paired
<1>1. CASE Execute(k)
  <2>1. Sends(n)' = Sends(n)
    <3>1. CASE n = k
      <4>1. sq[n] \in Seq(WorkRequest) /\ scq[n] \in Nat
        BY NodeTypes
      <4>2. sq[n] # <<>> /\ sq'[n] = Tail(sq[n]) /\ scq'[n] = scq[n] + 1
        BY <1>1, <1>0, <3>1, ExecuteEffect
      <4>3. Len(sq'[n]) = Len(sq[n]) - 1 /\ Len(sq[n]) \in Nat
        BY <4>1, <4>2, TailFacts
      <4> QED BY <4>1, <4>2, <4>3 DEF Sends
    <3>2. CASE n # k
      BY <1>1, <1>0, <3>2, ExecuteEffect DEF Sends
    <3> QED BY <3>1, <3>2
  <2>2. Idle(n) => Idle(n)'
    BY <1>1, <1>0, ExecuteEffect DEF Idle
  <2>3. UNCHANGED <<up, rq, rcq, mem>>
    BY <1>1, <1>0, ExecuteEffect
  <2> QED BY <2>1, <2>2, <2>3 DEF Receives, AllPosted
<1>2. CASE Deliver(k)
  <2>1. CASE n = k
    <3>1. /\ wire[n] # <<>> /\ rq[n] # <<>> /\ rq'[n] = Tail(rq[n])
          /\ sq' = sq /\ scq' = scq /\ up' = up
      BY <1>2, <2>1, DeliverEffect
    <3>2. Len(rcq'[n]) = Len(rcq[n]) + 1
      <4> DEFINE c == [op |-> IF Arriving(n).op = "SEND" THEN "RECV" ELSE "RECV_IMM",
                       imm |-> Arriving(n).imm]
      <4>1. rcq'[n] = Append(rcq[n], c) /\ rcq[n] \in Seq(Completion)
        BY <1>2, <2>1, DeliverEffect, NodeTypes
      <4>2. c \in Completion
        <5>1. Arriving(n) \in Message
          BY <3>1, NodeTypes, TailFacts DEF Arriving
        <5> QED BY <5>1 DEF Completion, Message
      <4> HIDE DEF c
      <4> QED BY <4>1, <4>2, AppendFacts
    <3>3. rq[n] \in Seq(Region) /\ Len(rcq[n]) \in Nat
      BY NodeTypes
    <3>4. Receives(n)' = Receives(n)
      <4> DEFINE posted == Len(rq[n])
                 used   == Len(rcq[n])
      <4>1. posted' = posted - 1 /\ posted \in Nat
        BY <3>1, <3>3, TailFacts
      <4>2. used' = used + 1 /\ used \in Nat
        BY <3>2, <3>3
      <4> HIDE DEF posted, used
      <4>3. posted' + used' = posted + used
        BY <4>1, <4>2
      <4> QED BY <4>3 DEF Receives, posted, used
    <3>5. \A r : AllPosted(n, r) => AllPosted(n, r)'
      BY <3>1, <3>3, TailFacts DEF AllPosted
    <3> QED BY <3>1, <3>4, <3>5 DEF Sends, Idle
  <2>2. CASE n # k
    <3>1. /\ wire'[n] = wire[n] /\ rq'[n] = rq[n] /\ rcq'[n] = rcq[n] /\ mem'[n] = mem[n]
          /\ UNCHANGED <<up, sq, scq>>
      BY <1>2, <2>2, DeliverEffect
    <3> QED BY <3>1 DEF Receives, Sends, AllPosted, Idle
  <2> QED BY <2>1, <2>2
<1>3. CASE Drop(k) \/ Lose(k)
  <2>1. /\ wire[k] # <<>>
        /\ \A m \in Node \ {k} : wire'[m] = wire[m] /\ mem'[m] = mem[m]
        /\ UNCHANGED <<up, sq, scq, rq, rcq>>
    BY <1>3, DiscardEffect DEF Drop, Lose
  <2> QED BY <2>1 DEF Receives, Sends, AllPosted, Idle
<1> QED BY <1>1, <1>2, <1>3 DEF NicStep

\* The message on its way moves on, or is lost; if it arrives, it fills the region
\* of the first receive.
LEMMA NicMoves ==
  ASSUME VerbsTypeOK, Paired, NEW k \in Node, NicStep(k), NEW n \in Node,
         NEW r, NEW l \in Message, InFlight(n, r, l),
         wire[n] # <<>> /\ rq[n] # <<>> => Head(rq[n]) = r,
         wire[Peer[n]] = <<>>
  PROVE  Idle(n)' \/ InFlight(n, r, l)'
<1> DEFINE p == Peer[n]
<1>0. /\ p \in Node /\ Peer[k] \in Node /\ p # n /\ (Peer[k] = n <=> k = p)
      /\ sq[p] \in Seq(WorkRequest) /\ wire[n] \in Seq(Message) /\ rcq[n] \in Seq(Completion)
      /\ rq[n] \in Seq(Region)
  BY NodeTypes DEF Paired
<1>1. ASSUME k # p, k # n PROVE InFlight(n, r, l)'
  <2>1. /\ sq'[p] = sq[p] /\ wire'[n] = wire[n] /\ rcq'[n] = rcq[n]
        /\ mem'[p] = mem[p] /\ mem'[n] = mem[n]
    <3>1. CASE Execute(k)
      BY <1>0, <1>1, <3>1, ExecuteEffect
    <3>2. CASE Deliver(k)
      <4>1. /\ \A x \in Node \ {k} : wire'[x] = wire[x] /\ rcq'[x] = rcq[x] /\ mem'[x] = mem[x]
            /\ sq' = sq
        BY <3>2, DeliverEffect
      <4> QED BY <1>0, <1>1, <4>1
    <3>3. CASE Drop(k) \/ Lose(k)
      BY <1>0, <1>1, <3>3, DiscardEffect DEF Drop, Lose
    <3> QED BY <3>1, <3>2, <3>3 DEF NicStep
  <2> QED BY <2>1 DEF InFlight, IsQueued, IsOnWire, IsReceived
<1>2. ASSUME k = p PROVE InFlight(n, r, l)'
  <2>1. Execute(p)
    BY <1>2, DeliverEffect, DiscardEffect DEF NicStep, Drop, Lose, Deliver, Discard
  <2>2. /\ sq[p] # <<>> /\ sq'[p] = Tail(sq[p])
        /\ wire'[n] = Append(wire[n], Outgoing(p))
        /\ UNCHANGED <<rcq, mem>>
    BY <1>0, <1>2, <2>1, ExecuteEffect
  <2>3. IsQueued(n, l)
    BY <2>2 DEF InFlight, IsOnWire, IsReceived
  <2>4. sq'[p] = <<>> /\ wire'[n] = <<Outgoing(p)>> /\ rcq'[n] = <<>>
    <3>1. Len(sq[p]) = 1 /\ wire[n] = <<>> /\ rcq[n] = <<>>
      BY <2>3 DEF IsQueued
    <3>2. Len(Tail(sq[p])) = 0 /\ Tail(sq[p]) \in Seq(WorkRequest)
      BY <1>0, <2>2, <3>1, TailFacts
    <3> QED BY <2>2, <3>1, <3>2, AppendToEmpty, EmptyFacts
  <2>5. /\ Outgoing(p).op = l.op /\ Outgoing(p).len = l.len /\ Outgoing(p).imm = l.imm
        /\ l.len = 1 => Outgoing(p).data = l.data
    BY <2>3 DEF IsQueued, Outgoing
  <2> HIDE DEF p
  <2>6. IsOnWire(n, l)'
    BY <2>4, <2>5 DEF IsOnWire, p
  <2> QED BY <2>6 DEF InFlight
<1>3. ASSUME k = n PROVE Idle(n)' \/ InFlight(n, r, l)'
  <2>1. CASE Execute(n)
    <3>1. UNCHANGED <<rcq, mem>> /\ wire'[n] = wire[n] /\ sq'[p] = sq[p]
      BY <1>0, <2>1, ExecuteEffect
    <3> QED BY <3>1 DEF InFlight, IsQueued, IsOnWire, IsReceived
  <2>2. ASSUME Deliver(n) \/ Discard(n)
        PROVE  IsOnWire(n, l) /\ wire'[n] = <<>> /\ sq'[p] = <<>>
    <3>1. wire[n] # <<>> /\ wire'[n] = Tail(wire[n]) /\ sq' = sq
      BY <2>2, DeliverEffect, DiscardEffect
    <3>2. IsOnWire(n, l)
      BY <3>1 DEF InFlight, IsQueued, IsReceived
    <3>3. Len(Tail(wire[n])) = 0 /\ Tail(wire[n]) \in Seq(Message)
      BY <1>0, <3>1, <3>2, TailFacts DEF IsOnWire
    <3> QED BY <3>1, <3>2, <3>3, EmptyFacts DEF IsOnWire
  <2>3. CASE Drop(n) \/ Lose(n)
    <3>1. Discard(n)
      BY <2>3 DEF Drop, Lose
    <3>2. rcq' = rcq /\ wire'[n] = <<>> /\ sq'[p] = <<>> /\ rcq[n] = <<>>
      BY <2>2, <3>1, DiscardEffect DEF IsOnWire
    <3> QED BY <3>2 DEF Idle
  <2>4. CASE Deliver(n)
    <3> DEFINE m == Arriving(n)
               c == [op |-> IF m.op = "SEND" THEN "RECV" ELSE "RECV_IMM", imm |-> m.imm]
    <3>1. /\ m.op = l.op /\ m.len = l.len /\ m.imm = l.imm /\ (l.len = 1 => m.data = l.data)
          /\ rcq[n] = <<>> /\ wire'[n] = <<>> /\ sq'[p] = <<>>
      BY <2>2, <2>4 DEF IsOnWire, Arriving
    <3>2. rcq'[n] = <<c>>
      BY <2>4, <3>1, DeliverEffect, AppendToEmpty
    <3>3. c.op = (IF l.op = "SEND" THEN "RECV" ELSE "RECV_IMM") /\ c.imm = l.imm
      BY <3>1
    <3>4. ASSUME l.len = 1 PROVE mem'[n][Filled(r, l)] = l.data
      <4>1. Head(rq[n]) = r
        BY <2>4, DeliverEffect
      <4>2. m.len # 0 /\ Filled(r, l) = (IF m.op = "SEND" THEN Head(rq[n]) ELSE "file_mr")
        BY <3>1, <3>4, <4>1 DEF Filled
      <4>3. mem'[n][Filled(r, l)] = m.data
        BY <2>4, <4>2, DeliverEffect
      <4> QED BY <3>1, <3>4, <4>3
    <3> HIDE DEF c, m
    <3>5. IsReceived(n, r, l)'
      BY <3>1, <3>2, <3>3, <3>4 DEF IsReceived
    <3> QED BY <3>5 DEF InFlight
  <2> QED BY <1>3, <2>1, <2>3, <2>4 DEF NicStep
<1> QED BY <1>1, <1>2, <1>3

LEMMA NicInFlight ==
  ASSUME VerbsTypeOK, Paired, NEW k \in Node, NicStep(k), NEW n \in Node,
         NEW r, NEW l \in Message, InFlight(n, r, l), AllPosted(n, r),
         wire[Peer[n]] = <<>>
  PROVE  Idle(n)' \/ InFlight(n, r, l)'
<1>1. ASSUME rq[n] # <<>> PROVE Head(rq[n]) = r
  <2>1. Head(rq[n]) = rq[n][1] /\ 1 \in 1..Len(rq[n])
    BY <1>1, NodeTypes, TailFacts
  <2> QED BY <2>1 DEF AllPosted
<1> QED BY <1>1, NicMoves

\* The same, for a node whose receives may name any region: whichever it is that
\* the message fills.
LEMMA NicComing ==
  ASSUME VerbsTypeOK, Paired, NEW k \in Node, NicStep(k), NEW n \in Node,
         NEW l \in Message, Coming(n, l), wire[Peer[n]] = <<>>
  PROVE  Idle(n)' \/ Coming(n, l)'
<1>1. PICK s \in Region : InFlight(n, s, l)
  BY DEF Coming
<1>2. PICK r \in Region : InFlight(n, r, l) /\ (wire[n] # <<>> /\ rq[n] # <<>> => Head(rq[n]) = r)
  <2>1. CASE wire[n] # <<>> /\ rq[n] # <<>>
    <3>1. Head(rq[n]) \in Region
      BY <2>1, NodeTypes, TailFacts
    <3>2. IsOnWire(n, l)
      BY <1>1, <2>1 DEF InFlight, IsQueued, IsReceived
    <3> QED BY <3>1, <3>2 DEF InFlight
  <2> QED BY <1>1, <2>1
<1>3. Idle(n)' \/ InFlight(n, r, l)'
  BY <1>2, NicMoves
<1> QED BY <1>3 DEF Coming

LEMMA NotIdle ==
  ASSUME NEW n, NEW r, NEW l, InFlight(n, r, l)
  PROVE  ~ Idle(n)
BY DEF InFlight, IsQueued, IsOnWire, IsReceived, Idle

-----------------------------------------------------------------------------
(* What the calls of a process do to the messages on their way. *)

\* A request posted to an empty queue is the message on its way to the peer.
LEMMA PostInFlight ==
  ASSUME VerbsTypeOK, Paired, NEW n \in Node, NEW r \in Region, NEW p, NEW w, NEW l,
         Post(n, r, p, w), UNCHANGED <<wire, rcq>>, Idle(Peer[n]),
         w.mr = r, w.op = l.op, w.len = l.len, w.imm = l.imm, l.len = 1 => l.data = p
  PROVE  IsQueued(Peer[n], l)'
<1>1. Peer[Peer[n]] = n /\ sq[n] = <<>> /\ wire[Peer[n]] = <<>> /\ rcq[Peer[n]] = <<>>
  BY DEF Paired, Idle
<1>2. sq' = [sq EXCEPT ![n] = <<w>>]
  BY <1>1, AppendToEmpty DEF Post
<1>3. sq'[n] = <<w>> /\ mem'[n][r] = p
  <2>1. mem'[n] = Holding(mem[n], r, p) /\ mem[n] \in [Part -> Payload]
    BY DEF Post, VerbsTypeOK
  <2>2. Holding(mem[n], r, p)[r] = p
    BY <2>1, HoldingFacts
  <2> QED BY <1>2, <2>1, <2>2 DEF VerbsTypeOK
<1> QED BY <1>1, <1>3 DEF IsQueued

\* What a post leaves in the memory.
LEMMA PostMem ==
  ASSUME VerbsTypeOK, NEW n \in Node, NEW r \in Region, NEW p, NEW w, Post(n, r, p, w)
  PROVE  /\ mem'[n][r] = p
         /\ \A x \in Region \ {r} : mem'[n][x] = mem[n][x]
         /\ \A k \in Node \ {n} : mem'[k] = mem[k]
<1> DEFINE held == mem[n]
<1>1. mem'[n] = Holding(held, r, p) /\ held \in [Part -> Payload]
  BY DEF Post, VerbsTypeOK
<1>2. \A k \in Node \ {n} : mem'[k] = mem[k]
  BY DEF Post, VerbsTypeOK
<1> HIDE DEF held
<1>3. Holding(held, r, p)[r] = p /\ \A x \in Region \ {r} : Holding(held, r, p)[x] = held[x]
  BY <1>1, HoldingFacts
<1> QED BY <1>1, <1>2, <1>3 DEF held

\* What else a post changes: nothing but its region and its queue.
LEMMA PostKeeps ==
  ASSUME VerbsTypeOK, NEW n \in Node, NEW r \in Region, NEW p, NEW w, Post(n, r, p, w)
  PROVE  /\ \A k \in Node \ {n} : sq'[k] = sq[k] /\ mem'[k] = mem[k]
         /\ \A x \in Region \ {r} : mem'[n][x] = mem[n][x]
         /\ r # "file_mr" => mem'[n]["file_end"] = mem[n]["file_end"]
         /\ sq[n] = <<>> => sq'[n] = <<w>>
<1>1. sq[n] = <<>> => sq' = [sq EXCEPT ![n] = <<w>>]
  BY AppendToEmpty DEF Post
<1>2. mem'[n] = Holding(mem[n], r, p) /\ mem[n] \in [Part -> Payload]
  BY DEF Post, VerbsTypeOK
<1>3. /\ \A x \in Region \ {r} : mem'[n][x] = mem[n][x]
      /\ r # "file_mr" => mem'[n]["file_end"] = mem[n]["file_end"]
  <2> DEFINE held == mem[n]
  <2>1. /\ \A x \in Region \ {r} : Holding(held, r, p)[x] = held[x]
        /\ r # "file_mr" => Holding(held, r, p)["file_end"] = held["file_end"]
    <3>1. held \in [Part -> Payload]
      BY <1>2
    <3> HIDE DEF held
    <3> QED BY <3>1, HoldingFacts
  <2> QED BY <1>2, <2>1
<1>4. \A k \in Node \ {n} : sq'[k] = sq[k] /\ mem'[k] = mem[k]
  BY DEF Post, VerbsTypeOK
<1> QED BY <1>1, <1>3, <1>4 DEF VerbsTypeOK

\* A chunk that fills file_mr is what its end holds.
LEMMA PostEnds ==
  ASSUME VerbsTypeOK, EndsHeld, NEW n \in Node, NEW r \in Region, NEW p, NEW w, Post(n, r, p, w)
  PROVE  EndsHeld'
<1>1. mem'[n] = Holding(mem[n], r, p) /\ mem[n] \in [Part -> Payload]
  BY DEF Post, VerbsTypeOK
<1>3. mem'[n]["file_mr"].kind = "chunk" => mem'[n]["file_end"] = mem'[n]["file_mr"]
  BY <1>1, HoldingEnds DEF EndsHeld
<1> QED BY <1>3, PostKeeps DEF EndsHeld

LEMMA CallEnds ==
  ASSUME VerbsTypeOK, EndsHeld, NEW n \in Node, NEW r \in Region, NEW p,
         PostSend(n, r, p) \/ (\E i : PostWrite(n, r, p, i)) \/ PostEmptyWrite(n, r)
  PROVE  EndsHeld'
BY PostEnds DEF PostSend, PostWrite, PostEmptyWrite

\* The program at n leaves the memory alone or posts one message; if it only answers,
\* file_mr is as it was.
Calls(n)   == mem' = mem \/ \E r \in Region : \E p :
                \/ PostSend(n, r, p) \/ (\E i : PostWrite(n, r, p, i)) \/ PostEmptyWrite(n, r)
Answers(n) == mem' = mem \/ \E p : PostSend(n, "msg_mr", p)

LEMMA CallsMem ==
  ASSUME VerbsTypeOK, NEW n \in Node, Calls(n)
  PROVE  /\ EndsHeld => EndsHeld'
         /\ \A k \in Node \ {n} : mem'[k] = mem[k]
<1>1. CASE mem' = mem
  BY <1>1 DEF EndsHeld
<1>2. CASE \E r \in Region : \E p :
        \/ PostSend(n, r, p) \/ (\E i : PostWrite(n, r, p, i)) \/ PostEmptyWrite(n, r)
  <2>1. PICK r \in Region : \E p :
          \/ PostSend(n, r, p) \/ (\E i : PostWrite(n, r, p, i)) \/ PostEmptyWrite(n, r)
    BY <1>2
  <2>2. PICK p : PostSend(n, r, p) \/ (\E i : PostWrite(n, r, p, i)) \/ PostEmptyWrite(n, r)
    BY <2>1
  <2>3. \A k \in Node \ {n} : mem'[k] = mem[k]
    BY <2>2, PostKeeps DEF PostSend, PostWrite, PostEmptyWrite
  <2> QED BY <2>2, <2>3, CallEnds
<1> QED BY <1>1, <1>2 DEF Calls

LEMMA AnswersMem ==
  ASSUME VerbsTypeOK, NEW n \in Node, Answers(n)
  PROVE  /\ EndsHeld => EndsHeld'
         /\ \A k \in Node \ {n} : mem'[k] = mem[k]
         /\ mem'[n]["file_mr"] = mem[n]["file_mr"] /\ mem'[n]["file_end"] = mem[n]["file_end"]
<1>1. "msg_mr" \in Region /\ "file_mr" \in Region \ {"msg_mr"}
  BY DEF Region
<1>2. Calls(n)
  BY <1>1 DEF Answers, Calls
<1>3. mem'[n]["file_mr"] = mem[n]["file_mr"] /\ mem'[n]["file_end"] = mem[n]["file_end"]
  BY <1>1, PostKeeps DEF Answers, PostSend
<1> QED BY <1>2, <1>3, CallsMem

LEMMA NicEnds ==
  ASSUME VerbsTypeOK, Paired, EndsHeld, NEW k \in Node, NicStep(k)
  PROVE  EndsHeld'
<1>1. CASE Execute(k)
  BY <1>1, ExecuteEffect DEF EndsHeld, Paired
<1>2. CASE Deliver(k)
  <2>1. \A n \in Node \ {k} : mem'[n] = mem[n]
    BY <1>2, DeliverEffect
  <2>2. mem'[k]["file_mr"].kind = "chunk" => mem'[k]["file_end"] = mem'[k]["file_mr"]
    <3> DEFINE r == IF Arriving(k).op = "SEND" THEN Head(rq[k]) ELSE "file_mr"
               d == Arriving(k).data
               h == mem[k]
    <3>1. r \in Region /\ mem'[k] = IF Arriving(k).len = 0 THEN h ELSE Holding(h, r, d)
      BY <1>2, DeliverHeld
    <3>2. h \in [Part -> Payload] /\ (h["file_mr"].kind = "chunk" => h["file_end"] = h["file_mr"])
      BY DEF VerbsTypeOK, EndsHeld
    <3> HIDE DEF r, d, h
    <3> QED BY <3>1, <3>2, HoldingEnds
  <2> QED BY <2>1, <2>2 DEF EndsHeld
<1>3. CASE Drop(k) \/ Lose(k)
  <2>1. Discard(k)
    BY <1>3 DEF Drop, Lose
  <2>2. Text("torn").kind # "chunk"
    BY DEF Text
  <2> QED BY <2>1, <2>2, DiscardEffect DEF EndsHeld
<1> QED BY <1>1, <1>2, <1>3 DEF NicStep

\* Only the message on its way changes the end of file_mr, if it is a whole chunk.
LEMMA NicEnd ==
  ASSUME VerbsTypeOK, Paired, NEW k \in Node, NicStep(k), NEW n \in Node,
         NEW r, NEW l \in Message, InFlight(n, r, l)
  PROVE  \/ mem'[n]["file_end"] = mem[n]["file_end"]
         \/ l.len = 1 /\ l.data.kind = "chunk" /\ mem'[n]["file_end"] = l.data
<1>1. CASE Execute(k)
  BY <1>1, ExecuteEffect DEF Paired
<1>2. CASE Drop(k) \/ Lose(k)
  BY <1>2, DiscardEffect DEF Drop, Lose
<1>3. CASE Deliver(k) /\ k # n
  BY <1>3, DeliverEffect
<1>4. CASE Deliver(k) /\ k = n
  <2>1. wire[n] # <<>>
    BY <1>4, DeliverEffect
  <2>2. Arriving(n).len = l.len /\ (l.len = 1 => Arriving(n).data = l.data) /\ l.len \in 0..1
    BY <2>1 DEF InFlight, IsQueued, IsOnWire, IsReceived, Arriving, Message
  <2> DEFINE x == IF Arriving(n).op = "SEND" THEN Head(rq[n]) ELSE "file_mr"
             h == mem[n]
  <2>0. /\ x \in Region /\ h \in [Part -> Payload]
        /\ mem'[n] = IF Arriving(n).len = 0 THEN h ELSE Holding(h, x, Arriving(n).data)
    BY <1>4, DeliverHeld DEF VerbsTypeOK
  <2> HIDE DEF x
  <2>3. CASE l.len = 0
    BY <2>0, <2>2, <2>3
  <2>4. CASE l.len = 1
    <3>1. mem'[n] = Holding(h, x, l.data)
      BY <2>0, <2>2, <2>4
    <3> QED BY <2>0, <2>4, <3>1, HoldingFacts
  <2> QED BY <2>2, <2>3, <2>4
<1> QED BY <1>1, <1>2, <1>3, <1>4 DEF NicStep

LEMMA PostRecvEffect ==
  ASSUME VerbsTypeOK, NEW n \in Node, NEW r \in Region, PostRecv(n, r)
  PROVE  /\ \A k \in Node \ {n} : rq'[k] = rq[k]
         /\ rq'[n] = Append(rq[n], r) /\ Len(rq'[n]) = Len(rq[n]) + 1
         /\ AllPosted(n, r) => AllPosted(n, r)'
<1>1. rq[n] \in Seq(Region) /\ rq'[n] = Append(rq[n], r)
  BY NodeTypes DEF PostRecv, VerbsTypeOK
<1>2. \A k \in Node \ {n} : rq'[k] = rq[k]
  BY DEF PostRecv
<1>3. AllPosted(n, r) => AllPosted(n, r)'
  BY <1>1, AppendFacts DEF AllPosted
<1> QED BY <1>1, <1>2, <1>3, AppendFacts

\* A poll for a receive returns the message that was on its way: nothing is left
\* of it but the completion's op and immediate value and the content of the region.
LEMMA PollRecvEffect ==
  ASSUME VerbsTypeOK, NEW n \in Node, PollRecv(n)
  PROVE  /\ rcq[n] # <<>> /\ rcq'[n] = Tail(rcq[n]) /\ Len(rcq'[n]) = Len(rcq[n]) - 1
         /\ \A k \in Node \ {n} : rcq'[k] = rcq[k]
         /\ UNCHANGED <<up, sq, scq, rq, mem, wire, lost>>
         /\ \A r : \A l : InFlight(n, r, l) =>
              /\ IsReceived(n, r, l) /\ Idle(n)'
<1>1. rcq[n] # <<>> /\ rcq[n] \in Seq(Completion) /\ rcq'[n] = Tail(rcq[n])
  BY NodeTypes DEF PollRecv, VerbsTypeOK
<1>2. UNCHANGED <<up, sq, scq, rq, mem, wire, lost>> /\ \A k \in Node \ {n} : rcq'[k] = rcq[k]
  BY DEF PollRecv
<1>3. ASSUME NEW r, NEW l, InFlight(n, r, l) PROVE IsReceived(n, r, l) /\ Idle(n)'
  <2>1. IsReceived(n, r, l)
    BY <1>1, <1>3 DEF InFlight, IsQueued, IsOnWire
  <2>2. rcq'[n] = <<>>
    <3>1. Len(rcq[n]) = 1
      BY <2>1 DEF IsReceived
    <3>2. Tail(rcq[n]) \in Seq(Completion) /\ Len(Tail(rcq[n])) = 0
      BY <1>1, <3>1, TailFacts
    <3> QED BY <1>1, <3>2, EmptyFacts
  <2> QED BY <1>2, <2>1, <2>2 DEF Idle, IsReceived
<1> QED BY <1>1, <1>2, <1>3, TailFacts

LEMMA PollSendEffect ==
  ASSUME VerbsTypeOK, NEW n \in Node, PollSend(n)
  PROVE  /\ scq[n] \in Nat /\ scq[n] > 0 /\ scq'[n] = scq[n] - 1
         /\ \A k \in Node \ {n} : scq'[k] = scq[k]
         /\ UNCHANGED <<up, sq, rq, rcq, mem, wire, lost>>
BY DEF PollSend, VerbsTypeOK

\* A node that is closed has nothing queued, posted or received, and the message
\* that it had queued is gone.
LEMMA CloseEffect ==
  ASSUME VerbsTypeOK, Paired, NEW n \in Node, CloseNode(n)
  PROVE  /\ ~ up'[n] /\ sq'[n] = <<>> /\ rq'[n] = <<>> /\ rcq'[n] = <<>>
         /\ Receives(n)' = 0
         /\ \A r : AllPosted(n, r)'
         /\ \A k \in Node \ {n} : /\ up'[k] = up[k] /\ sq'[k] = sq[k] /\ rq'[k] = rq[k]
                                  /\ rcq'[k] = rcq[k] /\ scq'[k] = scq[k]
         /\ UNCHANGED <<mem, wire, lost>>
         /\ \A k \in Node : Idle(k) => Idle(k)'
         /\ \A r, l : \A k \in Node \ {n} :
              InFlight(k, r, l) => Idle(k)' \/ InFlight(k, r, l)'
<1>1. /\ ~ up'[n] /\ sq'[n] = <<>> /\ rq'[n] = <<>> /\ rcq'[n] = <<>>
      /\ \A k \in Node \ {n} : /\ up'[k] = up[k] /\ sq'[k] = sq[k] /\ rq'[k] = rq[k]
                               /\ rcq'[k] = rcq[k] /\ scq'[k] = scq[k]
      /\ UNCHANGED <<mem, wire, lost>>
  BY DEF CloseNode, VerbsTypeOK
<1>2. Receives(n)' = 0 /\ \A r : AllPosted(n, r)'
  BY <1>1 DEF Receives, AllPosted
<1>3. ASSUME NEW k \in Node, Idle(k) PROVE Idle(k)'
  BY <1>1, <1>3 DEF Idle, Paired
<1>4. ASSUME NEW r, NEW l, NEW k \in Node \ {n}, InFlight(k, r, l)
      PROVE  Idle(k)' \/ InFlight(k, r, l)'
  <2>1. CASE Peer[k] = n
    <3>1. wire'[k] = wire[k] /\ rcq'[k] = rcq[k] /\ mem' = mem /\ sq'[Peer[k]] = <<>>
      BY <1>1, <2>1
    <3>2. CASE IsQueued(k, l)
      BY <3>1, <3>2 DEF IsQueued, Idle
    <3>3. CASE IsOnWire(k, l) \/ IsReceived(k, r, l)
      BY <3>1, <3>3 DEF IsOnWire, IsReceived, InFlight
    <3> QED BY <1>4, <3>2, <3>3 DEF InFlight
  <2>2. CASE Peer[k] # n
    <3>1. Peer[k] \in Node \ {n}
      BY <2>2 DEF Paired
    <3>2. /\ wire'[k] = wire[k] /\ rcq'[k] = rcq[k] /\ mem' = mem
          /\ sq'[Peer[k]] = sq[Peer[k]]
      BY <1>1, <3>1
    <3> QED BY <1>4, <3>2 DEF InFlight, IsQueued, IsOnWire, IsReceived
  <2> QED BY <2>1, <2>2
<1> QED BY <1>1, <1>2, <1>3, <1>4
-----------------------------------------------------------------------------
(* The same, for the lock-step moments of a protocol: nothing is on its way in *)
(* either direction, and a process acts.                                       *)

\* A request posted while nothing is on its way is the one message there is.
LEMMA PostAnswer ==
  ASSUME VerbsTypeOK, Paired, NEW n \in Node, NEW r \in Region, NEW p, NEW w, NEW l,
         Post(n, r, p, w), NoPoll, Idle(n), Idle(Peer[n]),
         w.mr = r, w.op = l.op, w.len = l.len, w.imm = l.imm, l.len = 1 => l.data = p
  PROVE  /\ IsQueued(Peer[n], l)' /\ Idle(n)'
         /\ mem'[Peer[n]] = mem[Peer[n]]
         /\ \A x \in Region \ {r} : mem'[n][x] = mem[n][x]
         /\ r # "file_mr" => mem'[n]["file_end"] = mem[n]["file_end"]
         /\ Sends(n)' = Sends(n) + 1 /\ Sends(Peer[n])' = Sends(Peer[n])
<1>1. IsQueued(Peer[n], l)'
  BY PostInFlight DEF NoPoll
<1>2. Peer[n] \in Node \ {n} /\ Peer[Peer[n]] = n
  BY DEF Paired
<1>3. /\ sq'[Peer[n]] = sq[Peer[n]] /\ mem'[Peer[n]] = mem[Peer[n]]
      /\ \A x \in Region \ {r} : mem'[n][x] = mem[n][x]
      /\ r # "file_mr" => mem'[n]["file_end"] = mem[n]["file_end"]
      /\ UNCHANGED <<wire, rcq, scq>>
  BY <1>2, PostKeeps DEF NoPoll
<1>4. Idle(n)'
  BY <1>3 DEF Idle
<1>5. sq[n] = <<>> /\ sq'[n] = <<w>> /\ scq[n] \in Nat
  BY <1>2, PostKeeps, NodeTypes DEF Idle
<1>6. Sends(n)' = Sends(n) + 1
  <2> DEFINE done == scq[n]
  <2>1. done \in Nat /\ Sends(n) = 0 + done /\ Sends(n)' = 1 + done
    BY <1>3, <1>5 DEF Sends
  <2> HIDE DEF done
  <2> QED BY <2>1
<1> QED BY <1>1, <1>3, <1>4, <1>6 DEF Sends

LEMMA IdleKept ==
  ASSUME NEW n, Idle(n), UNCHANGED <<sq, wire, rcq>>
  PROVE  Idle(n)'
BY DEF Idle

\* A receive posted is one more; a receive polled is one less.
LEMMA PostCounts ==
  ASSUME VerbsTypeOK, NEW n \in Node, NEW r \in Region, PostRecv(n, r), rcq' = rcq
  PROVE  /\ Receives(n) \in Nat /\ Receives(n)' = Receives(n) + 1
         /\ AllPosted(n, r) => AllPosted(n, r)'
         /\ \A k \in Node \ {n} : /\ Receives(k)' = Receives(k)
                                  /\ \A s : AllPosted(k, s) => AllPosted(k, s)'
<1> DEFINE posted == Len(rq[n])
           used   == Len(rcq[n])
<1>1. posted \in Nat /\ used \in Nat /\ posted' = posted + 1 /\ used' = used
  BY NodeTypes, PostRecvEffect
<1> HIDE DEF posted, used
<1>2. posted + used \in Nat /\ posted' + used' = (posted + used) + 1
  BY <1>1
<1>3. Receives(n) \in Nat /\ Receives(n)' = Receives(n) + 1
  BY <1>2 DEF Receives, posted, used
<1>4. \A k \in Node \ {n} : rq'[k] = rq[k] /\ rcq'[k] = rcq[k]
  BY PostRecvEffect
<1> QED BY <1>3, <1>4, PostRecvEffect DEF Receives, AllPosted

LEMMA PollCounts ==
  ASSUME VerbsTypeOK, NEW n \in Node, PollRecv(n)
  PROVE  /\ Receives(n) \in Nat /\ Receives(n) > 0 /\ Receives(n)' = Receives(n) - 1
         /\ \A s : AllPosted(n, s) => AllPosted(n, s)'
         /\ Receives(n) = 1 => rq'[n] = <<>> /\ \A s : AllPosted(n, s)'
         /\ \A k \in Node \ {n} : /\ Receives(k)' = Receives(k)
                                  /\ \A s : AllPosted(k, s) => AllPosted(k, s)'
         /\ \A k \in Node : Sends(k)' = Sends(k) /\ (Idle(k) => k # n /\ Idle(k)')
<1> DEFINE posted == Len(rq[n])
           used   == Len(rcq[n])
<1>1. /\ posted \in Nat /\ used \in Nat /\ used > 0 /\ posted' = posted /\ used' = used - 1
      /\ (posted = 0 => rq'[n] = <<>>)
  BY NodeTypes, PollRecvEffect, TailFacts, EmptyFacts
<1> HIDE DEF posted, used
<1>2. /\ posted + used \in Nat /\ posted + used > 0 /\ posted' + used' = (posted + used) - 1
      /\ posted + used = 1 => posted = 0
  BY <1>1
<1>3. /\ Receives(n) \in Nat /\ Receives(n) > 0 /\ Receives(n)' = Receives(n) - 1
      /\ (Receives(n) = 1 => rq'[n] = <<>>)
  BY <1>1, <1>2 DEF Receives, posted, used
<1>4. /\ rcq[n] # <<>> /\ UNCHANGED <<up, sq, scq, rq, mem, wire>>
      /\ \A k \in Node \ {n} : rcq'[k] = rcq[k]
  BY PollRecvEffect
<1>5. \A k \in Node : Sends(k)' = Sends(k) /\ (Idle(k) => k # n /\ Idle(k)')
  BY <1>4 DEF Sends, Idle
<1>6. \A k \in Node \ {n} : /\ Receives(k)' = Receives(k)
                            /\ \A s : AllPosted(k, s) => AllPosted(k, s)'
  BY <1>4 DEF Receives, AllPosted
<1>7. \A s : AllPosted(n, s) => AllPosted(n, s)'
  BY <1>4 DEF AllPosted
<1>8. rq'[n] = <<>> => \A s : AllPosted(n, s)'
  BY DEF AllPosted
<1> QED BY <1>3, <1>5, <1>6, <1>7, <1>8

LEMMA PollSendCounts ==
  ASSUME VerbsTypeOK, NEW n \in Node, PollSend(n)
  PROVE  /\ Sends(n) \in Nat /\ Sends(n) > 0 /\ Sends(n)' = Sends(n) - 1
         /\ \A k \in Node \ {n} : Sends(k)' = Sends(k)
         /\ UNCHANGED <<up, sq, rq, rcq, mem, wire, lost>>
         /\ \A k \in Node : /\ Receives(k)' = Receives(k)
                            /\ \A s : AllPosted(k, s) => AllPosted(k, s)'
                            /\ Idle(k) => Idle(k)'
                            /\ \A s, l : InFlight(k, s, l) => InFlight(k, s, l)'
<1> DEFINE queued == Len(sq[n])
           done   == scq[n]
<1>1. queued \in Nat /\ done \in Nat /\ done > 0 /\ queued' = queued /\ done' = done - 1
  BY NodeTypes, PollSendEffect, EmptyFacts
<1> HIDE DEF queued, done
<1>2. /\ queued + done \in Nat /\ queued + done > 0
      /\ queued' + done' = (queued + done) - 1
  BY <1>1
<1>3. Sends(n) \in Nat /\ Sends(n) > 0 /\ Sends(n)' = Sends(n) - 1
  BY <1>2 DEF Sends, queued, done
<1>4. /\ UNCHANGED <<up, sq, rq, rcq, mem, wire, lost>>
      /\ \A k \in Node \ {n} : scq'[k] = scq[k]
  BY PollSendEffect
<1> QED BY <1>3, <1>4 DEF Sends, Receives, AllPosted, Idle, InFlight, IsQueued, IsOnWire,
        IsReceived

\* A node without receives has none posted and none received.
LEMMA NoReceives ==
  ASSUME VerbsTypeOK, NEW n \in Node, Receives(n) = 0
  PROVE  rq[n] = <<>> /\ rcq[n] = <<>> /\ \A s : AllPosted(n, s)
<1> DEFINE posted == Len(rq[n])
           used   == Len(rcq[n])
<1>1. posted \in Nat /\ used \in Nat /\ (posted = 0 => rq[n] = <<>>) /\ (used = 0 => rcq[n] = <<>>)
  BY NodeTypes, EmptyFacts
<1>2. posted + used = 0
  BY DEF Receives
<1> HIDE DEF posted, used
<1>3. posted = 0 /\ used = 0
  BY <1>1, <1>2
<1> QED BY <1>1, <1>3 DEF AllPosted

\* The three posts of the protocols, as messages.
LEMMA SendAnswer ==
  ASSUME VerbsTypeOK, Paired, NEW n \in Node, NEW r \in Region, NEW k,
         PostSend(n, r, Text(k)), NoPoll, Idle(n), Idle(Peer[n])
  PROVE  /\ IsQueued(Peer[n], Sent(k))' /\ Idle(n)'
         /\ mem'[Peer[n]] = mem[Peer[n]]
         /\ \A x \in Region \ {r} : mem'[n][x] = mem[n][x]
         /\ r # "file_mr" => mem'[n]["file_end"] = mem[n]["file_end"]
         /\ Sends(n)' = Sends(n) + 1 /\ Sends(Peer[n])' = Sends(Peer[n])
<1> DEFINE w == [op |-> "SEND", mr |-> r, len |-> 1, imm |-> 0]
           l == Sent(k)
<1>1. /\ w.mr = r /\ w.op = l.op /\ w.len = l.len /\ w.imm = l.imm
      /\ l.data = Text(k)
  BY DEF Sent
<1>2. Post(n, r, Text(k), w)
  BY DEF PostSend
<1> HIDE DEF w, l
<1>3. IsQueued(Peer[n], l)'
  BY <1>1, <1>2, PostAnswer
<1> QED BY <1>1, <1>2, <1>3, PostAnswer DEF l

LEMMA WriteAnswer ==
  ASSUME VerbsTypeOK, Paired, NEW n \in Node, NEW r \in Region, NEW p, NEW i,
         PostWrite(n, r, p, i), NoPoll, Idle(n), Idle(Peer[n])
  PROVE  /\ IsQueued(Peer[n], Written(p, i))' /\ Idle(n)'
         /\ mem'[Peer[n]] = mem[Peer[n]]
         /\ \A x \in Region \ {r} : mem'[n][x] = mem[n][x]
         /\ r # "file_mr" => mem'[n]["file_end"] = mem[n]["file_end"]
         /\ Sends(n)' = Sends(n) + 1 /\ Sends(Peer[n])' = Sends(Peer[n])
<1> DEFINE w == [op |-> "WRITE_IMM", mr |-> r, len |-> 1, imm |-> i]
           l == Written(p, i)
<1>1. /\ w.mr = r /\ w.op = l.op /\ w.len = l.len /\ w.imm = l.imm
      /\ l.data = p
  BY DEF Written
<1>2. Post(n, r, p, w)
  BY DEF PostWrite
<1> HIDE DEF w, l
<1>3. IsQueued(Peer[n], l)'
  BY <1>1, <1>2, PostAnswer
<1> QED BY <1>1, <1>2, <1>3, PostAnswer DEF l

LEMMA EmptyAnswer ==
  ASSUME VerbsTypeOK, Paired, NEW n \in Node, NEW r \in Region,
         PostEmptyWrite(n, r), NoPoll, Idle(n), Idle(Peer[n])
  PROVE  /\ IsQueued(Peer[n], EmptyWrite)' /\ Idle(n)'
         /\ mem'[Peer[n]] = mem[Peer[n]]
         /\ \A x \in Region \ {r} : mem'[n][x] = mem[n][x]
         /\ r # "file_mr" => mem'[n]["file_end"] = mem[n]["file_end"]
         /\ Sends(n)' = Sends(n) + 1 /\ Sends(Peer[n])' = Sends(Peer[n])
<1> DEFINE w == [op |-> "WRITE_IMM", mr |-> r, len |-> 0, imm |-> 0]
           l == EmptyWrite
<1>1. /\ w.mr = r /\ w.op = l.op /\ w.len = l.len /\ w.imm = l.imm
      /\ l.len # 1
  BY DEF EmptyWrite
<1>2. Post(n, r, mem[n][r], w)
  BY DEF PostEmptyWrite
<1> HIDE DEF w, l
<1>3. IsQueued(Peer[n], l)'
  BY <1>1, <1>2, PostAnswer
<1> QED BY <1>1, <1>2, <1>3, PostAnswer DEF l

LEMMA MailKept ==
  ASSUME UNCHANGED <<sq, wire, rcq, mem>>
  PROVE  \A n, r, l : /\ Idle(n)' <=> Idle(n)
                      /\ InFlight(n, r, l) => InFlight(n, r, l)'
BY DEF Idle, InFlight, IsQueued, IsOnWire, IsReceived

\* A receive that is not used by a completion is still posted.
LEMMA StillPosted ==
  ASSUME NEW n, Receives(n) = 1, rcq[n] = <<>>
  PROVE  rq[n] # <<>>
<1>1. ASSUME rq[n] = <<>> PROVE FALSE
  <2>1. Len(rq[n]) = 0 /\ Len(rcq[n]) = 0
    BY <1>1
  <2>2. Receives(n) = 0 + 0
    BY <2>1 DEF Receives
  <2> QED BY <2>2
<1> QED BY <1>1

-----------------------------------------------------------------------------
(* The number of the messages on their way, and their kinds. *)

\* An adapter's step makes no message: there are no more than before, and none of
\* another kind.
LEMMA NicMail ==
  ASSUME VerbsTypeOK, Paired, NEW k \in Node, NicStep(k), NEW n \in Node
  PROVE  /\ Transit(n) \in Nat /\ Transit(n)' \in Nat /\ Transit(n)' <= Transit(n)
         /\ \A v : \A o \in {"SEND", "WRITE_IMM"} : Comes(n, o, v)' => Comes(n, o, v)
<1> DEFINE p == Peer[n]
           queued == Len(sq[p])
           sent   == Len(wire[n])
           used   == Len(rcq[n])
<1>0. /\ p \in Node /\ Peer[k] \in Node /\ p # n /\ (Peer[k] = n <=> k = p)
      /\ sq[p] \in Seq(WorkRequest) /\ wire[n] \in Seq(Message) /\ rcq[n] \in Seq(Completion)
      /\ queued \in Nat /\ sent \in Nat /\ used \in Nat
  BY NodeTypes DEF Paired
<1>size. Transit(n) = queued + sent + used /\ Transit(n)' = queued' + sent' + used'
  BY DEF Transit
<1> HIDE DEF queued, sent, used
<1>1. CASE /\ sq'[p] = sq[p] /\ wire'[n] = wire[n] /\ rcq'[n] = rcq[n]
  <2>1. Transit(n)' = Transit(n) /\ \A v : \A o \in {"SEND", "WRITE_IMM"} : Comes(n, o, v)' <=> Comes(n, o, v)
    BY <1>1 DEF Transit, Comes
  <2>2. Transit(n) \in Nat
    BY <1>0, <1>size
  <2>3. Transit(n)' <= Transit(n)
    BY <2>1, <2>2
  <2> QED BY <2>1, <2>2, <2>3
<1>2. CASE k = p /\ Execute(k)
  <2>1. /\ sq[p] # <<>> /\ sq'[p] = Tail(sq[p])
        /\ wire'[n] = Append(wire[n], Outgoing(p)) /\ rcq'[n] = rcq[n]
    BY <1>0, <1>2, ExecuteEffect
  <2>2. Outgoing(p).op = sq[p][1].op /\ Outgoing(p).imm = sq[p][1].imm /\ 1 \in 1..Len(sq[p])
    BY <1>0, <2>1, TailFacts DEF Outgoing
  <2>3. Outgoing(p) \in Message
    <3>1. Head(sq[p]) \in WorkRequest
      BY <1>0, <2>1, TailFacts
    <3>2. mem[p][Head(sq[p]).mr] \in Payload
      BY <1>0, <3>1 DEF WorkRequest, VerbsTypeOK, Part
    <3> QED BY <3>1, <3>2 DEF Outgoing, Message, WorkRequest
  <2>4. /\ queued' = queued - 1 /\ queued > 0 /\ sent' = sent + 1 /\ used' = used
    BY <1>0, <2>1, <2>3, TailFacts, AppendFacts DEF queued, sent, used
  <2>5. ASSUME NEW o \in {"SEND", "WRITE_IMM"}, NEW v, Comes(n, o, v)' PROVE Comes(n, o, v)
    <3>1. CASE \E i \in 1..Len(sq'[p]) : sq'[p][i].op = o /\ sq'[p][i].imm = v
      BY <1>0, <2>1, <3>1, TailFacts DEF Comes
    <3>2. CASE \E i \in 1..Len(wire'[n]) : wire'[n][i].op = o /\ wire'[n][i].imm = v
      <4>1. PICK i \in 1..Len(wire'[n]) : wire'[n][i].op = o /\ wire'[n][i].imm = v
        BY <3>2
      <4>2. CASE i \in 1..Len(wire[n])
        <5>1. wire'[n][i] = wire[n][i]
          BY <1>0, <2>1, <2>3, <4>2, AppendFacts
        <5> QED BY <4>1, <4>2, <5>1 DEF Comes
      <4>3. CASE i \notin 1..Len(wire[n])
        <5>1. wire'[n][i] = Outgoing(p)
          <6>1. Len(wire'[n]) = Len(wire[n]) + 1 /\ Len(wire[n]) \in Nat
            BY <1>0, <2>1, <2>3, AppendFacts
          <6>2. i = Len(wire[n]) + 1
            BY <4>1, <4>3, <6>1
          <6> QED BY <1>0, <2>1, <2>3, <6>2, AppendFacts
        <5> QED BY <2>2, <4>1, <5>1 DEF Comes
      <4> QED BY <4>2, <4>3
    <3> QED BY <2>1, <2>5, <3>1, <3>2 DEF Comes
  <2>6. Transit(n)' = Transit(n) /\ Transit(n) \in Nat
    BY <1>0, <1>size, <2>4
  <2> QED BY <2>5, <2>6
<1>3. CASE k = n /\ (Deliver(k) \/ Discard(k))
  <2> DEFINE m == Arriving(n)
             c == [op |-> IF m.op = "SEND" THEN "RECV" ELSE "RECV_IMM", imm |-> m.imm]
  <2>1. /\ wire[n] # <<>> /\ wire'[n] = Tail(wire[n]) /\ sq' = sq
        /\ rcq'[n] = rcq[n] \/ rcq'[n] = Append(rcq[n], c)
    BY <1>0, <1>3, DeliverEffect, DiscardEffect
  <2>2. m = wire[n][1] /\ m \in Message /\ 1 \in 1..Len(wire[n])
    BY <1>0, <2>1, TailFacts DEF Arriving
  <2>3. c \in Completion
    BY <2>2 DEF Message, Completion
  <2>4. /\ queued' = queued /\ sent' = sent - 1 /\ sent > 0 /\ (used' = used \/ used' = used + 1)
    BY <1>0, <2>1, <2>3, TailFacts, AppendFacts DEF queued, sent, used
  <2>5. ASSUME NEW o \in {"SEND", "WRITE_IMM"}, NEW v, Comes(n, o, v)' PROVE Comes(n, o, v)
    <3> DEFINE op == IF o = "SEND" THEN "RECV" ELSE "RECV_IMM"
    <3>1. CASE \E i \in 1..Len(sq'[p]) : sq'[p][i].op = o /\ sq'[p][i].imm = v
      BY <2>1, <3>1 DEF Comes
    <3>2. CASE \E i \in 1..Len(wire'[n]) : wire'[n][i].op = o /\ wire'[n][i].imm = v
      BY <1>0, <2>1, <3>2, TailFacts DEF Comes
    <3>3. CASE \E i \in 1..Len(rcq'[n]) : rcq'[n][i].op = op /\ rcq'[n][i].imm = v
      <4>1. PICK i \in 1..Len(rcq'[n]) : rcq'[n][i].op = op /\ rcq'[n][i].imm = v
        BY <3>3
      <4>2. CASE i \in 1..Len(rcq[n]) /\ rcq'[n][i] = rcq[n][i]
        BY <4>1, <4>2 DEF Comes
      <4>3. CASE rcq'[n][i] = c
        <5>1. m.op = o /\ m.imm = v
          <6>1. c.op = op /\ c.imm = v
            BY <4>1, <4>3
          <6>2. m.op \in {"SEND", "WRITE_IMM"} 
            BY <2>2, <2>5 DEF Message
          <6> QED BY <6>1, <6>2
        <5> QED BY <2>2, <5>1 DEF Comes
      <4>4. (i \in 1..Len(rcq[n]) /\ rcq'[n][i] = rcq[n][i]) \/ rcq'[n][i] = c
        <5>1. CASE rcq'[n] = rcq[n]
          BY <4>1, <5>1
        <5>2. CASE rcq'[n] = Append(rcq[n], c)
          <6>1. Len(rcq'[n]) = Len(rcq[n]) + 1 /\ Len(rcq[n]) \in Nat
            BY <1>0, <2>3, <5>2, AppendFacts
          <6>2. i \in 1..Len(rcq[n]) \/ i = Len(rcq[n]) + 1
            BY <4>1, <6>1
          <6> HIDE DEF c
          <6> QED BY <1>0, <2>3, <5>2, <6>2, AppendFacts
        <5> QED BY <2>1, <5>1, <5>2
      <4> QED BY <4>2, <4>3, <4>4
    <3> QED BY <2>1, <2>5, <3>1, <3>2, <3>3 DEF Comes
  <2>6. /\ Transit(n)' <= Transit(n) /\ Transit(n)' \in Nat /\ Transit(n) \in Nat
    <3>1. CASE used' = used
      BY <1>0, <1>size, <2>4, <3>1
    <3>2. CASE used' = used + 1
      BY <1>0, <1>size, <2>4, <3>2
    <3> QED BY <2>4, <3>1, <3>2
  <2> QED BY <2>5, <2>6
<1>4. \/ /\ sq'[p] = sq[p] /\ wire'[n] = wire[n] /\ rcq'[n] = rcq[n]
      \/ k = p /\ Execute(k)
      \/ k = n /\ (Deliver(k) \/ Discard(k))
  <2>1. CASE Execute(k)
    BY <1>0, <2>1, ExecuteEffect
  <2>2. CASE Deliver(k)
    BY <1>0, <2>2, DeliverEffect
  <2>3. CASE Discard(k)
    BY <1>0, <2>3, DiscardEffect
  <2> QED BY <2>1, <2>2, <2>3 DEF NicStep, Drop, Lose
<1> QED BY <1>1, <1>2, <1>3, <1>4

LEMMA PollMail ==
  ASSUME VerbsTypeOK, NEW n \in Node, PollRecv(n), NEW k \in Node
  PROVE  /\ \A o, v : Comes(k, o, v)' => Comes(k, o, v)
         /\ Head(rcq[n]).op = "RECV" => Comes(n, "SEND", Head(rcq[n]).imm)
         /\ Head(rcq[n]).op = "RECV_IMM" => Comes(n, "WRITE_IMM", Head(rcq[n]).imm)
<1>1. /\ rcq[n] # <<>> /\ rcq'[n] = Tail(rcq[n]) /\ rcq[n] \in Seq(Completion)
      /\ \A j \in Node \ {n} : rcq'[j] = rcq[j]
      /\ UNCHANGED <<sq, wire>>
  BY PollRecvEffect, NodeTypes
<1>2. ASSUME NEW o, NEW v, Comes(k, o, v)' PROVE Comes(k, o, v)
  <2>1. CASE k = n
    <3>1. \A i \in 1..Len(rcq'[n]) : rcq'[n][i] = rcq[n][i + 1] /\ i + 1 \in 1..Len(rcq[n])
      BY <1>1, TailFacts
    <3> QED BY <1>1, <1>2, <2>1, <3>1 DEF Comes
  <2>2. CASE k # n
    BY <1>1, <1>2, <2>2 DEF Comes
  <2> QED BY <2>1, <2>2
<1>3. Head(rcq[n]) = rcq[n][1] /\ 1 \in 1..Len(rcq[n])
  BY <1>1, TailFacts
<1>4. /\ Head(rcq[n]).op = "RECV" => Comes(n, "SEND", Head(rcq[n]).imm)
      /\ Head(rcq[n]).op = "RECV_IMM" => Comes(n, "WRITE_IMM", Head(rcq[n]).imm)
  BY <1>3 DEF Comes
<1> QED BY <1>2, <1>4

LEMMA PostMail ==
  ASSUME VerbsTypeOK, Paired, NEW n \in Node, NEW r \in Region, NEW p, NEW w,
         Post(n, r, p, w), UNCHANGED <<wire, rcq>>, Idle(Peer[n])
  PROVE  /\ \A o, v : Comes(Peer[n], o, v)' => o = w.op /\ v = w.imm
         /\ \A o, v : Comes(n, o, v)' => Comes(n, o, v)
<1>1. /\ Peer[Peer[n]] = n /\ Peer[n] \in Node \ {n}
      /\ sq[n] = <<>> /\ wire[Peer[n]] = <<>> /\ rcq[Peer[n]] = <<>>
  BY DEF Paired, Idle
<1>2. sq'[n] = <<w>> /\ sq'[Peer[n]] = sq[Peer[n]]
  BY <1>1, PostKeeps
<1>3. ASSUME NEW o, NEW v, Comes(Peer[n], o, v)' PROVE o = w.op /\ v = w.imm
  BY <1>1, <1>2, <1>3 DEF Comes
<1> QED BY <1>2, <1>3 DEF Comes

LEMMA CloseMail ==
  ASSUME VerbsTypeOK, NEW n \in Node, CloseNode(n), NEW k \in Node, Peer[k] \in Node
  PROVE  \A o, v : Comes(k, o, v)' => Comes(k, o, v)
<1>1. /\ sq'[n] = <<>> /\ rcq'[n] = <<>> /\ wire' = wire
      /\ \A j \in Node \ {n} : sq'[j] = sq[j] /\ rcq'[j] = rcq[j]
  BY DEF CloseNode, VerbsTypeOK
<1>2. sq'[Peer[k]] = <<>> \/ sq'[Peer[k]] = sq[Peer[k]]
  BY <1>1
<1>3. rcq'[k] = <<>> \/ rcq'[k] = rcq[k]
  BY <1>1
<1> QED BY <1>1, <1>2, <1>3 DEF Comes

\* What a step that leaves n and its peer alone means for the messages on their way.
LEMMA SameFacts ==
  ASSUME NEW n, Same(n), Same(Peer[n])
  PROVE  /\ Idle(n)' <=> Idle(n)
         /\ \A r, l : InFlight(n, r, l) => InFlight(n, r, l)'
         /\ Receives(n)' = Receives(n) /\ Sends(n)' = Sends(n)
         /\ \A r : AllPosted(n, r) => AllPosted(n, r)'
<1>1. /\ sq'[Peer[n]] = sq[Peer[n]] /\ mem'[Peer[n]] = mem[Peer[n]]
      /\ wire'[n] = wire[n] /\ rcq'[n] = rcq[n] /\ mem'[n] = mem[n] /\ rq'[n] = rq[n]
      /\ sq'[n] = sq[n] /\ scq'[n] = scq[n]
  BY DEF Same
<1>2. Idle(n)' <=> Idle(n)
  BY <1>1 DEF Idle
<1>3. ASSUME NEW r, NEW l, InFlight(n, r, l) PROVE InFlight(n, r, l)'
  BY <1>1, <1>3 DEF InFlight, IsQueued, IsOnWire, IsReceived
<1>4. Receives(n)' = Receives(n) /\ Sends(n)' = Sends(n)
  BY <1>1 DEF Receives, Sends
<1>5. \A r : AllPosted(n, r) => AllPosted(n, r)'
  BY <1>1 DEF AllPosted
<1> QED BY <1>2, <1>3, <1>4, <1>5

\* A poll, and a call that posts, are steps of one end point.
LEMMA PollSame ==
  ASSUME VerbsTypeOK, NEW n \in Node, PollAny(n)
  PROVE  \A k \in Node \ {n} : Same(k)
BY DEF PollAny, PollSend, PollRecv, VerbsTypeOK, Same

LEMMA SendSame ==
  ASSUME VerbsTypeOK, NEW n \in Node, NEW r \in Region, NEW p,
         PostSend(n, r, p) \/ (\E i : PostWrite(n, r, p, i)) \/ PostEmptyWrite(n, r) \/ NoSend,
         NoRecv \/ \E x : PostRecv(n, x), NoPoll
  PROVE  \A k \in Node \ {n} : Same(k)
<1> SUFFICES ASSUME NEW k \in Node, k # n PROVE Same(k)
  OBVIOUS
<1>1. rq'[k] = rq[k]
  BY DEF NoRecv, PostRecv, VerbsTypeOK
<1>2. ASSUME NEW q, NEW w, Post(n, r, q, w) PROVE sq'[k] = sq[k] /\ mem'[k] = mem[k]
  BY <1>2, PostKeeps
<1>3. sq'[k] = sq[k] /\ mem'[k] = mem[k]
  BY <1>2 DEF PostSend, PostWrite, PostEmptyWrite, NoSend
<1> QED BY <1>1, <1>3 DEF NoPoll, Same

\* A server's method begins: BEGIN is on its way, and its receive is posted.
LEMMA WelcomeEffect ==
  ASSUME VerbsTypeOK, Paired, NEW n \in Node, Welcome(n), Idle(n), Idle(Peer[n]),
         Receives(n) = 0
  PROVE  /\ IsQueued(Peer[n], Sent("begin"))' /\ Idle(n)'
         /\ Receives(n)' = 1 /\ AllPosted(n, "file_mr")' /\ Sends(n)' = Sends(n) + 1
         /\ \A k \in Node \ {n} : Same(k)
<1>1. PostRecv(n, "file_mr") /\ PostSend(n, "msg_mr", Text("begin")) /\ NoPoll
      /\ "file_mr" \in Region /\ "msg_mr" \in Region
  BY DEF Welcome, Region
<1>2. IsQueued(Peer[n], Sent("begin"))' /\ Idle(n)' /\ Sends(n)' = Sends(n) + 1
  BY <1>1, SendAnswer
<1>3. rcq' = rcq /\ AllPosted(n, "file_mr")
  BY <1>1, NoReceives DEF NoPoll
<1>4. Receives(n)' = Receives(n) + 1 /\ AllPosted(n, "file_mr")'
  BY <1>1, <1>3, PostCounts
<1>5. \A k \in Node \ {n} : Same(k)
  BY <1>1, SendSame
<1> QED BY <1>2, <1>4, <1>5

-----------------------------------------------------------------------------
(* What the calls of a process do to the places its sends hold. *)

\* Only end point n takes or frees a place in its send queue.
OthersKeep(n) == \A k \in Node \ {n} : Sends(k)' = Sends(k)

\* What a node has received and not polled came after all it had to send.
Answered == \A n \in Node : rcq[n] # <<>> => sq[n] = <<>>

LEMMA SendsType ==
  ASSUME VerbsTypeOK, NEW n \in Node
  PROVE  Sends(n) \in Nat /\ Receives(n) \in Nat
<1> DEFINE queued == Len(sq[n])
           done   == scq[n]
           posted == Len(rq[n])
           used   == Len(rcq[n])
<1>1. queued \in Nat /\ done \in Nat /\ posted \in Nat /\ used \in Nat
  BY NodeTypes
<1> HIDE DEF queued, done, posted, used
<1>2. queued + done \in Nat /\ posted + used \in Nat
  BY <1>1
<1> QED BY <1>2 DEF Sends, Receives, queued, done, posted, used

\* A post takes a place; the rest of a call that posts takes none.
LEMMA PostSends ==
  ASSUME VerbsTypeOK, NEW n \in Node, NEW r \in Region, NEW p,
         PostSend(n, r, p) \/ (\E i : PostWrite(n, r, p, i)) \/ PostEmptyWrite(n, r),
         scq' = scq
  PROVE  Sends(n)' = Sends(n) + 1 /\ OthersKeep(n)
<1>1. PICK q, w : Post(n, r, q, w)
  BY DEF PostSend, PostWrite, PostEmptyWrite
<1>2. /\ sq'[n] = Append(sq[n], w)
      /\ \A k \in Node \ {n} : sq'[k] = sq[k]
  BY <1>1 DEF Post, VerbsTypeOK
<1> DEFINE queued == Len(sq[n])
           done   == scq[n]
<1>3. queued \in Nat /\ done \in Nat /\ queued' = queued + 1 /\ done' = done
  BY <1>2, NodeTypes
<1> HIDE DEF queued, done
<1>4. queued' + done' = (queued + done) + 1
  BY <1>3
<1> QED BY <1>2, <1>4 DEF Sends, OthersKeep, queued, done

LEMMA NoSendSends ==
  ASSUME NoSend, scq' = scq
  PROVE  \A k : Sends(k)' = Sends(k)
BY DEF NoSend, Sends

\* A receive that is polled in turn shows that at most one send is left.
LEMMA PollSends ==
  ASSUME VerbsTypeOK, NEW n \in Node, PollRecv(n), InTurn, Answered
  PROVE  Sends(n)' = Sends(n) /\ Sends(n)' \in 0..1 /\ OthersKeep(n)
<1>1. /\ sq[n] = <<>> /\ scq[n] <= 1 /\ scq[n] \in Nat
      /\ UNCHANGED <<sq, scq>>
  BY NodeTypes DEF PollRecv, InTurn, Answered
<1>2. Sends(n)' = Sends(n) /\ OthersKeep(n)
  BY <1>1 DEF Sends, OthersKeep
<1>3. Len(sq[n]) = 0
  BY <1>1
<1>4. Sends(n) = 0 + scq[n]
  BY <1>3 DEF Sends
<1>5. Sends(n) \in 0..1
  BY <1>1, <1>4
<1> QED BY <1>2, <1>5

LEMMA CloseSends ==
  ASSUME VerbsTypeOK, NEW n \in Node, CloseNode(n)
  PROVE  Sends(n)' = 0 /\ OthersKeep(n)
<1>1. sq'[n] = <<>> /\ scq'[n] = 0
  BY DEF CloseNode, VerbsTypeOK
<1>2. \A k \in Node \ {n} : sq'[k] = sq[k] /\ scq'[k] = scq[k]
  BY DEF CloseNode, VerbsTypeOK
<1>3. Len(sq'[n]) = 0
  BY <1>1
<1>4. Sends(n)' = 0 + 0
  BY <1>1, <1>3 DEF Sends
<1> QED BY <1>2, <1>4 DEF Sends, OthersKeep

\* A call that posts at most one send, and a poll, of any completion.
LEMMA CallSends ==
  ASSUME VerbsTypeOK, NEW n \in Node, NEW r \in Region, NEW p,
         \/ NoSend
         \/ PostSend(n, r, p) \/ (\E i : PostWrite(n, r, p, i)) \/ PostEmptyWrite(n, r),
         NoPoll
  PROVE  /\ Sends(n)' = Sends(n) \/ Sends(n)' = Sends(n) + 1
         /\ Sends(n) \in Nat /\ OthersKeep(n)
<1>1. scq' = scq
  BY DEF NoPoll
<1>2. CASE NoSend
  BY <1>1, <1>2, NoSendSends, SendsType DEF OthersKeep
<1>3. CASE PostSend(n, r, p) \/ (\E i : PostWrite(n, r, p, i)) \/ PostEmptyWrite(n, r)
  BY <1>1, <1>3, PostSends, SendsType
<1> QED BY <1>2, <1>3

LEMMA AwaitSends ==
  ASSUME VerbsTypeOK, NEW n \in Node, PollAny(n), InTurn, Answered
  PROVE  /\ Sends(n) \in Nat /\ Sends(n)' \in Nat /\ Sends(n)' <= Sends(n)
         /\ PollRecv(n) => Sends(n)' <= 1
         /\ OthersKeep(n)
<1>1. CASE PollRecv(n)
  BY <1>1, PollSends, SendsType
<1>2. CASE PollSend(n)
  <2>1. /\ Sends(n) \in Nat /\ Sends(n) > 0 /\ Sends(n)' = Sends(n) - 1
        /\ \A k \in Node \ {n} : Sends(k)' = Sends(k)
    BY <1>2, PollSendCounts
  <2>2. ~ PollRecv(n)
    BY <1>2, <2>1, NodeTypes DEF PollSend, PollRecv, VerbsTypeOK
  <2> QED BY <2>1, <2>2 DEF OthersKeep
<1> QED BY <1>1, <1>2 DEF PollAny

\* Three sends and two receives for each end point are within every limit.
LEMMA WithinLimits ==
  ASSUME VerbsTypeOK, \A n \in Node : Sends(n) <= 3 /\ Receives(n) <= 2
  PROVE  QueuesFit
<1> SUFFICES ASSUME NEW n \in Node
             PROVE  /\ Sends(n) <= MaxSendWr /\ Receives(n) <= MaxRecvWr
                    /\ scq[n] + Len(rcq[n]) <= Cqe
  BY DEF QueuesFit
<1> DEFINE queued == Len(sq[n])
           done   == scq[n]
           posted == Len(rq[n])
           used   == Len(rcq[n])
<1>1. queued \in Nat /\ done \in Nat /\ posted \in Nat /\ used \in Nat
  BY NodeTypes
<1>2. queued + done <= 3 /\ posted + used <= 2
  BY DEF Sends, Receives
<1> HIDE DEF queued, done, posted, used
<1>3. queued + done <= 4 /\ posted + used <= 4 /\ done + used <= 8
  BY <1>1, <1>2
<1> QED BY <1>3 DEF Sends, Receives, MaxSendWr, MaxRecvWr, Cqe, queued, done, posted, used
=============================================================================
