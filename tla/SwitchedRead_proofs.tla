------------------------- MODULE SwitchedRead_proofs ------------------------
(***************************************************************************)
(* Proofs about the read of a file through proxy-server1.py and the switch,*)
(* in both planes, for a file of any length, whatever its last packets,    *)
(* for both clients and for any number of lost messages.                   *)
(***************************************************************************)
EXTENDS SwitchedRead, Verbs_proofs

-----------------------------------------------------------------------------
(* The inductive invariant behind OneDestination of the switched read:     *)
(* which message can be on its way to each of the four end points, by      *)
(* where the processes are, and that a chunk is on its way to the proxy or *)
(* to the client, never to both. It says nothing of receives, and of the   *)
(* text of a SEND only that it is not a chunk.  Of the two regions that    *)
(* the chunks come to it says what is at their end.                        *)

\* The proxy has its answer from the file server, and no chunk in hand.
Passed == asked # {} /\ pcP \notin {"await", "ask", "chunk"}

Waiting == pcC \in {"prepost", "repost", "loop"}

\* What arrives of a redirected chunk.
Arrived(p, i) == p = Text("torn") \/ (p = Short(1) /\ i = 1 /\ size = 1 /\ last = "short")

ForClient(l) ==
  \/ l.op = "SEND" /\ l.data.kind # "chunk" /\ pcC = "begin" /\ pcP # "begin"
  \/ /\ l.op = "WRITE_IMM" /\ l.len = 1 /\ Arrived(l.data, l.imm)
     /\ ~ control /\ Waiting /\ dst = <<>> /\ pos = 1
     /\ pcF \in {"wait", "fail", "closed"}

ForProxy(l) ==
  /\ l.op = "SEND" /\ Waiting
  /\ \/ asked = {} /\ pcP # "fetch"
     \/ ~ control /\ dst # <<>>

ForUp1(l) ==
  \/ /\ l.op = "SEND" /\ l.data.kind \notin {"chunk", "short"}
     /\ \/ pcP = "await" /\ pcF \in {"pollA", "pollB", "return"}
        \/ Passed /\ pcF = "return"
  \/ /\ l = Written(Piece(pos), 1) /\ Passed /\ pos = Len(pool) + 1
     /\ pcF \in {"wait", "fail", "closed"}
     /\ ~ control => pos = 1 /\ dst = <<>> /\ Waiting
  \/ l = EmptyWrite /\ Passed /\ pos = size /\ pcF = "return"

ForFile(l) ==
  /\ l.op = "SEND" /\ Passed
  /\ \/ pcF \in {"pollA", "pollB", "return"}
     \/ control /\ pcF \in {"wait", "fail", "closed"} /\ pos = Len(pool)

\* The message l can be on its way to n.
Expected(n, l) == \/ n = "client" /\ ForClient(l)
                  \/ n = "proxy"  /\ ForProxy(l)
                  \/ n = "up1"    /\ ForUp1(l)
                  \/ n = "file"   /\ ForFile(l)

Mail(n) ==
  \/ Idle(n)
  \/ Idle(Peer[n]) /\ \E l \in Message : Expected(n, l) /\ Coming(n, l)

\* The switch sends a message of the file server to one of them.
OneWay == Idle("up1") \/ Idle("client")

\* Until the file server has the request.
Asking ==
  /\ pcP = "begin" => pcC = "begin"
  /\ pcP \in {"begin", "pollA", "pollB", "fetch", "fail"} => asked = {}
  /\ asked = {} => pcF = "idle" /\ pcP # "await"
  /\ pcF = "idle" => asked = {} \/ pcP = "await"
  /\ pcP = "ask" => pcF \in {"pollA", "pollB", "return"}
  /\ pcF \in {"idle", "pollA", "pollB", "open"} => pos = 0
  /\ asked # {} \/ pcP = "fetch" => pcC \notin {"begin", "ask"}
  /\ (asked # {} \/ pcP = "fetch") /\ (control \/ pos = 0) => Waiting
  /\ control \/ pos = 0 => dst = <<>> /\ pcC # "imm"

\* While the file is sent: in the data plane that ends with the first chunk.
Sending ==
  /\ pcF \in {"open", "read", "next"} => Passed /\ pos = Len(pool)
  /\ Len(pool) <= pos
  /\ \A i \in 1..Len(pool) : pool[i] = Block(i)
  /\ ~ control => pool = <<>> /\ pcP \notin {"prepost", "fileLoop", "chunk"}
  /\ pcP = "chunk" =>
       /\ Idle("up1")
       /\ \/ immP = 0
          \/ /\ immP = 1 /\ mem["up1"]["file_mr"] = Piece(pos) /\ pos = Len(pool) + 1
             /\ pcF \in {"wait", "fail", "closed"}

\* What the client makes of it.
Saving ==
  /\ pcC = "imm" => /\ ~ control /\ dst = <<>> /\ pos = 1 /\ Idle("up1")
                    /\ Arrived(mem["client"]["file_mr"], immC)
                    /\ pcF \in {"wait", "fail", "closed"}
  /\ doneC => dst = <<Text("torn")>> /\ pcC \in {"close", "closed"}
  /\ OneDestination

Flow == /\ TypeOK
        /\ Mail("client") /\ Mail("proxy") /\ Mail("up1") /\ Mail("file")
        /\ OneWay /\ Asking /\ Sending /\ Saving

\* At the end of the proxy's region is the end of the last whole chunk that came to it,
\* and nothing at the end of the client's, to which no whole chunk comes.
Ended == /\ EndsHeld /\ mem["client"]["file_end"].tail = 0
         /\ size > 0 /\ last # "long" => short
         /\ short => EndKept("up1", Len(pool), size)

\* The strengthening of OneDestination: inductive as it stands.
IInv == Flow /\ Ended

-----------------------------------------------------------------------------
(* The proofs. *)

LEMMA Constants ==
  /\ Node = {"client", "proxy", "up1", "file"}
  /\ "client" \in Node /\ "proxy" \in Node /\ "up1" \in Node /\ "file" \in Node
  /\ Peer["client"] = "proxy" /\ Peer["proxy"] = "client"
  /\ Peer["up1"] = "file" /\ Peer["file"] = "up1"
  /\ MaxChunks \in Nat /\ MaxLoss \in Nat /\ Clients \subseteq BOOLEAN
  /\ Paired
  /\ "msg_mr" \in Region /\ "recv_mr" \in Region /\ "file_mr" \in Region
BY SwitchedAssumption, EndsAssumption, VerbsAssumption DEF Paired, Region

-----------------------------------------------------------------------------
(* Type correctness. *)

LEMMA TypeInit == Init => TypeOK
<1> SUFFICES ASSUME Init PROVE TypeOK
  OBVIOUS
<1>1. <<"recv_mr">> \in Seq(Region) /\ \A S : <<>> \in Seq(S)
  BY DEF Region
<1>2. rq \in [Node -> Seq(Region)]
  BY <1>1 DEF Init, HandlerInit, EndsInit, VerbsInit
<1>3. mem \in [Node -> [Part -> Payload]]
  BY PayloadFacts DEF Init, HandlerInit, EndsInit, VerbsInit, Nothing
<1>4. VerbsTypeOK
  BY <1>1, <1>2, <1>3, Constants DEF Init, HandlerInit, EndsInit, VerbsInit, VerbsTypeOK
<1>5. /\ signals \in Clients /\ pause \in BOOLEAN /\ size \in 0..MaxChunks
      /\ short \in BOOLEAN /\ canOpen \in BOOLEAN
      /\ pcC = "begin" /\ immC \in 0..1 /\ dst \in Seq(Payload) /\ doneC \in BOOLEAN
      /\ pcF = "idle" /\ pos \in 0..size /\ swapped \in BOOLEAN
  <2>1. dst \in Seq(Payload)
    BY <1>1 DEF Init, HandlerInit, EndsInit
  <2>2. size \in 0..MaxChunks /\ size \in Nat /\ pos = 0
    BY Constants DEF Init, HandlerInit, EndsInit
  <2>3. immC \in 0..1 /\ pos \in 0..size
    BY <2>2 DEF Init, HandlerInit, EndsInit
  <2>4. /\ signals \in Clients /\ pause \in BOOLEAN /\ short \in BOOLEAN /\ canOpen \in BOOLEAN
        /\ doneC = FALSE /\ swapped = FALSE /\ pcC = "begin" /\ pcF = "idle"
    BY DEF Init, HandlerInit, EndsInit
  <2>5. doneC \in BOOLEAN /\ swapped \in BOOLEAN
    BY <2>4
  <2> QED BY <2>1, <2>2, <2>3, <2>4, <2>5
<1>6. EndsTypeOK
  BY <1>4, <1>5 DEF EndsTypeOK
<1>7. /\ immP \in 0..1 /\ content \in Payload /\ pool \in Seq(Payload) /\ asked \subseteq Node
      /\ pcP = "begin" /\ {control, shortBegin, lowBuffer} \subseteq BOOLEAN
      /\ last \in {"one", "short", "long"}
  BY <1>1, PayloadFacts DEF Init, HandlerInit, Nothing
<1> QED BY <1>6, <1>7 DEF TypeOK, HandlerTypeOK

LEMMA PollForSendType ==
  ASSUME VerbsTypeOK, swapped \in BOOLEAN, NEW n \in Node, PollForSend(n)
  PROVE  VerbsTypeOK' /\ swapped' \in BOOLEAN
BY PollType DEF PollForSend, PollAny

\* What the file server writes and what a reader finds then are payloads, the same for
\* as long as the file is.
LEMMA PieceTyped == \A i \in Nat : Piece(i) \in Payload /\ (i > 0 => Block(i) \in Payload)
BY PayloadFacts, BlockFacts DEF Piece, Block

LEMMA PiecesKept ==
  UNCHANGED <<size, short>> => \A i : Piece(i)' = Piece(i) /\ Block(i)' = Block(i)
BY DEF Piece, Block

\* What a read of the whole region returns when the i-th chunk has been written to it,
\* or when a block has been.
LEMMA BlockRead ==
  ASSUME NEW n \in Node, NEW i, mem[n]["file_mr"] = Piece(i),
         short /\ i = size => mem[n]["file_end"].tail = i - 1
  PROVE  FileBlock(n) = Block(i)
<1>1. CASE short /\ i = size
  BY <1>1 DEF FileBlock, Block, Piece, Short
<1>2. CASE ~ (short /\ i = size)
  BY <1>2 DEF FileBlock, Block, Piece, Chunk
<1> QED BY <1>1, <1>2

LEMMA ClientTypeStep ==
  ASSUME TypeOK, ClientNext
  PROVE  TypeOK'
<1> USE Constants, PayloadFacts
<1>0. /\ VerbsTypeOK /\ EndsTypeOK /\ UNCHANGED <<runVars, fileVars, handlerVars, switchVars, swapped>>
      /\ "client" \in Node /\ dst \in Seq(Payload) /\ immC \in 0..1 /\ doneC \in BOOLEAN
  BY DEF ClientNext, TypeOK, HandlerTypeOK, EndsTypeOK
<1>1. ASSUME VerbsTypeOK', immC' \in 0..1, dst' \in Seq(Payload), doneC' \in BOOLEAN,
             pcC' \in {"begin", "ask", "prepost", "loop", "imm", "repost", "close", "closed"}
      PROVE  TypeOK'
  BY <1>0, <1>1 DEF TypeOK, HandlerTypeOK, EndsTypeOK, runVars, fileVars, handlerVars, switchVars
<1>2. CASE ClientBegin /\ UNCHANGED <<immC, dst, doneC>>
  BY <1>0, <1>1, <1>2, PollType DEF ClientBegin, PollAny, Moves
<1>3. CASE ClientAsk /\ UNCHANGED <<immC, dst, doneC>>
  <2>1. CASE PostSend("client", "msg_mr", Text("request")) /\ Moves(pcC, "ask", "prepost")
    BY <1>0, <1>1, <1>3, <2>1, SendType DEF ClientAsk, NoRecv, NoPoll, VerbsTypeOK, Moves
  <2>2. CASE NoSend /\ Moves(pcC, "ask", "close")
    BY <1>0, <1>1, <1>3, <2>2 DEF ClientAsk, NoSend, NoRecv, NoPoll, VerbsTypeOK, Moves
  <2> QED BY <1>3, <2>1, <2>2 DEF ClientAsk
<1>4. CASE ClientPrepost /\ UNCHANGED <<immC, dst, doneC>>
  BY <1>0, <1>1, <1>4, PostRecvType DEF ClientPrepost, NoSend, NoPoll, VerbsTypeOK, Moves
<1>5. CASE ClientClose /\ UNCHANGED <<immC, dst, doneC>>
  BY <1>0, <1>1, <1>5, CloseType DEF ClientClose, Moves
<1>8. CASE ClientRepost /\ UNCHANGED <<immC, dst, doneC>>
  BY <1>0, <1>1, <1>8, PostRecvType DEF ClientRepost, NoSend, NoPoll, VerbsTypeOK, Moves
<1>6. CASE ClientPoll /\ UNCHANGED <<dst, doneC>>
  <2>1. CASE PollSend("client") /\ Moves(pcC, "loop", "loop") /\ UNCHANGED immC
    BY <1>0, <1>1, <1>6, <2>1, PollType DEF PollAny, Moves
  <2>2. CASE PollRecv("client") /\ immC' = Head(rcq["client"]).imm /\ pcC' \in {"imm", "loop"}
    <3>1. Head(rcq["client"]) \in Completion
      BY <1>0, <2>2, TailFacts, NodeTypes DEF PollRecv
    <3>2. immC' \in 0..1
      BY <2>2, <3>1 DEF Completion
    <3> QED BY <1>0, <1>1, <1>6, <2>2, <3>2, PollType DEF PollAny
  <2> QED BY <1>6, <2>1, <2>2 DEF ClientPoll, Moves
<1>7. CASE (ClientSave \/ ClientSaveLast) /\ UNCHANGED immC
  <2>2. dst' \in Seq(Payload)
    <3>1. PICK x \in Payload : dst' = Append(dst, x)
      BY <1>0, <1>7, FileBlockType DEF ClientSave, ClientSaveLast, SaveChunk
    <3> QED BY <1>0, <3>1, AppendFacts
  <2>3. CASE ClientSave
    <3>1. mem' \in [Node -> [Part -> Payload]] /\ sq' \in [Node -> Seq(WorkRequest)]
      <4>1. CASE PostSend("client", "msg_mr", Text("next"))
        BY <1>0, <4>1, SendType
      <4>2. CASE NoSend
        BY <1>0, <4>2 DEF NoSend, VerbsTypeOK
      <4> QED BY <2>3, <4>1, <4>2 DEF ClientSave
    <3> QED BY <1>0, <1>1, <1>7, <2>2, <2>3, <3>1 DEF ClientSave, NoRecv, NoPoll, VerbsTypeOK, Moves
  <2>4. CASE ClientSaveLast
    BY <1>0, <1>1, <1>7, <2>2, <2>4 DEF ClientSaveLast, NoRecv, NoSend, NoPoll, VerbsTypeOK, Moves
  <2> QED BY <1>7, <2>3, <2>4
<1> QED BY <1>2, <1>3, <1>4, <1>5, <1>6, <1>7, <1>8 DEF ClientNext, ClientStep

LEMMA FileTypeStep ==
  ASSUME TypeOK, FileNextStep
  PROVE  TypeOK'
<1> USE Constants, PayloadFacts
<1>0. /\ VerbsTypeOK /\ EndsTypeOK /\ UNCHANGED <<runVars, clientVars, handlerVars, switchVars>>
      /\ "file" \in Node /\ swapped \in BOOLEAN /\ pos \in 0..size /\ size \in Nat
  BY DEF FileNextStep, TypeOK, HandlerTypeOK, EndsTypeOK
<1>1. ASSUME VerbsTypeOK', swapped' \in BOOLEAN, pos' \in 0..size,
             pcF' \in {"idle", "pollA", "pollB", "open", "read", "wait", "next", "return", "fail",
                       "closed", "cut"}
      PROVE  TypeOK'
  BY <1>0, <1>1 DEF TypeOK, HandlerTypeOK, EndsTypeOK, runVars, clientVars, handlerVars,
     switchVars
<1>2. CASE FileBegin
  BY <1>0, <1>1, <1>2, PostRecvType, SendType DEF FileBegin, Welcome, NoPoll, VerbsTypeOK, Moves
<1>3. CASE FilePollA /\ UNCHANGED pos
  BY <1>0, <1>1, <1>3, PollForSendType DEF FilePollA, Moves
<1>4. CASE FileWrite /\ UNCHANGED swapped
  <2>1. Piece(pos + 1) \in Payload /\ pos' \in 0..size
    BY <1>0, <1>4, PieceTyped DEF FileWrite, FileWrites
  <2>2. mem' \in [Node -> [Part -> Payload]] /\ sq' \in [Node -> Seq(WorkRequest)]
    BY <1>0, <1>4, <2>1, WriteType DEF FileWrite, FileWrites
  <2>3. VerbsTypeOK'
    BY <1>0, <1>4, <2>2 DEF FileWrite, FileWrites, NoRecv, NoPoll, VerbsTypeOK
  <2> QED BY <1>0, <1>1, <1>4, <2>1, <2>3 DEF FileWrite, FileWrites, AfterWrite, Moves
<1>5. CASE FilePollB /\ UNCHANGED <<pos, swapped>>
  BY <1>0, <1>1, <1>5, PollType DEF FilePollB, PollAny, Moves
<1>6. CASE FileOpen /\ UNCHANGED <<pos, swapped>>
  <2>1. CASE PostRecv("file", "recv_mr") /\ NoSend
    BY <1>0, <1>1, <1>6, <2>1, PostRecvType DEF FileOpen, FileOpens, NoSend, NoPoll, VerbsTypeOK,
       Moves
  <2>2. CASE NoRecv /\ PostSend("file", "msg_mr", Text("err"))
    BY <1>0, <1>1, <1>6, <2>2, SendType DEF FileOpen, FileOpens, NoRecv, NoPoll, VerbsTypeOK, Moves
  <2> QED BY <1>6, <2>1, <2>2 DEF FileOpen, FileOpens
<1>7. CASE FileEnd /\ UNCHANGED <<pos, swapped>>
  BY <1>0, <1>1, <1>7, EmptyWriteType DEF FileEnd, NoRecv, NoPoll, VerbsTypeOK, Moves
<1>8. CASE FileWait /\ UNCHANGED <<pos, swapped>>
  BY <1>0, <1>1, <1>8, PollType DEF FileWait, AwaitRecv, PollAny, Moves
<1>9. CASE FileNext /\ UNCHANGED <<pos, swapped>>
  <2>1. rq' \in [Node -> Seq(Region)]
    BY <1>0, <1>9, PostRecvType DEF FileNext, NoRecv, VerbsTypeOK
  <2> QED BY <1>0, <1>1, <1>9, <2>1 DEF FileNext, NoSend, NoPoll, VerbsTypeOK, Moves
<1>10. CASE FileClose
  <2>1. VerbsTypeOK'
    BY <1>0, <1>10, CloseType DEF FileClose
  <2> QED BY <1>0, <1>1, <1>10, <2>1 DEF FileClose
<1> QED BY <1>2, <1>3, <1>4, <1>5, <1>6, <1>7, <1>8, <1>9, <1>10 DEF FileNextStep, FileStep

LEMMA FetchType ==
  ASSUME VerbsTypeOK, NEW S \in SUBSET Node,
         rq' = [n \in Node |-> IF n \in S THEN Append(rq[n], "recv_mr") ELSE rq[n]]
  PROVE  rq' \in [Node -> Seq(Region)]
<1>1. \A n \in Node : Append(rq[n], "recv_mr") \in Seq(Region)
  BY NodeTypes, AppendFacts, Constants
<1>2. \A n \in Node : rq[n] \in Seq(Region)
  BY NodeTypes
<1> QED BY <1>1, <1>2

LEMMA ProxyTypeStep ==
  ASSUME TypeOK, ProxyNext
  PROVE  TypeOK'
<1> DEFINE Places == {"begin", "pollA", "pollB", "fetch", "await", "ask", "prepost", "fileLoop",
                      "chunk", "serve", "fail", "closed"}
<1>a. /\ "client" \in Node /\ "proxy" \in Node /\ "up1" \in Node /\ "file" \in Node
      /\ "msg_mr" \in Region /\ "recv_mr" \in Region /\ "file_mr" \in Region
      /\ Text("begin") \in Payload /\ Text("next") \in Payload
  BY Constants, PayloadFacts
<1>0. /\ VerbsTypeOK /\ EndsTypeOK /\ UNCHANGED <<runVars, clientVars, fileVars, switchVars>>
      /\ swapped \in BOOLEAN /\ immP \in 0..1 /\ content \in Payload /\ pool \in Seq(Payload)
      /\ asked \subseteq Node
  BY DEF ProxyNext, TypeOK, HandlerTypeOK, EndsTypeOK
<1>1. ASSUME VerbsTypeOK', swapped' \in BOOLEAN, pcP' \in Places, immP' \in 0..1,
             content' \in Payload, pool' \in Seq(Payload), asked' \subseteq Node
      PROVE  TypeOK'
  BY <1>0, <1>1 DEF TypeOK, HandlerTypeOK, EndsTypeOK, runVars, clientVars, fileVars, switchVars
<1>2. CASE ProxyPollA /\ UNCHANGED <<immP, content, pool, asked>>
  BY <1>a, <1>0, <1>1, <1>2, PollForSendType DEF ProxyPollA, Moves
<1>3. CASE /\ \/ ReceiveSend \/ ProxyAwaitBegin("up1", "await", "ask") \/ Request \/ Prepost
              \/ ProxyEnd("serve") \/ ProxyClose
           /\ UNCHANGED <<immP, content, pool, asked, swapped>>
  <2>0. ASSUME VerbsTypeOK', pcP' \in Places PROVE TypeOK'
    BY <1>0, <1>1, <1>3, <2>0
  <2>1. CASE ProxyBegin
    BY <1>a, <1>0, <2>0, <2>1, PostRecvType, SendType DEF ProxyBegin, Welcome, NoPoll, VerbsTypeOK,
       Moves
  <2>2. CASE ProxyPollB
    BY <1>a, <1>0, <2>0, <2>2, PollType DEF ProxyPollB, PollAny, Moves
  <2>3. CASE ProxyAwaitBegin("up1", "await", "ask")
    BY <1>a, <1>0, <2>0, <2>3, PollType DEF ProxyAwaitBegin, PollAny, Moves
  <2>4. CASE Request
    <3>1. mem' \in [Node -> [Part -> Payload]] /\ sq' \in [Node -> Seq(WorkRequest)]
      <4>1. CASE PostSend("up1", "msg_mr", content)
        BY <1>a, <1>0, <4>1, SendType
      <4>2. CASE NoSend
        BY <1>0, <4>2 DEF NoSend, VerbsTypeOK
      <4> QED BY <2>4, <4>1, <4>2 DEF Request
    <3> QED BY <1>0, <2>0, <2>4, <3>1 DEF Request, NoRecv, NoPoll, VerbsTypeOK, Moves
  <2>5. CASE Prepost
    BY <1>a, <1>0, <2>0, <2>5, PostRecvType DEF Prepost, NoSend, NoPoll, VerbsTypeOK, Moves
  <2>6. CASE ProxyEnd("serve")
    BY <1>0, <2>0, <2>6 DEF ProxyEnd, NoRecv, NoSend, NoPoll, VerbsTypeOK, Moves
  <2>7. CASE ProxyClose
    <3>1. VerbsTypeOK'
      BY <1>a, <1>0, <2>7, CloseType DEF ProxyClose
    <3> QED BY <2>0, <2>7, <3>1 DEF ProxyClose, Moves
  <2> QED BY <1>3, <2>1, <2>2, <2>3, <2>4, <2>5, <2>6, <2>7 DEF ReceiveSend
<1>4. CASE ProxyFetch({"up1"}, "file", "await") /\ UNCHANGED <<immP, pool, swapped>>
  <2>1. content' \in Payload
    BY <1>a, <1>0, <1>4 DEF ProxyFetch, VerbsTypeOK, Part
  <2>2. rq' \in [Node -> Seq(Region)]
    BY <1>a, <1>0, <1>4, FetchType DEF ProxyFetch
  <2>3. VerbsTypeOK'
    BY <1>0, <1>4, <2>2 DEF ProxyFetch, NoSend, NoPoll, VerbsTypeOK
  <2> QED BY <1>a, <1>0, <1>1, <1>4, <2>1, <2>3 DEF ProxyFetch, Moves
<1>5. CASE ProxyLoop("up1") /\ UNCHANGED <<content, pool, asked, swapped>>
  <2>1. immP' \in 0..1
    <3>1. CASE PollRecv("up1") /\ immP' = Head(rcq["up1"]).imm
      <4>1. Head(rcq["up1"]) \in Completion
        BY <1>a, <1>0, <3>1, TailFacts, NodeTypes DEF PollRecv
      <4> QED BY <3>1, <4>1 DEF Completion
    <3> QED BY <1>0, <1>5, <3>1 DEF ProxyLoop
  <2>2. VerbsTypeOK'
    BY <1>a, <1>0, <1>5, PollType DEF ProxyLoop, PollAny
  <2> QED BY <1>0, <1>1, <1>5, <2>1, <2>2 DEF ProxyLoop, Moves
<1>6. CASE ProxyChunk("up1") /\ UNCHANGED <<immP, content, asked, swapped>>
  <2>1. FileBlock("up1") \in Payload
    BY <1>a, <1>0, FileBlockType
  <2>2. pool' \in Seq(Payload)
    BY <1>0, <1>6, <2>1, AppendFacts DEF ProxyChunk, ProxyKeeps
  <2>3. VerbsTypeOK'
    BY <1>a, <1>0, <1>6, PostRecvType, SendType DEF ProxyChunk, ProxyKeeps, NoPoll, VerbsTypeOK
  <2> QED BY <1>0, <1>1, <1>6, <2>2, <2>3 DEF ProxyChunk, ProxyKeeps, Moves
<1> QED BY <1>2, <1>3, <1>4, <1>5, <1>6 DEF ProxyNext

\* What the adapter takes from a region, and what the switch makes of it, is a message.
LEMMA OutgoingType ==
  ASSUME VerbsTypeOK, NEW n \in Node, sq[n] # <<>>
  PROVE  Outgoing(n) \in Message /\ Rewritten(n, Outgoing(n)) \subseteq Message
<1>1. sq[n] \in Seq(WorkRequest) /\ mem[n] \in [Part -> Payload]
  BY NodeTypes
<1>2. PICK w \in WorkRequest : w = Head(sq[n])
  BY <1>1, TailFacts
<1>3. mem[n][w.mr] \in Payload
  BY <1>1 DEF WorkRequest, Part
<1>4. Outgoing(n) \in Message
  BY <1>2, <1>3 DEF Outgoing, WorkRequest, Message
<1>5. PICK m \in Message : m = Outgoing(n)
  BY <1>4
<1>6. Text("torn") \in Payload
  BY PayloadFacts
<1>7. [m EXCEPT !.data = Text("torn")] \in Message
  BY <1>6 DEF Message
<1>8. ASSUME NEW t \in Message, NEW i \in 0..1 PROVE [t EXCEPT !.imm = i] \in Message
  BY DEF Message
<1>9. ASSUME NEW x \in Rewritten(n, m) PROVE x \in Message
  <2> DEFINE spoilt == [m EXCEPT !.data = Text("torn")]
             high == [spoilt EXCEPT !.imm = IF lowBuffer THEN 0 ELSE 1]
  <2>1. spoilt \in Message /\ high \in Message
    <3>1. spoilt \in Message
      BY <1>7
    <3>2. (IF lowBuffer THEN 0 ELSE 1) \in 0..1
      OBVIOUS
    <3> HIDE DEF spoilt
    <3> QED BY <1>8, <3>1, <3>2
  <2>2. x \in {m, spoilt, high}
    <3>1. Rewritten(n, m) = CASE Redirects(n, m) ->
                                   IF LastIs(m, "short") THEN {m, spoilt} ELSE {high}
                              [] n = "proxy" /\ ~ control /\ ~ shortBegin -> {spoilt}
                              [] OTHER -> {m}
      BY DEF Rewritten
    <3> HIDE DEF spoilt, high
    <3> QED BY <1>9, <3>1
  <2> QED BY <2>1, <2>2
<1> QED BY <1>4, <1>5, <1>9

LEMMA TransmitType ==
  ASSUME VerbsTypeOK, NEW n \in Node, NEW to \in Node, NEW m \in Message, Transmit(n, to, m)
  PROVE  VerbsTypeOK'
<1>1. sq[n] \in Seq(WorkRequest) /\ wire[to] \in Seq(Message) /\ sq[n] # <<>> /\ scq[n] \in Nat
  BY NodeTypes DEF Transmit
<1>2. Append(wire[to], m) \in Seq(Message) /\ Tail(sq[n]) \in Seq(WorkRequest)
  BY <1>1, AppendFacts, TailFacts
<1> QED BY <1>1, <1>2 DEF Transmit, VerbsTypeOK

LEMMA SwitchType ==
  ASSUME VerbsTypeOK, NEW n \in Node, SwitchExecute(n)
  PROVE  VerbsTypeOK'
<1>1. PICK m \in Rewritten(n, Outgoing(n)) :
         Transmit(n, IF Redirects(n, Outgoing(n)) THEN "client" ELSE Peer[n], m)
  BY DEF SwitchExecute
<1>2. m \in Message
  BY <1>1, OutgoingType DEF SwitchExecute
<1>3. (IF Redirects(n, Outgoing(n)) THEN "client" ELSE Peer[n]) \in Node
  BY Constants DEF Paired
<1> QED BY <1>1, <1>2, <1>3, TransmitType

\* A step of an adapter, the switch or the network.
NicAct(n) == SwitchExecute(n) \/ Deliver(n) \/ Drop(n) \/ Lose(n)

LEMMA TypeStep ==
  ASSUME TypeOK, [Next]_vars
  PROVE  TypeOK'
<1>1. CASE ClientNext \/ ProxyNext \/ FileNextStep
  BY <1>1, ClientTypeStep, ProxyTypeStep, FileTypeStep
<1>2. ASSUME NEW n \in Node, Nic(NicAct(n)) PROVE TypeOK'
  <2>1. VerbsTypeOK
    BY DEF TypeOK, HandlerTypeOK, EndsTypeOK
  <2>2. VerbsTypeOK'
    BY <1>2, <2>1, NicType, SwitchType DEF Nic, NicAct, NicStep
  <2> QED BY <1>2, <2>2 DEF Nic, TypeOK, HandlerTypeOK, EndsTypeOK, runVars, clientVars, fileVars,
          handlerVars, switchVars
<1>3. CASE UNCHANGED vars
  BY <1>3 DEF vars, endsVars, verbsVars, runVars, clientVars, fileVars, handlerVars, switchVars,
     TypeOK, HandlerTypeOK, EndsTypeOK, VerbsTypeOK
<1> QED BY <1>1, <1>2, <1>3 DEF Next, NicAct

-----------------------------------------------------------------------------
(* What can be on its way, and how a step keeps it. *)

\* The message on its way to n does not change: it moves on, is taken or is lost.
Steady(n) == /\ Idle(n) => Idle(n)'
             /\ \A l \in Message : Coming(n, l) => Idle(n)' \/ Coming(n, l)'

LEMMA ExpectedAt ==
  /\ \A l : /\ Expected("client", l) <=> ForClient(l)
            /\ Expected("proxy", l)  <=> ForProxy(l)
            /\ Expected("up1", l)    <=> ForUp1(l)
            /\ Expected("file", l)   <=> ForFile(l)
  /\ \A l : /\ Expected("client", l)' <=> ForClient(l)'
            /\ Expected("proxy", l)'  <=> ForProxy(l)'
            /\ Expected("up1", l)'    <=> ForUp1(l)'
            /\ Expected("file", l)'   <=> ForFile(l)'
BY DEF Expected

LEMMA MailSteady ==
  ASSUME NEW n \in Node, Mail(n), Steady(n), Steady(Peer[n]),
         \A l \in Message : Expected(n, l) => Expected(n, l)'
  PROVE  Mail(n)'
BY DEF Mail, Steady

LEMMA MailIdle ==
  ASSUME NEW n, Idle(n)'
  PROVE  Mail(n)'
BY DEF Mail

LEMMA Silent ==
  ASSUME NEW n, Mail(n), \A l \in Message : ~ Expected(n, l)
  PROVE  Idle(n)
BY DEF Mail

\* What every step starts from.
LEMMA Facts ==
  ASSUME IInv
  PROVE  /\ TypeOK /\ VerbsTypeOK /\ Paired
         /\ Node = {"client", "proxy", "up1", "file"}
         /\ "client" \in Node /\ "proxy" \in Node /\ "up1" \in Node /\ "file" \in Node
         /\ Peer["client"] = "proxy" /\ Peer["proxy"] = "client"
         /\ Peer["up1"] = "file" /\ Peer["file"] = "up1"
         /\ "msg_mr" \in Region /\ "recv_mr" \in Region /\ "file_mr" \in Region
         /\ control \in BOOLEAN /\ doneC \in BOOLEAN /\ pos \in Nat /\ size \in Nat /\ pos <= size
         /\ dst \in Seq(Payload) /\ pool \in Seq(Payload) /\ content \in Payload /\ Len(pool) \in Nat
         /\ immC \in 0..1 /\ immP \in 0..1
         /\ Mail("client") /\ Mail("proxy") /\ Mail("up1") /\ Mail("file")
         /\ OneWay /\ Asking /\ Sending /\ Saving /\ Ended
<1>1. size \in 0..MaxChunks /\ MaxChunks \in Nat
  BY Constants DEF IInv, Flow, TypeOK, HandlerTypeOK, EndsTypeOK
<1>2. pos \in Nat /\ size \in Nat /\ pos <= size
  BY <1>1 DEF IInv, Flow, TypeOK, HandlerTypeOK, EndsTypeOK
<1>3. Len(pool) \in Nat
  BY EmptyFacts DEF IInv, Flow, TypeOK, HandlerTypeOK
<1> QED BY <1>2, <1>3, Constants DEF IInv, Flow, TypeOK, HandlerTypeOK, EndsTypeOK

LEMMA Kept ==
  ASSUME TypeOK', Mail("client")', Mail("proxy")', Mail("up1")', Mail("file")',
         OneWay', Asking', Sending', Saving'
  PROVE  Flow'
BY DEF Flow

\* A chunk goes where it went before by a step that neither keeps nor saves one.
LEMMA DestinationKept ==
  ASSUME OneDestination, UNCHANGED <<size, short, control, last, pool, dst, doneC>>
  PROVE  OneDestination'
<1>1. \A i : Block(i)' = Block(i)
  BY PiecesKept
<1>2. [i \in 1..Len(pool) |-> Block(i)]' = [i \in 1..Len(pool) |-> Block(i)]
  BY <1>1
<1> QED BY <1>1, <1>2 DEF OneDestination

\* A step that keeps what is on its way, and either takes it or goes on expecting it.
LEMMA Carried ==
  ASSUME IInv, \A n \in Node : Steady(n),
         Idle("client")' \/ \A l \in Message : ForClient(l) => ForClient(l)',
         Idle("proxy")' \/ \A l \in Message : ForProxy(l) => ForProxy(l)',
         Idle("up1")' \/ \A l \in Message : ForUp1(l) => ForUp1(l)',
         Idle("file")' \/ \A l \in Message : ForFile(l) => ForFile(l)'
  PROVE  /\ Mail("client")' /\ Mail("proxy")' /\ Mail("up1")' /\ Mail("file")'
         /\ OneWay'
         /\ \A n \in Node : Idle(n) => Idle(n)'
<1>1. Mail("client")'
  BY Facts, ExpectedAt, MailSteady, MailIdle
<1>2. Mail("proxy")'
  BY Facts, ExpectedAt, MailSteady, MailIdle
<1>3. Mail("up1")'
  BY Facts, ExpectedAt, MailSteady, MailIdle
<1>4. Mail("file")'
  BY Facts, ExpectedAt, MailSteady, MailIdle
<1>5. \A n \in Node : Idle(n) => Idle(n)'
  BY DEF Steady
<1>6. OneWay'
  BY <1>5, Facts DEF OneWay
<1> QED BY <1>1, <1>2, <1>3, <1>4, <1>5, <1>6

LEMMA UnchangedSteady ==
  ASSUME UNCHANGED <<sq, wire, rcq, mem>>
  PROVE  \A n \in Node : Steady(n)
<1>1. ASSUME NEW n, NEW l, Coming(n, l) PROVE Coming(n, l)'
  <2>1. PICK r \in Region : InFlight(n, r, l)
    BY <1>1 DEF Coming
  <2>2. InFlight(n, r, l)'
    BY <2>1, MailKept
  <2> QED BY <2>2 DEF Coming
<1> QED BY <1>1, MailKept DEF Steady

LEMMA SameSteady ==
  ASSUME NEW n, Same(n), Same(Peer[n])
  PROVE  Steady(n)
<1>1. ASSUME NEW l, Coming(n, l) PROVE Coming(n, l)'
  <2>1. PICK r \in Region : InFlight(n, r, l)
    BY <1>1 DEF Coming
  <2>2. InFlight(n, r, l)'
    BY <2>1, SameFacts
  <2> QED BY <2>2 DEF Coming
<1> QED BY <1>1, SameFacts DEF Steady

LEMMA PollSteady ==
  ASSUME VerbsTypeOK, NEW n \in Node, PollAny(n)
  PROVE  /\ \A k \in Node : Steady(k)
         /\ UNCHANGED <<up, sq, rq, mem, wire, lost>>
<1>1. CASE PollSend(n)
  <2>1. /\ UNCHANGED <<up, sq, rq, rcq, mem, wire, lost>>
    BY <1>1, PollSendEffect
  <2> QED BY <2>1, UnchangedSteady
<1>2. CASE PollRecv(n)
  <2>1. UNCHANGED <<up, sq, rq, mem, wire, lost>> /\ \A k \in Node \ {n} : rcq'[k] = rcq[k]
    BY <1>2, PollRecvEffect
  <2>2. \A k \in Node : Idle(k) => Idle(k)'
    BY <1>2, PollCounts
  <2>3. ASSUME NEW k \in Node, NEW l, Coming(k, l) PROVE Idle(k)' \/ Coming(k, l)'
    <3>1. PICK r \in Region : InFlight(k, r, l)
      BY <2>3 DEF Coming
    <3>2. CASE k = n
      BY <1>2, <3>1, <3>2, PollRecvEffect
    <3>3. CASE k # n
      <4>1. InFlight(k, r, l)'
        BY <2>1, <3>1, <3>3 DEF InFlight, IsQueued, IsOnWire, IsReceived
      <4> QED BY <4>1 DEF Coming
    <3> QED BY <3>2, <3>3
  <2> QED BY <2>1, <2>2, <2>3 DEF Steady
<1> QED BY <1>1, <1>2 DEF PollAny

LEMMA CloseSteady ==
  ASSUME VerbsTypeOK, Paired, NEW n \in Node, CloseNode(n)
  PROVE  /\ \A k \in Node : Steady(k)
         /\ sq'[n] = <<>> /\ rcq'[n] = <<>> /\ UNCHANGED <<mem, wire, lost>>
<1>1. /\ sq'[n] = <<>> /\ rcq'[n] = <<>> /\ UNCHANGED <<mem, wire, lost>>
      /\ \A k \in Node \ {n} : sq'[k] = sq[k] /\ rcq'[k] = rcq[k]
      /\ \A k \in Node : Idle(k) => Idle(k)'
  BY CloseEffect
<1>2. ASSUME NEW k \in Node, NEW l, Coming(k, l) PROVE Idle(k)' \/ Coming(k, l)'
  <2>1. PICK r \in Region : InFlight(k, r, l)
    BY <1>2 DEF Coming
  <2>2. CASE k = n
    <3>1. sq'[Peer[n]] = sq[Peer[n]]
      BY <1>1 DEF Paired
    <3>2. CASE IsReceived(n, r, l)
      BY <1>1, <2>2, <3>1, <3>2 DEF IsReceived, Idle
    <3>3. CASE IsQueued(n, l) \/ IsOnWire(n, l)
      <4>1. InFlight(n, r, l)'
        BY <1>1, <3>1, <3>3 DEF IsQueued, IsOnWire, InFlight
      <4> QED BY <2>2, <4>1 DEF Coming
    <3> QED BY <2>1, <2>2, <3>2, <3>3 DEF InFlight
  <2>3. CASE k # n
    <3>1. Idle(k)' \/ InFlight(k, r, l)'
      BY <2>1, <2>3, CloseEffect
    <3> QED BY <3>1 DEF Coming
  <2> QED BY <2>2, <2>3
<1> QED BY <1>1, <1>2 DEF Steady

LEMMA NicSteady ==
  ASSUME VerbsTypeOK, Paired, NEW k \in Node, NicStep(k), NEW n \in Node,
         Idle(n) \/ Idle(Peer[n])
  PROVE  Steady(n)
<1>1. Idle(n) => Idle(n)'
  BY NicKeeps
<1>2. ASSUME NEW l \in Message, Coming(n, l) PROVE Idle(n)' \/ Coming(n, l)'
  <2>1. CASE Idle(n)
    BY <1>1, <2>1
  <2>2. CASE Idle(Peer[n])
    <3>1. wire[Peer[n]] = <<>>
      BY <2>2 DEF Idle
    <3> QED BY <1>2, <3>1, NicComing
  <2> QED BY <2>1, <2>2
<1> QED BY <1>1, <1>2 DEF Steady

\* The completion of a receive is that of a message that was expected, and there is
\* nothing after it.
LEMMA Takes ==
  ASSUME VerbsTypeOK, Paired, NEW n \in Node, Mail(n), PollRecv(n)
  PROVE  /\ Idle(n)' /\ Idle(Peer[n])' /\ ~ Idle(n)
         /\ (\A k \in Node : Steady(k)) /\ UNCHANGED <<up, sq, rq, mem, wire, lost>>
         /\ \E l \in Message :
              /\ Expected(n, l)
              /\ Head(rcq[n]).op = (IF l.op = "SEND" THEN "RECV" ELSE "RECV_IMM")
              /\ Head(rcq[n]).imm = l.imm
              /\ l.op = "WRITE_IMM" /\ l.len = 1 => mem[n]["file_mr"] = l.data
<1>1. rcq[n] # <<>>
  BY DEF PollRecv
<1>2. PICK l \in Message : Expected(n, l) /\ Coming(n, l) /\ Idle(Peer[n]) /\ ~ Idle(n)
  BY <1>1 DEF Mail, Idle
<1>3. PICK r \in Region : InFlight(n, r, l)
  BY <1>2 DEF Coming
<1>4. IsReceived(n, r, l) /\ Idle(n)'
  BY <1>3, PollRecvEffect
<1>5. (\A k \in Node : Steady(k)) /\ UNCHANGED <<up, sq, rq, mem, wire, lost>>
  BY PollSteady DEF PollAny
<1>6. Idle(Peer[n])'
  BY <1>2, <1>5 DEF Steady, Paired
<1>7. /\ Head(rcq[n]).op = (IF l.op = "SEND" THEN "RECV" ELSE "RECV_IMM")
      /\ Head(rcq[n]).imm = l.imm
      /\ l.op = "WRITE_IMM" /\ l.len = 1 => mem[n]["file_mr"] = l.data
  BY <1>4 DEF IsReceived, Filled
<1> QED BY <1>2, <1>4, <1>5, <1>6, <1>7

\* A message posted while nothing is on its way between two end points.
LEMMA Posts ==
  ASSUME IInv, NEW n \in Node, \A k \in Node \ {n} : Same(k),
         NEW l \in Message, IsQueued(Peer[n], l)', Idle(n)', Expected(Peer[n], l)',
         \A k \in Node \ {n, Peer[n]} :
            Idle(k)' \/ \A x \in Message : Expected(k, x) => Expected(k, x)'
  PROVE  /\ Mail("client")' /\ Mail("proxy")' /\ Mail("up1")' /\ Mail("file")'
         /\ \A k \in Node \ {n, Peer[n]} : Idle(k) => Idle(k)'
<1>1. Peer[n] \in Node /\ Peer[Peer[n]] = n
  BY Facts DEF Paired
<1>2. Mail(n)'
  BY MailIdle
<1>3. Mail(Peer[n])'
  <2>1. Coming(Peer[n], l)'
    BY Facts DEF Coming, InFlight
  <2> QED BY <1>1, <2>1 DEF Mail
<1>4. ASSUME NEW k \in Node \ {n, Peer[n]} PROVE Mail(k)' /\ (Idle(k) => Idle(k)')
  <2>1. k # n /\ Peer[k] # n /\ Peer[k] \in Node /\ Peer[k] # Peer[n] /\ Peer[Peer[k]] = k
    BY <1>1, Facts
  <2>2. Steady(k) /\ Steady(Peer[k])
    <3>1. Same(k) /\ Same(Peer[k])
      BY <2>1
    <3> QED BY <2>1, <3>1, SameSteady
  <2>3. Mail(k)
    BY Facts
  <2>4. Mail(k)'
    BY <2>2, <2>3, MailSteady, MailIdle
  <2> QED BY <2>2, <2>4 DEF Steady
<1>5. \A k \in Node : Mail(k)'
  BY <1>2, <1>3, <1>4
<1> QED BY <1>4, <1>5, Facts

LEMMA SendPosted ==
  ASSUME VerbsTypeOK, Paired, NEW n \in Node, NEW r \in Region, NEW p \in Payload,
         PostSend(n, r, p), NoRecv \/ \E x : PostRecv(n, x), NoPoll, Idle(n), Idle(Peer[n])
  PROVE  /\ \E l \in Message : l.op = "SEND" /\ l.data = p /\ IsQueued(Peer[n], l)'
         /\ Idle(n)' /\ \A k \in Node \ {n} : Same(k)
<1> DEFINE w == [op |-> "SEND", mr |-> r, len |-> 1, imm |-> 0]
           l == [op |-> "SEND", data |-> p, len |-> 1, imm |-> 0]
<1>1. /\ w.mr = r /\ w.op = l.op /\ w.len = l.len /\ w.imm = l.imm
      /\ l.data = p /\ l.op = "SEND"
  OBVIOUS
<1>2. l \in Message
  BY DEF Message
<1>3. Post(n, r, p, w)
  BY DEF PostSend
<1>4. \A k \in Node \ {n} : Same(k)
  BY SendSame
<1> HIDE DEF w, l
<1>5. IsQueued(Peer[n], l)' /\ Idle(n)'
  BY <1>1, <1>3, PostAnswer
<1> QED BY <1>1, <1>2, <1>4, <1>5

-----------------------------------------------------------------------------
(* The steps of the client. *)

LEMMA ClientFrame ==
  ASSUME ClientNext
  PROVE  UNCHANGED <<signals, pause, size, short, canOpen, pcF, pos, pcP, immP, content, pool, asked,
                     control, shortBegin, lowBuffer, last, swapped>>
BY DEF ClientNext, runVars, fileVars, handlerVars, switchVars

LEMMA StepClientBegin ==
  ASSUME IInv, TypeOK', ClientNext, ClientBegin, UNCHANGED <<immC, dst, doneC>>
  PROVE  Flow'
<1>0. pcC = "begin" /\ pcC' = "ask" /\ PollRecv("client")
  BY DEF ClientBegin, Moves
<1>1. /\ Idle("client")' /\ Idle("proxy")' /\ (\A k \in Node : Steady(k)) /\ mem' = mem
      /\ \E l \in Message : Expected("client", l)
  BY <1>0, Facts, Takes
<1>2. pcP # "begin"
  BY <1>0, <1>1, ExpectedAt DEF ForClient, Waiting
<1>3. asked = {} /\ pcP # "fetch" /\ pcP # "await" /\ ~ doneC
  BY <1>0, Facts DEF Asking, Saving
<1>4. /\ Mail("client")' /\ Mail("proxy")' /\ Mail("up1")' /\ Mail("file")' /\ OneWay'
      /\ \A n \in Node : Idle(n) => Idle(n)'
  <2>1. \A l : ForUp1(l) => ForUp1(l)'
    BY <1>0, <1>3, ClientFrame, PiecesKept DEF ForUp1, Passed
  <2>2. \A l : ForFile(l) => ForFile(l)'
    BY <1>0, <1>3, ClientFrame DEF ForFile, Passed
  <2> QED BY <1>1, <2>1, <2>2, Carried
<1>5. Asking'
  BY <1>0, <1>2, <1>3, Facts, ClientFrame DEF Asking
<1>6. Sending'
  BY <1>1, <1>4, Facts, ClientFrame, PiecesKept DEF Sending, Passed
<1>7. Saving'
  BY <1>0, <1>3, Facts, ClientFrame, DestinationKept DEF Saving
<1> QED BY <1>4, <1>5, <1>6, <1>7, Kept

LEMMA StepClientAsk ==
  ASSUME IInv, TypeOK', ClientNext, ClientAsk, UNCHANGED <<immC, dst, doneC>>
  PROVE  Flow'
<1>0. pcC = "ask" /\ NoPoll /\ NoRecv
      /\ \/ pcC' = "prepost" /\ PostSend("client", "msg_mr", Text("request"))
         \/ pcC' = "close" /\ NoSend
  BY DEF ClientAsk, Moves
<1>1. asked = {} /\ pcP \notin {"begin", "fetch", "await"} /\ ~ doneC
  BY <1>0, Facts DEF Asking, Saving
<1>2. Idle("client") /\ Idle("proxy")
  <2>1. \A l \in Message : ~ Expected("client", l) /\ ~ Expected("proxy", l)
    BY <1>0, ExpectedAt DEF ForClient, ForProxy, Waiting
  <2> QED BY <2>1, Silent, Facts
<1>3. /\ \A l : ForUp1(l) => ForUp1(l)'
      /\ \A l : ForFile(l) => ForFile(l)'
  BY <1>0, <1>1, ClientFrame, PiecesKept DEF ForUp1, ForFile, Passed
<1>4. /\ Mail("client")' /\ Mail("proxy")' /\ Mail("up1")' /\ Mail("file")' /\ OneWay'
      /\ (Idle("up1") => Idle("up1")') /\ mem'["up1"] = mem["up1"]
  <2>1. CASE pcC' = "prepost" /\ PostSend("client", "msg_mr", Text("request"))
    <3>1. PICK l \in Message : l.op = "SEND" /\ IsQueued("proxy", l)'
      BY <1>0, <1>2, <2>1, Facts, SendPosted, PayloadFacts
    <3>2. Idle("client")' /\ \A k \in Node \ {"client"} : Same(k)
      BY <1>0, <1>2, <2>1, Facts, SendPosted, PayloadFacts
    <3>3. ForProxy(l)'
      BY <1>1, <2>1, <3>1, ClientFrame DEF ForProxy, Waiting
    <3>4. /\ Mail("client")' /\ Mail("proxy")' /\ Mail("up1")' /\ Mail("file")'
          /\ (Idle("up1") => Idle("up1")')
      BY <1>3, <3>1, <3>2, <3>3, ExpectedAt, Facts, Posts
    <3> QED BY <3>2, <3>4, Facts DEF OneWay, Same
  <2>2. CASE NoSend
    <3>1. (\A n \in Node : Steady(n)) /\ mem' = mem
      BY <1>0, <2>2, UnchangedSteady DEF NoSend, NoPoll
    <3>2. Idle("client")' /\ Idle("proxy")'
      BY <1>2, <3>1, Facts DEF Steady
    <3> QED BY <1>3, <3>1, <3>2, Carried, Facts
  <2> QED BY <1>0, <2>1, <2>2
<1>5. Asking'
  BY <1>0, <1>1, Facts, ClientFrame DEF Asking
<1>6. Sending'
  BY <1>4, Facts, ClientFrame, PiecesKept DEF Sending, Passed
<1>7. Saving'
  BY <1>0, <1>1, Facts, ClientFrame, DestinationKept DEF Saving
<1> QED BY <1>4, <1>5, <1>6, <1>7, Kept

\* A step of the client that keeps its place, or goes from one place to the next
\* without a message.
LEMMA StepClientMoves ==
  ASSUME IInv, TypeOK', ClientNext, UNCHANGED <<dst, doneC>>,
         \A n \in Node : Steady(n), mem' = mem,
         \/ pcC \in {"prepost", "repost"} /\ pcC' = "loop"
         \/ pcC = "loop" /\ pcC' = "loop"
         \/ pcC = "close" /\ pcC' = "closed"
  PROVE  Flow'
<1>1. /\ \A l : ForClient(l) => ForClient(l)'
      /\ \A l : ForProxy(l) => ForProxy(l)'
      /\ \A l : ForUp1(l) => ForUp1(l)'
      /\ \A l : ForFile(l) => ForFile(l)'
  <2>1. Waiting' <=> Waiting
    BY DEF Waiting
  <2>2. \A p, i : Arrived(p, i)' <=> Arrived(p, i)
    BY ClientFrame DEF Arrived
  <2>3. \A l : ForClient(l) => ForClient(l)'
    BY <2>1, <2>2, ClientFrame DEF ForClient
  <2>4. \A l : ForUp1(l) => ForUp1(l)'
    BY <2>1, ClientFrame, PiecesKept DEF ForUp1, Passed
  <2> QED BY <2>1, <2>3, <2>4, ClientFrame DEF ForProxy, ForFile, Passed
<1>2. /\ Mail("client")' /\ Mail("proxy")' /\ Mail("up1")' /\ Mail("file")' /\ OneWay'
      /\ \A n \in Node : Idle(n) => Idle(n)'
  BY <1>1, Carried
<1>3. Asking'
  BY Facts, ClientFrame DEF Asking, Waiting
<1>4. Sending'
  BY <1>2, Facts, ClientFrame, PiecesKept DEF Sending, Passed
<1>5. Saving'
  BY Facts, ClientFrame, DestinationKept DEF Saving
<1> QED BY <1>2, <1>3, <1>4, <1>5, Kept

LEMMA StepClientRecv ==
  ASSUME IInv, TypeOK', ClientNext, ClientPoll, PollRecv("client"), UNCHANGED <<dst, doneC>>,
         immC' = Head(rcq["client"]).imm,
         Moves(pcC, "loop", IF Head(rcq["client"]).op = "RECV_IMM" THEN "imm" ELSE "loop")
  PROVE  Flow'
<1>0. pcC = "loop"
  BY DEF Moves
<1>1. /\ Idle("client")' /\ Idle("proxy")' /\ ~ Idle("client")
      /\ (\A k \in Node : Steady(k)) /\ mem' = mem
  BY Facts, Takes
<1>2. PICK l \in Message :
        /\ Expected("client", l)
        /\ Head(rcq["client"]).op = (IF l.op = "SEND" THEN "RECV" ELSE "RECV_IMM")
        /\ Head(rcq["client"]).imm = l.imm
        /\ l.op = "WRITE_IMM" /\ l.len = 1 => mem["client"]["file_mr"] = l.data
  BY Facts, Takes
<1>3. /\ l.op = "WRITE_IMM" /\ l.len = 1 /\ Arrived(l.data, l.imm)
      /\ ~ control /\ dst = <<>> /\ pos = 1 /\ pcF \in {"wait", "fail", "closed"}
  BY <1>0, <1>2, ExpectedAt DEF ForClient
<1>4. pcC' = "imm" /\ Arrived(mem["client"]["file_mr"], immC')
  BY <1>2, <1>3 DEF Moves
<1>5. Idle("up1")'
  BY <1>1, Facts DEF OneWay, Steady
<1>6. \A l1 : ForFile(l1) => ForFile(l1)'
  BY ClientFrame DEF ForFile, Passed
<1>7. /\ Mail("client")' /\ Mail("proxy")' /\ Mail("up1")' /\ Mail("file")' /\ OneWay'
      /\ \A n \in Node : Idle(n) => Idle(n)'
  BY <1>1, <1>5, <1>6, Carried
<1>8. Asking'
  BY <1>0, <1>3, <1>4, Facts, ClientFrame DEF Asking
<1>9. Sending'
  BY <1>1, <1>7, Facts, ClientFrame, PiecesKept DEF Sending, Passed
<1>10. Saving'
  <2>1. Arrived(mem["client"]["file_mr"], immC)'
    BY <1>1, <1>4, ClientFrame DEF Arrived
  <2> QED BY <1>0, <1>3, <1>4, <1>5, <2>1, Facts, ClientFrame, DestinationKept DEF Saving
<1> QED BY <1>7, <1>8, <1>9, <1>10, Kept

\* What the client saves of the chunk that was redirected.
LEMMA BlockSaved ==
  ASSUME IInv, pcC = "imm", SaveChunk
  PROVE  /\ Idle("client") /\ Idle("proxy") /\ Idle("up1")
         /\ ~ control /\ pos = 1 /\ ~ doneC /\ pool = <<>> /\ pcF \in {"wait", "fail", "closed"}
         /\ \/ dst' = <<Text("torn")>>
            \/ dst' = <<Block(1)>> /\ size = 1 /\ last = "short" /\ immC = 1
<1>1. \A l \in Message : ~ Expected("client", l) /\ ~ Expected("proxy", l)
  BY ExpectedAt DEF ForClient, ForProxy, Waiting
<1>2. Idle("client") /\ Idle("proxy")
  BY <1>1, Silent, Facts
<1>3. /\ ~ control /\ dst = <<>> /\ pos = 1 /\ Idle("up1") /\ ~ doneC
      /\ Arrived(mem["client"]["file_mr"], immC) /\ pcF \in {"wait", "fail", "closed"}
      /\ pool = <<>>
  BY Facts DEF Saving, Sending
<1>4. dst' = <<FileBlock("client")>>
  BY <1>3, AppendToEmpty DEF SaveChunk
<1>5. CASE mem["client"]["file_mr"] = Text("torn")
  <2>1. FileBlock("client") = Text("torn")
    BY <1>5 DEF FileBlock, Text
  <2> QED BY <1>2, <1>3, <1>4, <2>1
<1>6. CASE mem["client"]["file_mr"] = Short(1) /\ immC = 1 /\ size = 1 /\ last = "short"
  <2>1. short /\ mem["client"]["file_end"].tail = 1 - 1
    BY <1>6, Facts DEF Ended
  <2>2. mem["client"]["file_mr"] = Piece(1)
    BY <1>6, <2>1 DEF Piece
  <2>3. FileBlock("client") = Block(1)
    BY <2>1, <2>2, BlockRead, Facts
  <2> QED BY <1>2, <1>3, <1>4, <1>6, <2>3
<1> QED BY <1>3, <1>5, <1>6 DEF Arrived

LEMMA StepClientSave ==
  ASSUME IInv, TypeOK', ClientNext, ClientSave
  PROVE  Flow'
<1>0. /\ pcC = "imm" /\ pcC' = "repost" /\ SaveChunk /\ NoPoll /\ doneC' = doneC /\ NoRecv
      /\ PostSend("client", "msg_mr", Text("next")) \/ NoSend
  BY DEF ClientSave, Moves
<1>1. /\ Idle("client") /\ Idle("proxy") /\ Idle("up1")
      /\ ~ control /\ pos = 1 /\ ~ doneC /\ pool = <<>> /\ pcF \in {"wait", "fail", "closed"}
      /\ \/ dst' = <<Text("torn")>>
         \/ dst' = <<Block(1)>> /\ size = 1 /\ last = "short"
  BY <1>0, BlockSaved
<1>2. \A l : ForFile(l) => ForFile(l)'
  BY <1>0, ClientFrame DEF ForFile, Passed
<1>3. /\ Mail("client")' /\ Mail("proxy")' /\ Mail("up1")' /\ Mail("file")' /\ OneWay'
      /\ Idle("up1")' /\ mem'["up1"] = mem["up1"]
  <2>1. CASE PostSend("client", "msg_mr", Text("next"))
    <3>1. PICK l \in Message : l.op = "SEND" /\ IsQueued("proxy", l)'
      BY <1>0, <1>1, <2>1, Facts, SendPosted, PayloadFacts
    <3>2. Idle("client")' /\ \A k \in Node \ {"client"} : Same(k)
      BY <1>0, <1>1, <2>1, Facts, SendPosted, PayloadFacts
    <3>3. ForProxy(l)'
      BY <1>0, <1>1, <3>1, ClientFrame DEF ForProxy, Waiting
    <3>4. Idle("up1")'
      BY <1>1, <3>2, Facts, SameFacts
    <3>5. /\ Mail("client")' /\ Mail("proxy")' /\ Mail("up1")' /\ Mail("file")'
      BY <1>2, <3>1, <3>2, <3>3, <3>4, ExpectedAt, Facts, Posts
    <3> QED BY <3>2, <3>4, <3>5, Facts DEF OneWay, Same
  <2>2. CASE NoSend
    <3>1. (\A n \in Node : Steady(n)) /\ mem' = mem
      BY <1>0, <2>2, UnchangedSteady DEF NoSend, NoPoll
    <3>2. Idle("client")' /\ Idle("proxy")' /\ Idle("up1")'
      BY <1>1, <3>1, Facts DEF Steady
    <3> QED BY <1>2, <3>1, <3>2, Carried, Facts
  <2> QED BY <1>0, <2>1, <2>2
<1>4. Asking'
  BY <1>0, <1>1, Facts, ClientFrame DEF Asking
<1>5. Sending'
  BY <1>1, <1>3, Facts, ClientFrame, PiecesKept DEF Sending, Passed
<1>6. Saving'
  <2>1. Block(1)' = Block(1)
    BY ClientFrame, PiecesKept
  <2>2. OneDestination'
    BY <1>0, <1>1, <2>1, ClientFrame DEF OneDestination
  <2> QED BY <1>0, <1>1, <2>2 DEF Saving
<1> QED BY <1>3, <1>4, <1>5, <1>6, Kept

LEMMA StepClientSaveLast ==
  ASSUME IInv, TypeOK', ClientNext, ClientSaveLast
  PROVE  Flow'
<1>0. /\ pcC = "imm" /\ pcC' = "close" /\ SaveChunk /\ NoPoll /\ NoSend /\ immC = 0 /\ doneC' = TRUE
  BY DEF ClientSaveLast, Moves
<1>1. /\ Idle("client") /\ Idle("proxy") /\ Idle("up1")
      /\ ~ control /\ pos = 1 /\ pool = <<>> /\ pcF \in {"wait", "fail", "closed"}
      /\ dst' = <<Text("torn")>>
  BY <1>0, BlockSaved
<1>2. \A l : ForFile(l) => ForFile(l)'
  BY <1>0, ClientFrame DEF ForFile, Passed
<1>3. (\A n \in Node : Steady(n)) /\ mem' = mem
  BY <1>0, UnchangedSteady DEF NoSend, NoPoll
<1>4. Idle("client")' /\ Idle("proxy")' /\ Idle("up1")'
  BY <1>1, <1>3, Facts DEF Steady
<1>5. /\ Mail("client")' /\ Mail("proxy")' /\ Mail("up1")' /\ Mail("file")' /\ OneWay'
  BY <1>2, <1>3, <1>4, Carried
<1>6. Asking'
  BY <1>0, <1>1, Facts, ClientFrame DEF Asking
<1>7. Sending'
  BY <1>1, <1>3, <1>4, Facts, ClientFrame, PiecesKept DEF Sending, Passed
<1>8. Saving'
  <2>1. OneDestination'
    BY <1>1, ClientFrame DEF OneDestination
  <2> QED BY <1>0, <1>1, <2>1 DEF Saving
<1> QED BY <1>5, <1>6, <1>7, <1>8, Kept

LEMMA ClientKeeps ==
  ASSUME IInv, TypeOK', ClientNext
  PROVE  Flow'
<1>1. CASE ClientBegin /\ UNCHANGED <<immC, dst, doneC>>
  BY <1>1, StepClientBegin
<1>2. CASE ClientAsk /\ UNCHANGED <<immC, dst, doneC>>
  BY <1>2, StepClientAsk
<1>3. CASE ClientPrepost /\ UNCHANGED <<immC, dst, doneC>>
  BY <1>3, StepClientMoves, UnchangedSteady DEF ClientPrepost, Moves, NoSend, NoPoll
<1>8. CASE ClientRepost /\ UNCHANGED <<immC, dst, doneC>>
  BY <1>8, StepClientMoves, UnchangedSteady DEF ClientRepost, Moves, NoSend, NoPoll
<1>4. CASE ClientClose /\ UNCHANGED <<immC, dst, doneC>>
  BY <1>4, StepClientMoves, CloseSteady, Facts DEF ClientClose, Moves
<1>5. CASE ClientPoll /\ UNCHANGED <<dst, doneC>>
  <2>1. CASE Moves(pcC, "loop", "loop") /\ PollSend("client")
    BY <1>5, <2>1, StepClientMoves, PollSteady, Facts DEF PollAny, Moves
  <2>2. CASE ~ (Moves(pcC, "loop", "loop") /\ PollSend("client"))
    BY <1>5, <2>2, StepClientRecv DEF ClientPoll
  <2> QED BY <2>1, <2>2
<1>6. CASE ClientSave
  BY <1>6, StepClientSave
<1>7. CASE ClientSaveLast
  BY <1>7, StepClientSaveLast
<1> QED BY <1>1, <1>2, <1>3, <1>4, <1>5, <1>6, <1>7, <1>8 DEF ClientNext, ClientStep

-----------------------------------------------------------------------------
(* The steps of the proxy. *)

LEMMA ProxyFrame ==
  ASSUME ProxyNext
  PROVE  UNCHANGED <<signals, pause, size, short, canOpen, pcC, immC, dst, doneC, pcF, pos,
                     control, shortBegin, lowBuffer, last>>
BY DEF ProxyNext, runVars, clientVars, fileVars, switchVars

LEMMA ClientExpects ==
  ASSUME ProxyNext, pcP # "begin" => pcP' # "begin"
  PROVE  \A l : ForClient(l) => ForClient(l)'
<1>1. \A p, i : Arrived(p, i)' <=> Arrived(p, i)
  BY ProxyFrame DEF Arrived
<1> QED BY <1>1, ProxyFrame DEF ForClient, Waiting

LEMMA StepProxyBegin ==
  ASSUME IInv, TypeOK', ProxyNext, ProxyBegin, UNCHANGED <<immP, content, pool, asked>>
  PROVE  Flow'
<1>0. /\ pcP = "begin" /\ pcP' = "pollA" /\ PostRecv("proxy", "file_mr") /\ NoPoll
      /\ PostSend("proxy", "msg_mr", Text("begin"))
  BY DEF ProxyBegin, Moves, Welcome
<1>1. pcC = "begin" /\ asked = {} /\ pcF = "idle" /\ ~ doneC
  BY <1>0, Facts DEF Asking, Saving
<1>2. Idle("client") /\ Idle("proxy") /\ Idle("up1") /\ Idle("file")
  <2>1. \A n \in Node : \A l \in Message : ~ Expected(n, l)
    BY <1>0, <1>1 DEF Expected, ForClient, ForProxy, ForUp1, ForFile, Waiting, Passed
  <2> QED BY <2>1, Silent, Facts
<1>3. PICK l \in Message : l.op = "SEND" /\ l.data = Text("begin") /\ IsQueued("client", l)'
  BY <1>0, <1>2, Facts, SendPosted, PayloadFacts
<1>4. Idle("proxy")' /\ \A k \in Node \ {"proxy"} : Same(k)
  BY <1>0, <1>2, Facts, SendPosted, PayloadFacts
<1>5. ForClient(l)'
  BY <1>0, <1>1, <1>3, ProxyFrame DEF ForClient, Text
<1>6. Idle("up1")' /\ Idle("file")'
  BY <1>2, <1>4, Facts, SameFacts
<1>7. Mail("client")' /\ Mail("proxy")' /\ Mail("up1")' /\ Mail("file")' /\ OneWay'
  BY <1>3, <1>4, <1>5, <1>6, ExpectedAt, Facts, Posts DEF OneWay
<1>8. Asking'
  BY <1>0, <1>1, Facts, ProxyFrame DEF Asking
<1>9. Sending'
  BY <1>0, <1>1, Facts, ProxyFrame, PiecesKept DEF Sending
<1>10. Saving'
  BY <1>1, Facts, ProxyFrame, DestinationKept DEF Saving
<1> QED BY <1>7, <1>8, <1>9, <1>10, Kept

\* A step of the proxy before it asks the file server, but for what it takes of a request.
LEMMA StepProxyEarly ==
  ASSUME IInv, TypeOK', ProxyNext, UNCHANGED <<pool, asked>>,
         \A n \in Node : Steady(n),
         \/ pcP = "pollA" /\ pcP' = "pollB"
         \/ pcP = "pollB" /\ pcP' = "fail"
         \/ pcP = "pollB" /\ pcP' = "fetch" /\ Waiting /\ Idle("proxy")'
         \/ pcP = "fail" /\ pcP' = "closed"
  PROVE  Flow'
<1>1. asked = {} /\ pcF = "idle" /\ pos = 0 /\ pcC # "imm"
  BY Facts DEF Asking
<1>2. /\ \A l : ForClient(l) => ForClient(l)'
      /\ Idle("proxy")' \/ \A l : ForProxy(l) => ForProxy(l)'
      /\ \A l : ForUp1(l) => ForUp1(l)'
      /\ \A l : ForFile(l) => ForFile(l)'
  BY <1>1, ClientExpects, ProxyFrame DEF ForProxy, ForUp1, ForFile, Waiting, Passed
<1>3. /\ Mail("client")' /\ Mail("proxy")' /\ Mail("up1")' /\ Mail("file")' /\ OneWay'
  BY <1>2, Carried
<1>4. Asking'
  BY <1>1, Facts, ProxyFrame DEF Asking, Waiting
<1>5. Sending'
  BY <1>1, Facts, ProxyFrame, PiecesKept DEF Sending
<1>6. Saving'
  BY <1>1, Facts, ProxyFrame, DestinationKept DEF Saving
<1> QED BY <1>3, <1>4, <1>5, <1>6, Kept

LEMMA StepProxyRequest ==
  ASSUME IInv, TypeOK', ProxyNext, UNCHANGED <<pool, asked>>,
         Moves(pcP, "pollB", "fetch"), PollRecv("proxy")
  PROVE  Flow'
<1>1. /\ Idle("proxy")' /\ \A k \in Node : Steady(k)
      /\ \E l \in Message : Expected("proxy", l)
  BY Facts, Takes
<1>2. Waiting
  BY <1>1, ExpectedAt DEF ForProxy
<1> QED BY <1>1, <1>2, StepProxyEarly DEF Moves

LEMMA StepProxyFetch ==
  ASSUME IInv, TypeOK', ProxyNext, ProxyFetch({"up1"}, "file", "await"), UNCHANGED pool
  PROVE  Flow'
<1>0. pcP = "fetch" /\ pcP' = "await" /\ asked' # {} /\ NoSend /\ NoPoll
  BY DEF ProxyFetch, Moves
<1>1. asked = {} /\ pcF = "idle" /\ pos = 0 /\ pcC # "imm" /\ dst = <<>> /\ Waiting
  BY <1>0, Facts DEF Asking
<1>2. Idle("client") /\ Idle("proxy") /\ Idle("up1") /\ Idle("file")
  <2>1. \A n \in Node : \A l \in Message : ~ Expected(n, l)
    BY <1>0, <1>1 DEF Expected, ForClient, ForProxy, ForUp1, ForFile, Waiting, Passed
  <2> QED BY <2>1, Silent, Facts
<1>3. \A n \in Node : Steady(n)
  BY <1>0, UnchangedSteady DEF NoSend, NoPoll
<1>4. Idle("client")' /\ Idle("proxy")' /\ Idle("up1")' /\ Idle("file")'
  BY <1>2, <1>3, Facts DEF Steady
<1>5. Mail("client")' /\ Mail("proxy")' /\ Mail("up1")' /\ Mail("file")' /\ OneWay'
  BY <1>4, MailIdle DEF OneWay
<1>6. Asking'
  BY <1>0, <1>1, Facts, ProxyFrame DEF Asking, Waiting
<1>7. Sending'
  BY <1>0, <1>1, Facts, ProxyFrame, PiecesKept DEF Sending
<1>8. Saving'
  BY <1>1, Facts, ProxyFrame, DestinationKept DEF Saving
<1> QED BY <1>5, <1>6, <1>7, <1>8, Kept

LEMMA StepProxyAwait ==
  ASSUME IInv, TypeOK', ProxyNext, ProxyAwaitBegin("up1", "await", "ask"),
         UNCHANGED <<pool, asked>>
  PROVE  Flow'
<1>0. pcP = "await" /\ pcP' = "ask" /\ PollRecv("up1")
  BY DEF ProxyAwaitBegin, Moves
<1>1. /\ Idle("up1")' /\ Idle("file")' /\ (\A k \in Node : Steady(k)) /\ mem' = mem
      /\ \E l \in Message : Expected("up1", l)
  BY <1>0, Facts, Takes
<1>2. pcF \in {"pollA", "pollB", "return"}
  BY <1>0, <1>1, ExpectedAt DEF ForUp1, Passed
<1>3. asked # {}
  BY <1>0, Facts DEF Asking
<1>4. /\ \A l : ForClient(l) => ForClient(l)'
      /\ \A l : ForProxy(l) => ForProxy(l)'
  BY <1>0, <1>3, ClientExpects, ProxyFrame DEF ForProxy, Waiting
<1>5. /\ Mail("client")' /\ Mail("proxy")' /\ Mail("up1")' /\ Mail("file")' /\ OneWay'
  BY <1>1, <1>4, Carried
<1>6. Asking'
  BY <1>0, <1>2, <1>3, Facts, ProxyFrame DEF Asking, Waiting
<1>7. Sending'
  BY <1>0, <1>2, Facts, ProxyFrame, PiecesKept DEF Sending
<1>8. Saving'
  BY <1>1, <1>2, Facts, ProxyFrame, DestinationKept DEF Saving
<1> QED BY <1>5, <1>6, <1>7, <1>8, Kept

LEMMA StepRequest ==
  ASSUME IInv, TypeOK', ProxyNext, Request, UNCHANGED <<immP, content, pool, asked>>
  PROVE  Flow'
<1>0. /\ pcP = "ask" /\ pcP' \in {"prepost", "serve"} /\ (~ control => pcP' = "serve")
      /\ NoRecv /\ NoPoll /\ (PostSend("up1", "msg_mr", content) \/ NoSend)
  BY DEF Request, Moves
<1>1. pcF \in {"pollA", "pollB", "return"} /\ asked # {}
  BY <1>0, Facts DEF Asking
<1>2. Idle("up1") /\ Idle("file")
  <2>1. \A l \in Message : ~ Expected("up1", l) /\ ~ Expected("file", l)
    BY <1>0, ExpectedAt DEF ForUp1, ForFile, Passed
  <2> QED BY <2>1, Silent, Facts
<1>3. /\ \A l : ForClient(l) => ForClient(l)'
      /\ \A l : ForProxy(l) => ForProxy(l)'
  BY <1>0, <1>1, ClientExpects, ProxyFrame DEF ForProxy, Waiting
<1>4. /\ Mail("client")' /\ Mail("proxy")' /\ Mail("up1")' /\ Mail("file")' /\ OneWay'
      /\ mem'["client"] = mem["client"] /\ Idle("up1")'
  <2>1. CASE PostSend("up1", "msg_mr", content)
    <3>1. PICK l \in Message : l.op = "SEND" /\ IsQueued("file", l)'
      BY <1>0, <1>2, <2>1, Facts, SendPosted
    <3>2. Idle("up1")' /\ \A k \in Node \ {"up1"} : Same(k)
      BY <1>0, <1>2, <2>1, Facts, SendPosted
    <3>3. ForFile(l)'
      BY <1>0, <1>1, <3>1, ProxyFrame DEF ForFile, Passed
    <3>4. /\ Mail("client")' /\ Mail("proxy")' /\ Mail("up1")' /\ Mail("file")'
      BY <1>3, <3>1, <3>2, <3>3, ExpectedAt, Facts, Posts
    <3> QED BY <3>2, <3>4, Facts DEF OneWay, Same
  <2>2. CASE NoSend
    <3>1. (\A n \in Node : Steady(n)) /\ mem' = mem
      BY <1>0, <2>2, UnchangedSteady DEF NoSend, NoPoll
    <3>2. Idle("up1")' /\ Idle("file")'
      BY <1>2, <3>1, Facts DEF Steady
    <3> QED BY <1>3, <3>1, <3>2, Carried, Facts
  <2> QED BY <1>0, <2>1, <2>2
<1>5. Asking'
  BY <1>0, <1>1, Facts, ProxyFrame DEF Asking, Waiting
<1>6. Sending'
  BY <1>0, <1>1, Facts, ProxyFrame, PiecesKept DEF Sending
<1>7. Saving'
  BY <1>1, Facts, ProxyFrame, DestinationKept DEF Saving
<1> QED BY <1>4, <1>5, <1>6, <1>7, Kept

\* A step of the proxy that takes nothing, once the file server has its request.
LEMMA StepProxyMoves ==
  ASSUME IInv, TypeOK', ProxyNext, UNCHANGED <<pool, asked>>,
         \A n \in Node : Steady(n), mem' = mem,
         \/ pcP = "prepost" /\ pcP' = "fileLoop"
         \/ pcP = "fileLoop" /\ pcP' = "fileLoop"
         \/ pcP = "chunk" /\ pcP' = "serve"
         \/ pcP = "serve" /\ pcP' = "closed"
  PROVE  Flow'
<1>1. Passed => Passed'
  BY DEF Passed
<1>2. /\ \A l : ForClient(l) => ForClient(l)'
      /\ \A l : ForProxy(l) => ForProxy(l)'
      /\ \A l : ForUp1(l) => ForUp1(l)'
      /\ \A l : ForFile(l) => ForFile(l)'
  BY <1>1, ClientExpects, ProxyFrame, PiecesKept DEF ForProxy, ForUp1, ForFile, Waiting
<1>3. /\ Mail("client")' /\ Mail("proxy")' /\ Mail("up1")' /\ Mail("file")' /\ OneWay'
      /\ \A n \in Node : Idle(n) => Idle(n)'
  BY <1>2, Carried
<1>4. Asking'
  BY Facts, ProxyFrame DEF Asking, Waiting
<1>5. Sending'
  BY <1>1, <1>3, Facts, ProxyFrame, PiecesKept DEF Sending
<1>6. Saving'
  <2>1. pcC = "imm" => Arrived(mem["client"]["file_mr"], immC)'
    BY Facts, ProxyFrame DEF Saving, Arrived
  <2> QED BY <1>3, <2>1, Facts, ProxyFrame, DestinationKept DEF Saving
<1> QED BY <1>3, <1>4, <1>5, <1>6, Kept

LEMMA StepProxyRecv ==
  ASSUME IInv, TypeOK', ProxyNext, ProxyLoop("up1"), PollRecv("up1"),
         immP' = Head(rcq["up1"]).imm,
         Moves(pcP, "fileLoop", IF Head(rcq["up1"]).op = "RECV_IMM" THEN "chunk" ELSE "fileLoop"),
         UNCHANGED <<pool, asked>>
  PROVE  Flow'
<1>0. pcP = "fileLoop" /\ pcP' \in {"chunk", "fileLoop"} /\ control
  BY Facts DEF Moves, Sending
<1>1. /\ Idle("up1")' /\ Idle("file")' /\ (\A k \in Node : Steady(k)) /\ mem' = mem
  BY Facts, Takes
<1>2. PICK l \in Message :
        /\ Expected("up1", l)
        /\ Head(rcq["up1"]).op = (IF l.op = "SEND" THEN "RECV" ELSE "RECV_IMM")
        /\ Head(rcq["up1"]).imm = l.imm
        /\ l.op = "WRITE_IMM" /\ l.len = 1 => mem["up1"]["file_mr"] = l.data
  BY Facts, Takes
<1>3. \/ l.op = "SEND" /\ pcP' = "fileLoop"
      \/ /\ immP' = 1 /\ mem["up1"]["file_mr"] = Piece(pos) /\ pos = Len(pool) + 1
         /\ pcF \in {"wait", "fail", "closed"}
      \/ immP' = 0 /\ pcF = "return"
  <2>1. CASE l.op = "SEND"
    BY <1>2, <2>1 DEF Moves
  <2>2. CASE l = Written(Piece(pos), 1) /\ pos = Len(pool) + 1 /\ pcF \in {"wait", "fail", "closed"}
    BY <1>2, <2>2 DEF Written
  <2>3. CASE l = EmptyWrite /\ pcF = "return"
    BY <1>2, <2>3 DEF EmptyWrite
  <2> QED BY <1>2, <2>1, <2>2, <2>3, ExpectedAt DEF ForUp1
<1>4. /\ \A x : ForClient(x) => ForClient(x)'
      /\ \A x : ForProxy(x) => ForProxy(x)'
  BY <1>0, ClientExpects, ProxyFrame DEF ForProxy, Waiting
<1>5. /\ Mail("client")' /\ Mail("proxy")' /\ Mail("up1")' /\ Mail("file")' /\ OneWay'
  BY <1>1, <1>4, Carried
<1>6. Asking'
  BY <1>0, Facts, ProxyFrame DEF Asking, Waiting
<1>7. Sending'
  <2>1. pcP' = "chunk" => \/ immP' = 0
                          \/ /\ immP' = 1 /\ mem'["up1"]["file_mr"] = Piece(pos)
                             /\ pos = Len(pool) + 1
    BY <1>1, <1>3
  <2>2. pcP' = "chunk" => pcF \in {"wait", "fail", "closed", "return"}
    BY <1>3
  <2>3. Passed /\ pcP' # "chunk" => Passed'
    BY <1>0 DEF Passed
  <2>4. pcP' = "chunk" /\ immP' # 0 => pcF \in {"wait", "fail", "closed"}
    BY <1>3
  <2>5. Piece(pos)' = Piece(pos) /\ \A i : Block(i)' = Block(i)
    BY ProxyFrame, PiecesKept
  <2> QED BY <1>0, <1>1, <2>1, <2>2, <2>3, <2>4, <2>5, Facts, ProxyFrame DEF Sending
<1>8. Saving'
  BY <1>0, <1>1, Facts, ProxyFrame, DestinationKept DEF Saving
<1> QED BY <1>5, <1>6, <1>7, <1>8, Kept

\* A beginning of the file, as a function and element by element.
LEMMA PrefixGrows ==
  ASSUME NEW s \in Seq(Payload), NEW k \in Nat, k = Len(s) + 1,
         \A i \in 1..Len(s) : s[i] = Block(i)
  PROVE  LET t == Append(s, Block(k)) IN
         /\ Len(t) = k /\ (\A i \in 1..Len(t) : t[i] = Block(i))
         /\ t = [i \in 1..Len(t) |-> Block(i)]
<1>1. Block(k) \in Payload
  BY PieceTyped, EmptyFacts
<1>2. PICK c \in Payload : c = Block(k)
  BY <1>1
<1> DEFINE t == Append(s, c)
<1>3. t \in Seq(Payload) /\ Len(t) = k /\ t[k] = c /\ \A i \in 1..Len(s) : t[i] = s[i]
  BY <1>2, AppendFacts
<1> HIDE DEF t
<1>4. \A i \in 1..Len(t) : t[i] = Block(i)
  <2>1. ASSUME NEW i \in 1..Len(t) PROVE i \in 1..Len(s) \/ i = k
    BY <1>3, EmptyFacts
  <2> QED BY <1>2, <1>3, <2>1
<1>5. t = [i \in 1..Len(t) |-> t[i]]
  BY <1>3
<1>6. t = [i \in 1..Len(t) |-> Block(i)]
  BY <1>4, <1>5
<1> QED BY <1>2, <1>3, <1>4, <1>6 DEF t

\* Of a file whose last chunk is short, the proxy finds at the end of its region, when it
\* comes to keep that chunk, the end of the one before.
LEMMA EndTail ==
  ASSUME IInv, short, Len(pool) + 1 = size
  PROVE  mem["up1"]["file_end"].tail = size - 1
<1>1. VerbsTypeOK /\ "up1" \in Node /\ size \in Nat /\ Len(pool) \in Nat
  BY Facts
<1>2. mem["up1"]["file_end"].tail \in Nat
  BY <1>1 DEF VerbsTypeOK, Part, Payload
<1> QED BY <1>1, <1>2, Facts DEF Ended, EndKept

LEMMA StepProxyChunk ==
  ASSUME IInv, TypeOK', ProxyNext, ProxyChunk("up1"), UNCHANGED <<immP, content, asked>>
  PROVE  Flow'
<1>0. /\ pcP = "chunk" /\ pcP' = "fileLoop" /\ immP # 0 /\ NoPoll
      /\ pool' = Append(pool, FileBlock("up1"))
      /\ PostRecv("up1", "file_mr") /\ PostSend("up1", "msg_mr", Text("next"))
  BY DEF ProxyChunk, ProxyKeeps, Moves
<1>1. /\ control /\ Idle("up1") /\ mem["up1"]["file_mr"] = Piece(pos) /\ pos = Len(pool) + 1
      /\ pcF \in {"wait", "fail", "closed"}
  BY <1>0, Facts DEF Sending
<1>2. asked # {} /\ dst = <<>> /\ pcC # "imm"
  BY <1>1, Facts DEF Asking
<1>3. Idle("file")
  <2>1. \A l \in Message : ~ Expected("file", l)
    BY <1>0, ExpectedAt DEF ForFile, Passed
  <2> QED BY <2>1, Silent, Facts
<1>4. /\ Len(pool') = pos /\ (\A i \in 1..Len(pool') : pool'[i] = Block(i))
      /\ pool' = [i \in 1..Len(pool') |-> Block(i)]
  <2>1. \A i \in 1..Len(pool) : pool[i] = Block(i)
    BY Facts DEF Sending
  <2>2. pool' = Append(pool, Block(pos)) /\ pool \in Seq(Payload) /\ pos \in Nat
    <3>1. short /\ pos = size => mem["up1"]["file_end"].tail = pos - 1
      BY <1>1, EndTail
    <3>2. FileBlock("up1") = Block(pos)
      BY <1>1, <3>1, BlockRead, Facts
    <3> QED BY <1>0, <3>2, Facts
  <2> QED BY <1>1, <2>1, <2>2, PrefixGrows
<1>5. PICK l \in Message : l.op = "SEND" /\ IsQueued("file", l)'
  BY <1>0, <1>1, <1>3, Facts, SendPosted, PayloadFacts
<1>6. Idle("up1")' /\ \A k \in Node \ {"up1"} : Same(k)
  BY <1>0, <1>1, <1>3, Facts, SendPosted, PayloadFacts
<1>7. ForFile(l)'
  BY <1>0, <1>1, <1>2, <1>4, <1>5, ProxyFrame DEF ForFile, Passed
<1>8. /\ \A x : ForClient(x) => ForClient(x)'
      /\ \A x : ForProxy(x) => ForProxy(x)'
  BY <1>0, <1>2, ClientExpects, ProxyFrame DEF ForProxy, Waiting
<1>9. Mail("client")' /\ Mail("proxy")' /\ Mail("up1")' /\ Mail("file")' /\ OneWay'
  BY <1>5, <1>6, <1>7, <1>8, ExpectedAt, Facts, Posts DEF OneWay
<1>10. Asking'
  BY <1>0, <1>1, <1>2, Facts, ProxyFrame DEF Asking, Waiting
<1>11. Sending'
  BY <1>0, <1>1, <1>4, Facts, ProxyFrame, PiecesKept DEF Sending
<1>12. Saving'
  <2>1. \A i : Block(i)' = Block(i)
    BY ProxyFrame, PiecesKept
  <2>2. pool' = [i \in 1..Len(pool) |-> Block(i)]'
    BY <1>4, <2>1
  <2>3. OneDestination'
    BY <1>1, <1>2, <2>2, ProxyFrame DEF OneDestination
  <2> QED BY <1>1, <1>2, <2>3, Facts, ProxyFrame DEF Saving
<1> QED BY <1>9, <1>10, <1>11, <1>12, Kept

LEMMA ProxyKeepsInvariant ==
  ASSUME IInv, TypeOK', ProxyNext
  PROVE  Flow'
<1>1. CASE ProxyPollA /\ UNCHANGED <<immP, content, pool, asked>>
  <2>1. pcP = "pollA" /\ pcP' = "pollB" /\ PollAny("proxy")
    BY <1>1 DEF ProxyPollA, Moves, PollForSend, PollAny
  <2> QED BY <1>1, <2>1, StepProxyEarly, PollSteady, Facts
<1>2. CASE /\ \/ ReceiveSend \/ ProxyAwaitBegin("up1", "await", "ask") \/ Request \/ Prepost
              \/ ProxyEnd("serve") \/ ProxyClose
           /\ UNCHANGED <<immP, content, pool, asked, swapped>>
  <2>1. CASE ProxyBegin
    BY <1>2, <2>1, StepProxyBegin
  <2>2. CASE ProxyPollB
    <3>1. CASE Moves(pcP, "pollB", "fail") /\ PollSend("proxy")
      BY <1>2, <3>1, StepProxyEarly, PollSteady, Facts DEF Moves, PollAny
    <3>2. CASE Moves(pcP, "pollB", "fetch") /\ PollRecv("proxy")
      BY <1>2, <3>2, StepProxyRequest
    <3> QED BY <2>2, <3>1, <3>2 DEF ProxyPollB
  <2>3. CASE ProxyAwaitBegin("up1", "await", "ask")
    BY <1>2, <2>3, StepProxyAwait
  <2>4. CASE Request
    BY <1>2, <2>4, StepRequest
  <2>5. CASE Prepost
    BY <1>2, <2>5, StepProxyMoves, UnchangedSteady DEF Prepost, Moves, NoSend, NoPoll
  <2>6. CASE ProxyEnd("serve")
    BY <1>2, <2>6, StepProxyMoves, UnchangedSteady DEF ProxyEnd, Moves, NoSend, NoPoll
  <2>7. CASE ProxyClose
    <3>1. (\A n \in Node : Steady(n)) /\ mem' = mem
      BY <2>7, CloseSteady, Facts DEF ProxyClose
    <3>2. CASE pcP = "fail" /\ pcP' = "closed"
      BY <1>2, <3>1, <3>2, StepProxyEarly
    <3>3. CASE pcP = "serve" /\ pcP' = "closed"
      BY <1>2, <3>1, <3>3, StepProxyMoves
    <3> QED BY <2>7, <3>2, <3>3 DEF ProxyClose, Moves
  <2> QED BY <1>2, <2>1, <2>2, <2>3, <2>4, <2>5, <2>6, <2>7 DEF ReceiveSend
<1>3. CASE ProxyFetch({"up1"}, "file", "await") /\ UNCHANGED <<immP, pool, swapped>>
  BY <1>3, StepProxyFetch
<1>4. CASE ProxyLoop("up1") /\ UNCHANGED <<content, pool, asked, swapped>>
  <2>1. CASE Moves(pcP, "fileLoop", "fileLoop") /\ PollSend("up1")
    BY <1>4, <2>1, StepProxyMoves, PollSteady, Facts DEF Moves, PollAny
  <2>2. CASE ~ (Moves(pcP, "fileLoop", "fileLoop") /\ PollSend("up1"))
    BY <1>4, <2>2, StepProxyRecv DEF ProxyLoop
  <2> QED BY <2>1, <2>2
<1>5. CASE ProxyChunk("up1") /\ UNCHANGED <<immP, content, asked, swapped>>
  BY <1>5, StepProxyChunk
<1> QED BY <1>1, <1>2, <1>3, <1>4, <1>5 DEF ProxyNext

-----------------------------------------------------------------------------
(* The steps of the file server. *)

LEMMA FileFrame ==
  ASSUME FileNextStep
  PROVE  UNCHANGED <<signals, pause, size, short, canOpen, pcC, immC, dst, doneC,
                     pcP, immP, content, pool, asked, control, shortBegin, lowBuffer, last>>
BY DEF FileNextStep, runVars, clientVars, handlerVars, switchVars

\* What is left for the client and the proxy by a step of the file server.
LEMMA ProxyExpects ==
  ASSUME FileNextStep
  PROVE  \A l : ForProxy(l) => ForProxy(l)'
BY FileFrame DEF ForProxy, Waiting

LEMMA ClientStillExpects ==
  ASSUME FileNextStep, pos' = pos,
         pcF \in {"wait", "fail", "closed"} => control \/ pcF' \in {"wait", "fail", "closed"}
  PROVE  \A l : ForClient(l) => ForClient(l)'
<1>1. \A p, i : Arrived(p, i)' <=> Arrived(p, i)
  BY FileFrame DEF Arrived
<1> QED BY <1>1, FileFrame DEF ForClient, Waiting

LEMMA StepFileBegin ==
  ASSUME IInv, TypeOK', FileNextStep, FileBegin, asked # {}
  PROVE  Flow'
<1>0. /\ pcF = "idle" /\ pcF' = "pollA" /\ PostRecv("file", "file_mr") /\ NoPoll /\ pos' = pos
      /\ PostSend("file", "msg_mr", Text("begin"))
  BY DEF FileBegin, Moves, Welcome
<1>1. pcP = "await" /\ pcC # "imm" /\ pos = 0
  BY <1>0, Facts DEF Asking
<1>2. Idle("up1") /\ Idle("file")
  <2>1. \A l \in Message : ~ Expected("up1", l) /\ ~ Expected("file", l)
    BY <1>0, <1>1, ExpectedAt DEF ForUp1, ForFile, Passed
  <2> QED BY <2>1, Silent, Facts
<1>3. PICK l \in Message : l.op = "SEND" /\ l.data = Text("begin") /\ IsQueued("up1", l)'
  BY <1>0, <1>2, Facts, SendPosted, PayloadFacts
<1>4. Idle("file")' /\ \A k \in Node \ {"file"} : Same(k)
  BY <1>0, <1>2, Facts, SendPosted, PayloadFacts
<1>5. ForUp1(l)'
  BY <1>0, <1>1, <1>3, FileFrame DEF ForUp1, Text
<1>6. Idle("client")
  <2>1. \A l1 \in Message : ~ Expected("client", l1)
    BY <1>0, Facts, ExpectedAt DEF ForClient, Asking
  <2> QED BY <2>1, Silent, Facts
<1>7. Idle("client")'
  BY <1>4, <1>6, Facts, SameFacts
<1>8. Mail("client")' /\ Mail("proxy")' /\ Mail("up1")' /\ Mail("file")' /\ OneWay'
  BY <1>3, <1>4, <1>5, <1>7, ProxyExpects, ExpectedAt, Facts, Posts DEF OneWay
<1>9. Asking'
  BY <1>0, <1>1, Facts, FileFrame DEF Asking, Waiting
<1>10. Sending'
  BY <1>0, <1>1, Facts, FileFrame, PiecesKept DEF Sending
<1>11. Saving'
  BY <1>1, Facts, FileFrame, DestinationKept DEF Saving
<1> QED BY <1>8, <1>9, <1>10, <1>11, Kept

\* A step of the file server that takes nothing and posts no message.
LEMMA StepFileMoves ==
  ASSUME IInv, TypeOK', FileNextStep, pos' = pos,
         \A n \in Node : Steady(n), mem' = mem,
         \/ pcF = "pollA" /\ pcF' = "pollB"
         \/ pcF = "pollB" /\ pcF' = "return"
         \/ pcF = "wait" /\ pcF' = "wait"
         \/ pcF = "open" /\ pcF' = "read"
         \/ pcF = "next" /\ pcF' \in {"read", "wait"}
         \/ pcF = "fail" /\ pcF' = "closed"
  PROVE  Flow'
<1>1. /\ \A l : ForClient(l) => ForClient(l)'
      /\ \A l : ForProxy(l) => ForProxy(l)'
      /\ \A l : ForUp1(l) => ForUp1(l)'
      /\ \A l : ForFile(l) => ForFile(l)'
  <2>1. \A l : ForUp1(l) => ForUp1(l)'
    BY FileFrame, PiecesKept DEF ForUp1, Waiting, Passed
  <2>2. \A l : ForFile(l) => ForFile(l)'
    BY FileFrame DEF ForFile, Passed
  <2> QED BY <2>1, <2>2, ClientStillExpects, ProxyExpects
<1>2. /\ Mail("client")' /\ Mail("proxy")' /\ Mail("up1")' /\ Mail("file")' /\ OneWay'
      /\ \A n \in Node : Idle(n) => Idle(n)'
  BY <1>1, Carried
<1>3. Asking'
  BY Facts, FileFrame DEF Asking, Waiting
<1>4. Sending'
  <2>1. pcF' \in {"open", "read", "next"} => Passed' /\ pos = Len(pool)
    BY Facts, FileFrame DEF Sending, Passed
  <2> QED BY <1>2, <2>1, Facts, FileFrame, PiecesKept DEF Sending
<1>5. Saving'
  <2>1. pcC = "imm" => Arrived(mem["client"]["file_mr"], immC)'
    BY Facts, FileFrame DEF Saving, Arrived
  <2> QED BY <1>2, <2>1, Facts, FileFrame, DestinationKept DEF Saving
<1> QED BY <1>2, <1>3, <1>4, <1>5, Kept

\* It takes the request, or NEXT.
LEMMA StepFileRecv ==
  ASSUME IInv, TypeOK', FileNextStep, pos' = pos, PollRecv("file"),
         \/ pcF = "pollA" /\ pcF' = "pollB"
         \/ pcF = "pollB" /\ pcF' = "open"
         \/ pcF = "wait" /\ pcF' = "next"
  PROVE  Flow'
<1>1. /\ Idle("file")' /\ Idle("up1")' /\ (\A k \in Node : Steady(k)) /\ mem' = mem
      /\ \E l \in Message : Expected("file", l)
  BY Facts, Takes
<1>2. Passed /\ (pcF = "wait" => control /\ pos = Len(pool))
  BY <1>1, ExpectedAt DEF ForFile
<1>3. pcF = "pollB" => pos = 0 /\ Len(pool) = 0
  BY Facts DEF Asking, Sending
<1>4. \A l : ForClient(l) => ForClient(l)'
  BY <1>2, ClientStillExpects
<1>5. /\ Mail("client")' /\ Mail("proxy")' /\ Mail("up1")' /\ Mail("file")' /\ OneWay'
  BY <1>1, <1>4, ProxyExpects, Carried
<1>6. Asking'
  BY <1>2, Facts, FileFrame DEF Asking, Waiting, Passed
<1>7. Sending'
  BY <1>1, <1>2, <1>3, Facts, FileFrame, PiecesKept DEF Sending, Passed
<1>8. Saving'
  BY <1>2, Facts, FileFrame, DestinationKept DEF Saving
<1> QED BY <1>5, <1>6, <1>7, <1>8, Kept

\* When the file server is about to answer, nothing is on its way to it or from it,
\* and nothing to the client.
LEMMA Answering ==
  ASSUME IInv, pcF \in {"open", "read", "next"}
  PROVE  /\ Idle("up1") /\ Idle("file") /\ Idle("client")
         /\ Passed /\ pos = Len(pool) /\ pcC # "imm" /\ pcC # "begin" /\ pcP # "chunk"
<1>1. Passed /\ pos = Len(pool) /\ pcC # "imm" /\ pcP # "chunk"
  BY Facts DEF Sending, Saving, Passed
<1>2. pcC # "begin"
  BY <1>1, Facts DEF Asking, Passed
<1>3. \A l \in Message : ~ Expected("up1", l) /\ ~ Expected("file", l) /\ ~ Expected("client", l)
  BY <1>1, <1>2, ExpectedAt DEF ForUp1, ForFile, ForClient, Passed
<1> QED BY <1>1, <1>2, <1>3, Silent, Facts

\* It answers with a message.
LEMMA FileAnswers ==
  ASSUME IInv, TypeOK', FileNextStep, pcF \in {"open", "read"},
         \A k \in Node \ {"file"} : Same(k), Idle("file")',
         NEW l \in Message, IsQueued("up1", l)', ForUp1(l)'
  PROVE  /\ Mail("client")' /\ Mail("proxy")' /\ Mail("up1")' /\ Mail("file")' /\ OneWay'
         /\ mem'["client"] = mem["client"]
<1>1. Idle("client")'
  BY Answering, Facts, SameFacts
<1>2. Mail("client")' /\ Mail("proxy")' /\ Mail("up1")' /\ Mail("file")'
  BY <1>1, ProxyExpects, ExpectedAt, Facts, Posts
<1> QED BY <1>1, <1>2, Facts DEF OneWay, Same

LEMMA StepFileErr ==
  ASSUME IInv, TypeOK', FileNextStep, Moves(pcF, "open", "return"), NoRecv, NoPoll, pos' = pos,
         PostSend("file", "msg_mr", Text("err"))
  PROVE  Flow'
<1>0. pcF = "open" /\ pcF' = "return"
  BY DEF Moves
<1>1. PICK l \in Message : l.op = "SEND" /\ l.data = Text("err") /\ IsQueued("up1", l)'
  BY <1>0, Answering, Facts, SendPosted, PayloadFacts
<1>2. Idle("file")' /\ \A k \in Node \ {"file"} : Same(k)
  BY <1>0, Answering, Facts, SendPosted, PayloadFacts
<1>3. ForUp1(l)'
  BY <1>0, <1>1, Answering, FileFrame DEF ForUp1, Passed, Text
<1>4. Mail("client")' /\ Mail("proxy")' /\ Mail("up1")' /\ Mail("file")' /\ OneWay'
  BY <1>0, <1>1, <1>2, <1>3, FileAnswers
<1>5. Asking'
  BY <1>0, Answering, Facts, FileFrame DEF Asking, Waiting, Passed
<1>6. Sending'
  BY <1>0, Answering, Facts, FileFrame, PiecesKept DEF Sending
<1>7. Saving'
  BY <1>0, Answering, Facts, FileFrame, DestinationKept DEF Saving
<1> QED BY <1>4, <1>5, <1>6, <1>7, Kept

LEMMA StepFileWrite ==
  ASSUME IInv, TypeOK', FileNextStep, FileWrite
  PROVE  Flow'
<1>0. /\ pcF = "read" /\ pcF' \in {"fail", "wait"} /\ pos' = pos + 1 /\ pos < size
      /\ PostWrite("file", "file_mr", Piece(pos + 1), 1) /\ NoRecv /\ NoPoll
  BY DEF FileWrite, FileWrites, Moves, AfterWrite
<1>1. /\ Idle("up1") /\ Idle("file") /\ Passed /\ pos = Len(pool) /\ pcC # "imm" /\ pcP # "chunk"
      /\ asked # {} /\ pos \in Nat /\ pcP # "ask"
  BY <1>0, Answering, Facts DEF Passed
<1>2. ~ control => pos = 0 /\ dst = <<>> /\ Waiting
  <2>1. ~ control => pool = <<>>
    BY Facts DEF Sending
  <2>2. ~ control => pos = 0
    BY <1>1, <2>1
  <2> QED BY <1>1, <2>2, Facts DEF Asking
<1>3. PICK l \in Message : l = Written(Piece(pos + 1), 1)
  BY <1>1, LetterFacts, PieceTyped
<1>4. IsQueued("up1", l)' /\ Idle("file")'
  <2>1. PICK c : c = Piece(pos + 1)
    OBVIOUS
  <2>2. PostWrite("file", "file_mr", c, 1) /\ l = Written(c, 1)
    BY <1>0, <1>3, <2>1
  <2>3. IsQueued("up1", Written(c, 1))' /\ Idle("file")'
    BY <1>0, <1>1, <2>2, Facts, WriteAnswer
  <2>4. PICK m : m = Written(c, 1)
    OBVIOUS
  <2>5. IsQueued("up1", m)'
    BY <2>3, <2>4
  <2> QED BY <2>2, <2>3, <2>4, <2>5
<1>5. \A k \in Node \ {"file"} : Same(k)
  BY <1>0, Facts, SendSame
<1>6. ForUp1(l)'
  <2>1. l = Written(Piece(pos), 1)'
    BY <1>0, <1>3, FileFrame, PiecesKept
  <2>2. Passed' /\ pos' = Len(pool') + 1 /\ pcF' \in {"wait", "fail", "closed"}
    BY <1>0, <1>1, FileFrame DEF Passed
  <2>3. ~ control' => pos' = 1 /\ dst' = <<>> /\ Waiting'
    BY <1>0, <1>2, FileFrame DEF Waiting
  <2> QED BY <2>1, <2>2, <2>3 DEF ForUp1
<1>7. /\ Mail("client")' /\ Mail("proxy")' /\ Mail("up1")' /\ Mail("file")' /\ OneWay'
  BY <1>0, <1>4, <1>5, <1>6, FileAnswers
<1>8. Asking'
  BY <1>0, <1>1, Facts, FileFrame DEF Asking, Waiting
<1>9. Sending'
  BY <1>0, <1>1, Facts, FileFrame, PiecesKept DEF Sending
<1>10. Saving'
  BY <1>1, Facts, FileFrame, DestinationKept DEF Saving
<1> QED BY <1>7, <1>8, <1>9, <1>10, Kept

LEMMA StepFileEnd ==
  ASSUME IInv, TypeOK', FileNextStep, FileEnd, pos' = pos
  PROVE  Flow'
<1>0. /\ pcF = "read" /\ pcF' = "return" /\ pos = size
      /\ PostEmptyWrite("file", "file_mr") /\ NoRecv /\ NoPoll
  BY DEF FileEnd, Moves
<1>1. PICK l \in Message : l = EmptyWrite
  BY LetterFacts
<1>2. IsQueued("up1", l)' /\ Idle("file")'
  <2>1. IsQueued("up1", EmptyWrite)' /\ Idle("file")'
    BY <1>0, Answering, Facts, EmptyAnswer
  <2> QED BY <1>1, <2>1
<1>3. \A k \in Node \ {"file"} : Same(k)
  BY <1>0, Facts, SendSame
<1>4. ForUp1(l)'
  BY <1>0, <1>1, Answering, FileFrame DEF ForUp1, Passed
<1>5. /\ Mail("client")' /\ Mail("proxy")' /\ Mail("up1")' /\ Mail("file")' /\ OneWay'
  BY <1>0, <1>2, <1>3, <1>4, FileAnswers
<1>6. Asking'
  BY <1>0, Answering, Facts, FileFrame DEF Asking, Waiting, Passed
<1>7. Sending'
  BY <1>0, Answering, Facts, FileFrame, PiecesKept DEF Sending
<1>8. Saving'
  BY <1>0, Answering, Facts, FileFrame, DestinationKept DEF Saving
<1> QED BY <1>5, <1>6, <1>7, <1>8, Kept

LEMMA StepFileClose ==
  ASSUME IInv, TypeOK', FileNextStep, pcF = "fail", FileClose
  PROVE  Flow'
<1>0. /\ pcF' = (IF sq["file"] = <<>> THEN "closed" ELSE "cut")
      /\ CloseNode("file") /\ pos' = pos
  BY DEF FileClose
<1>1. /\ (\A k \in Node : Steady(k)) /\ sq'["file"] = <<>> /\ rcq'["file"] = <<>>
      /\ UNCHANGED <<mem, wire>>
  BY <1>0, CloseSteady, Facts
<1>2. CASE sq["file"] = <<>>
  BY <1>0, <1>1, <1>2, StepFileMoves
<1>3. CASE sq["file"] # <<>>
  <2>1. ~ Idle("up1")
    BY <1>3, Facts DEF Idle
  <2>2. Idle("file") /\ \E l \in Message : Coming("up1", l)
    BY <2>1, Facts DEF Mail
  <2>3. wire["up1"] = <<>> /\ rcq["up1"] = <<>>
    BY <1>3, <2>2, Facts DEF Coming, InFlight, IsQueued, IsOnWire, IsReceived
  <2>4. rcq'["up1"] = rcq["up1"]
    BY <1>0, Facts DEF CloseNode
  <2>5. Idle("up1")' /\ Idle("file")'
    BY <1>1, <2>2, <2>3, <2>4, Facts DEF Idle, Steady
  <2>6. Idle("client") /\ Idle("client")'
    BY <1>1, <2>1, Facts DEF OneWay, Steady
  <2>7. /\ Mail("client")' /\ Mail("proxy")' /\ Mail("up1")' /\ Mail("file")' /\ OneWay'
    BY <1>1, <2>5, <2>6, ProxyExpects, Carried
  <2>8. pcC # "imm" /\ pcP # "chunk"
    BY <2>1, Facts DEF Saving, Sending
  <2>9. Asking'
    BY <1>0, <1>3, Facts, FileFrame DEF Asking, Waiting
  <2>10. Sending'
    BY <1>0, <1>3, <2>8, Facts, FileFrame, PiecesKept DEF Sending
  <2>11. Saving'
    BY <2>8, Facts, FileFrame, DestinationKept DEF Saving
  <2> QED BY <2>7, <2>9, <2>10, <2>11, Kept
<1> QED BY <1>2, <1>3

LEMMA FileKeepsInvariant ==
  ASSUME IInv, TypeOK', FileNextStep
  PROVE  Flow'
<1>1. CASE "file" \in asked /\ FileBegin
  BY <1>1, StepFileBegin
<1>2. CASE FilePollA /\ UNCHANGED pos
  <2>1. pcF = "pollA" /\ pcF' = "pollB"
    BY <1>2 DEF FilePollA, Moves
  <2>2. CASE PollSend("file")
    BY <1>2, <2>1, <2>2, StepFileMoves, PollSteady, Facts DEF PollAny
  <2>3. CASE PollRecv("file")
    BY <1>2, <2>1, <2>3, StepFileRecv
  <2> QED BY <1>2, <2>2, <2>3 DEF FilePollA, PollForSend
<1>3. CASE FileWrite
  BY <1>3, StepFileWrite
<1>4. CASE FilePollB /\ UNCHANGED pos
  <2>1. CASE Moves(pcF, "pollB", "return") /\ PollSend("file")
    BY <1>4, <2>1, StepFileMoves, PollSteady, Facts DEF PollAny, Moves
  <2>2. CASE Moves(pcF, "pollB", "open") /\ PollRecv("file")
    BY <1>4, <2>2, StepFileRecv DEF Moves
  <2> QED BY <1>4, <2>1, <2>2 DEF FilePollB
<1>5. CASE FileOpen /\ UNCHANGED pos
  <2>1. CASE Moves(pcF, "open", "read") /\ NoSend /\ NoPoll
    BY <1>5, <2>1, StepFileMoves, UnchangedSteady DEF Moves, NoSend, NoPoll
  <2>2. CASE Moves(pcF, "open", "return") /\ NoRecv /\ NoPoll /\ PostSend("file", "msg_mr", Text("err"))
    BY <1>5, <2>2, StepFileErr
  <2> QED BY <1>5, <2>1, <2>2 DEF FileOpen, FileOpens
<1>6. CASE FileEnd /\ UNCHANGED pos
  BY <1>6, StepFileEnd
<1>7. CASE FileWait /\ UNCHANGED pos
  <2>1. CASE Moves(pcF, "wait", "wait") /\ PollSend("file")
    BY <1>7, <2>1, StepFileMoves, PollSteady, Facts DEF PollAny, Moves
  <2>2. CASE Moves(pcF, "wait", "next") /\ PollRecv("file")
    BY <1>7, <2>2, StepFileRecv DEF Moves
  <2> QED BY <1>7, <2>1, <2>2 DEF FileWait, AwaitRecv
<1>8. CASE FileNext /\ UNCHANGED pos
  BY <1>8, StepFileMoves, UnchangedSteady DEF FileNext, Moves, NoSend, NoPoll
<1>9. CASE pcF = "fail" /\ FileClose
  BY <1>9, StepFileClose
<1> QED BY <1>1, <1>2, <1>3, <1>4, <1>5, <1>6, <1>7, <1>8, <1>9 DEF FileNextStep, FileStep

-----------------------------------------------------------------------------
(* The steps of the adapters, the switch and the network. *)

\* The processes stand still.
Untouched == UNCHANGED <<runVars, clientVars, fileVars, handlerVars, switchVars, swapped>>

LEMMA NicFrame ==
  ASSUME Untouched
  PROVE  /\ UNCHANGED <<signals, pause, size, short, canOpen, pcC, immC, dst, doneC, pcF, pos,
                        pcP, immP, content, pool, asked, control, shortBegin, lowBuffer, last>>
         /\ \A l : /\ ForClient(l) => ForClient(l)'
                   /\ ForProxy(l) => ForProxy(l)'
                   /\ ForUp1(l) => ForUp1(l)'
                   /\ ForFile(l) => ForFile(l)'
<1>1. UNCHANGED <<signals, pause, size, short, canOpen, pcC, immC, dst, doneC, pcF, pos,
                  pcP, immP, content, pool, asked, control, shortBegin, lowBuffer, last>>
  BY DEF Untouched, runVars, clientVars, fileVars, handlerVars, switchVars
<1>2. \A p, i : Arrived(p, i)' <=> Arrived(p, i)
  BY <1>1 DEF Arrived
<1>3. (Waiting' <=> Waiting) /\ (Passed' <=> Passed)
  BY <1>1 DEF Waiting, Passed
<1>4. \A l : ForClient(l) => ForClient(l)'
  BY <1>1, <1>2, <1>3 DEF ForClient
<1>5. \A l : ForProxy(l) => ForProxy(l)'
  BY <1>1, <1>3 DEF ForProxy
<1>6. \A l : ForFile(l) => ForFile(l)'
  BY <1>1, <1>3 DEF ForFile
<1>7. \A l : ForUp1(l) => ForUp1(l)'
  BY <1>1, <1>3, PiecesKept DEF ForUp1
<1> QED BY <1>1, <1>4, <1>5, <1>6, <1>7

\* What the processes have in hand is not overwritten.
LEMMA NicRest ==
  ASSUME IInv, TypeOK', Untouched,
         Mail("client")', Mail("proxy")', Mail("up1")', Mail("file")', OneWay',
         Idle("up1") => Idle("up1")',
         pcC = "imm" => mem'["client"] = mem["client"],
         pcP = "chunk" => mem'["up1"] = mem["up1"]
  PROVE  Flow'
<1>1. Asking'
  BY Facts, NicFrame DEF Asking, Waiting
<1>2. Sending'
  BY Facts, NicFrame, PiecesKept DEF Sending, Passed
<1>3. Saving'
  <2>1. pcC = "imm" => Arrived(mem["client"]["file_mr"], immC)'
    BY Facts, NicFrame DEF Saving, Arrived
  <2> QED BY <2>1, Facts, NicFrame, DestinationKept DEF Saving
<1> QED BY <1>1, <1>2, <1>3, Kept

LEMMA StepNic ==
  ASSUME IInv, TypeOK', Untouched, NEW k \in Node, NicStep(k)
  PROVE  Flow'
<1>1. \A n \in Node : Steady(n)
  <2>1. ASSUME NEW n \in Node PROVE Idle(n) \/ Idle(Peer[n])
    BY Facts DEF Mail
  <2> QED BY <2>1, NicSteady, Facts
<1>2. /\ Mail("client")' /\ Mail("proxy")' /\ Mail("up1")' /\ Mail("file")' /\ OneWay'
      /\ Idle("up1") => Idle("up1")'
  BY <1>1, NicFrame, Carried, Facts
<1>3. pcC = "imm" => mem'["client"] = mem["client"]
  <2>1. ASSUME pcC = "imm" PROVE wire["client"] = <<>>
    <3>1. \A l \in Message : ~ Expected("client", l)
      BY <2>1, ExpectedAt DEF ForClient, Waiting
    <3> QED BY <3>1, Silent, Facts DEF Idle
  <2> QED BY <2>1, NicKeeps, Facts
<1>4. pcP = "chunk" => mem'["up1"] = mem["up1"]
  <2>1. ASSUME pcP = "chunk" PROVE wire["up1"] = <<>>
    BY <2>1, Facts DEF Sending, Idle
  <2> QED BY <2>1, NicKeeps, Facts
<1> QED BY <1>2, <1>3, <1>4, NicRest

\* What a message becomes that is sent from n to one that nothing was on its way to.
LEMMA TransmitEffect ==
  ASSUME VerbsTypeOK, NEW n \in Node, NEW to \in Node, NEW m \in Message, Transmit(n, to, m),
         Len(sq[n]) = 1
  PROVE  /\ sq'[n] = <<>> /\ \A k \in Node \ {n} : sq'[k] = sq[k]
         /\ \A k \in Node \ {to} : wire'[k] = wire[k]
         /\ wire[to] = <<>> => wire'[to] = <<m>>
         /\ UNCHANGED <<rq, rcq, mem>>
<1>1. /\ sq[n] # <<>> /\ sq' = [sq EXCEPT ![n] = Tail(@)] /\ wire' = [wire EXCEPT ![to] = Append(@, m)]
      /\ UNCHANGED <<rq, rcq, mem>>
  BY DEF Transmit
<1>2. Tail(sq[n]) = <<>>
  <2>1. Tail(sq[n]) \in Seq(WorkRequest) /\ Len(Tail(sq[n])) = 0
    BY <1>1, NodeTypes, TailFacts
  <2> QED BY <2>1, EmptyFacts
<1>3. DOMAIN sq = Node /\ DOMAIN wire = Node
  BY DEF VerbsTypeOK
<1>4. sq'[n] = <<>> /\ \A k \in Node \ {n} : sq'[k] = sq[k]
  BY <1>1, <1>2, <1>3
<1>5. wire'[to] = Append(wire[to], m) /\ \A k \in Node \ {to} : wire'[k] = wire[k]
  BY <1>1, <1>3
<1> QED BY <1>1, <1>4, <1>5, AppendToEmpty

\* The switch spoils a message of the proxy for the client.
LEMMA StepSpoilt ==
  ASSUME IInv, TypeOK', Untouched, NEW m \in Message, Transmit("proxy", "client", m),
         m = [Outgoing("proxy") EXCEPT !.data = Text("torn")]
  PROVE  Flow'
<1>1. sq["proxy"] # <<>> /\ UNCHANGED <<rq, rcq, mem>>
  BY DEF Transmit
<1>2. ~ Idle("client")
  BY <1>1, Facts DEF Idle
<1>3. PICK l \in Message : ForClient(l) /\ Coming("client", l)
  BY <1>2, Facts, ExpectedAt DEF Mail
<1>4. IsQueued("client", l)
  BY <1>1, <1>3, Facts DEF Coming, InFlight, IsOnWire, IsReceived
<1>5. /\ Len(sq["proxy"]) = 1 /\ wire["client"] = <<>> /\ rcq["client"] = <<>>
      /\ Outgoing("proxy").op = l.op /\ Outgoing("proxy").len = l.len
      /\ Outgoing("proxy").imm = l.imm
  BY <1>4, Facts DEF IsQueued, Outgoing
<1>6. m.op = l.op /\ m.len = l.len /\ m.imm = l.imm /\ m.data = Text("torn")
  BY <1>5 DEF Outgoing
<1>7. /\ sq'["proxy"] = <<>> /\ (\A k \in Node \ {"proxy"} : sq'[k] = sq[k])
      /\ (\A k \in Node \ {"client"} : wire'[k] = wire[k])
      /\ wire'["client"] = <<m>>
  BY <1>5, TransmitEffect, Facts
<1>8. ForClient(m)'
  <2>1. ForClient(m)
    BY <1>3, <1>6 DEF ForClient, Arrived, Text
  <2> QED BY <2>1, NicFrame
<1>9. Coming("client", m)'
  <2>1. /\ sq'[Peer["client"]] = <<>> /\ wire'["client"] = <<m>> /\ rcq'["client"] = <<>>
    BY <1>1, <1>5, <1>7, Facts
  <2>2. Len(<<m>>) = 1 /\ Head(<<m>>) = m
    OBVIOUS
  <2>3. IsOnWire("client", m)'
    BY <2>1, <2>2 DEF IsOnWire
  <2> QED BY <2>3, Facts DEF Coming, InFlight
<1>10. /\ Idle("proxy") /\ Idle("up1")
  BY <1>2, Facts DEF Mail, OneWay
<1>11. /\ Idle("proxy")' /\ Idle("up1")'
  BY <1>1, <1>7, <1>10, Facts DEF Idle
<1>12. Mail("client")'
  BY <1>8, <1>9, <1>11, ExpectedAt, Facts DEF Mail
<1>13. Mail("file")'
  <2>1. Idle("file") => Idle("file")'
    BY <1>1, <1>7, Facts DEF Idle
  <2>2. \A l1 \in Message : Coming("file", l1) => Coming("file", l1)'
    BY <1>1, <1>7, Facts DEF Coming, InFlight, IsQueued, IsOnWire, IsReceived
  <2>3. Steady("file") /\ Steady("up1")
    BY <1>11, <2>1, <2>2 DEF Steady, Coming, InFlight, IsQueued, IsOnWire, IsReceived, Idle
  <2> QED BY <2>3, NicFrame, ExpectedAt, MailSteady, Facts
<1> QED BY <1>1, <1>11, <1>12, <1>13, MailIdle, NicRest DEF OneWay

\* The switch redirects a chunk of the file server to the client.
LEMMA StepRedirected ==
  ASSUME IInv, TypeOK', Untouched, Redirects("file", Outgoing("file")),
         NEW m \in Message, Transmit("file", "client", m), m \in Rewritten("file", Outgoing("file"))
  PROVE  Flow'
<1>1. sq["file"] # <<>> /\ UNCHANGED <<rq, rcq, mem>>
  BY DEF Transmit
<1>2. ~ Idle("up1")
  BY <1>1, Facts DEF Idle
<1>3. PICK l \in Message : ForUp1(l) /\ Coming("up1", l)
  BY <1>2, Facts, ExpectedAt DEF Mail
<1>4. IsQueued("up1", l)
  BY <1>1, <1>3, Facts DEF Coming, InFlight, IsOnWire, IsReceived
<1>5. /\ Len(sq["file"]) = 1 /\ wire["up1"] = <<>> /\ rcq["up1"] = <<>>
      /\ Outgoing("file").op = l.op /\ Outgoing("file").len = l.len
      /\ Outgoing("file").imm = l.imm /\ (l.len = 1 => Outgoing("file").data = l.data)
  BY <1>4, Facts DEF IsQueued, Outgoing
<1>6. /\ ~ control /\ Outgoing("file").data.kind \in {"chunk", "short"}
      /\ Outgoing("file").len = 1
  BY DEF Redirects, Several
<1>7. /\ l = Written(Piece(1), 1) /\ Passed /\ pos = 1 /\ dst = <<>> /\ Waiting
      /\ pcF \in {"wait", "fail", "closed"}
  <2>1. l.len = 1 /\ l.data.kind \in {"chunk", "short"}
    BY <1>5, <1>6
  <2> QED BY <1>3, <1>6, <2>1 DEF ForUp1, EmptyWrite
<1>8. m.op = "WRITE_IMM" /\ m.len = 1 /\ Arrived(m.data, m.imm)
  <2>1. PICK o : o = Outgoing("file")
    OBVIOUS
  <2>2. o.op = "WRITE_IMM" /\ o.data = Piece(1) /\ o.len = 1 /\ o.imm = 1
    BY <1>5, <1>7, <2>1 DEF Written
  <2>3. o \in Message
    BY <1>1, <2>1, OutgoingType, Facts
  <2>4. m \in IF LastIs(o, "short") THEN {o, [o EXCEPT !.data = Text("torn")]}
              ELSE {[[o EXCEPT !.data = Text("torn")] EXCEPT !.imm = IF lowBuffer THEN 0 ELSE 1]}
    BY <2>1 DEF Rewritten
  <2>5. CASE LastIs(o, "short") /\ m = o
    <3>1. last = "short" /\ size = 1 /\ o.data = Short(1)
      BY <2>2, <2>5, Facts DEF LastIs, Ended, Piece, Chunk, Short
    <3> QED BY <2>2, <2>5, <3>1 DEF Arrived
  <2>6. ASSUME NEW i, \/ m = [o EXCEPT !.data = Text("torn")]
                      \/ m = [[o EXCEPT !.data = Text("torn")] EXCEPT !.imm = i]
        PROVE  m.op = "WRITE_IMM" /\ m.len = 1 /\ m.data = Text("torn")
    BY <2>2, <2>3, <2>6 DEF Message
  <2> QED BY <2>4, <2>5, <2>6 DEF Arrived
<1>9. Idle("client") /\ Idle("proxy") /\ Idle("file")
  <2>1. Idle("client") /\ Idle("file")
    BY <1>2, Facts DEF OneWay, Mail
  <2>2. \A l1 \in Message : ~ Expected("proxy", l1)
    BY <1>7, ExpectedAt DEF ForProxy, Passed
  <2> QED BY <2>1, <2>2, Silent, Facts
<1>10. /\ sq'["file"] = <<>> /\ (\A k \in Node \ {"file"} : sq'[k] = sq[k])
       /\ (\A k \in Node \ {"client"} : wire'[k] = wire[k])
       /\ wire'["client"] = <<m>>
  <2>1. wire["client"] = <<>>
    BY <1>9 DEF Idle
  <2> QED BY <1>5, <2>1, TransmitEffect, Facts
<1>11. Idle("up1")' /\ Idle("proxy")' /\ Idle("file")'
  BY <1>1, <1>5, <1>9, <1>10, Facts DEF Idle
<1>12. ForClient(m)'
  <2>1. ForClient(m)
    BY <1>6, <1>7, <1>8 DEF ForClient
  <2> QED BY <2>1, NicFrame
<1>13. Coming("client", m)'
  <2>1. IsOnWire("client", m)'
    BY <1>1, <1>9, <1>10, Facts DEF IsOnWire, Idle
  <2> QED BY <2>1, Facts DEF Coming, InFlight
<1>14. Mail("client")'
  BY <1>11, <1>12, <1>13, ExpectedAt, Facts DEF Mail
<1> QED BY <1>1, <1>11, <1>14, MailIdle, NicRest DEF OneWay

LEMMA StepSwitch ==
  ASSUME IInv, TypeOK', Untouched, NEW n \in Node, SwitchExecute(n)
  PROVE  Flow'
<1>1. PICK m \in Rewritten(n, Outgoing(n)) :
         Transmit(n, IF Redirects(n, Outgoing(n)) THEN "client" ELSE Peer[n], m)
  BY DEF SwitchExecute
<1>2. m \in Message
  BY <1>1, OutgoingType, Facts DEF SwitchExecute
<1>3. CASE Redirects(n, Outgoing(n))
  <2>1. n = "file"
    BY <1>3 DEF Redirects
  <2> QED BY <1>1, <1>2, <1>3, <2>1, StepRedirected
<1>4. CASE ~ Redirects(n, Outgoing(n)) /\ n = "proxy" /\ ~ control /\ ~ shortBegin
  <2>1. m = [Outgoing("proxy") EXCEPT !.data = Text("torn")]
    BY <1>1, <1>4 DEF Rewritten
  <2> QED BY <1>1, <1>2, <1>4, <2>1, StepSpoilt, Facts
<1>5. CASE ~ Redirects(n, Outgoing(n)) /\ ~ (n = "proxy" /\ ~ control /\ ~ shortBegin)
  <2>1. m = Outgoing(n)
    BY <1>1, <1>5 DEF Rewritten
  <2>2. NicStep(n)
    BY <1>1, <1>5, <2>1 DEF NicStep, Execute
  <2> QED BY <2>2, StepNic
<1> QED BY <1>3, <1>4, <1>5

-----------------------------------------------------------------------------
(* The invariant. *)

\* Which end points' regions a step can write to.
LEMMA ClientCalls ==
  ASSUME ClientNext
  PROVE  Answers("client") /\ UNCHANGED <<pool, size, short, last>>
BY DEF ClientNext, ClientStep, ClientBegin, ClientAsk, ClientPrepost, ClientRepost, ClientClose,
   ClientPoll, ClientSave, ClientSaveLast, NoSend, PollSend, PollRecv, CloseNode, Answers, runVars,
   handlerVars, switchVars

LEMMA FileCalls ==
  ASSUME FileNextStep
  PROVE  Calls("file") /\ UNCHANGED <<pool, size, short, last>>
<1> USE Constants
<1>1. UNCHANGED <<pool, size, short, last>>
  BY DEF FileNextStep, runVars, handlerVars, switchVars
<1>2. CASE FileBegin
  BY <1>1, <1>2 DEF FileBegin, Welcome, Calls
<1>3. CASE FileWrite
  BY <1>1, <1>3 DEF FileWrite, FileWrites, Calls
<1>4. CASE FileEnd
  BY <1>1, <1>4 DEF FileEnd, Calls
<1>5. CASE FileOpen
  BY <1>1, <1>5 DEF FileOpen, FileOpens, NoSend, Calls
<1>6. CASE FilePollA \/ FilePollB \/ FileWait \/ FileNext \/ FileClose
  BY <1>1, <1>6 DEF FilePollA, PollForSend, FilePollB, FileWait, AwaitRecv, FileNext, FileClose,
     NoSend, PollSend, PollRecv, CloseNode, Calls
<1> QED BY <1>2, <1>3, <1>4, <1>5, <1>6 DEF FileNextStep, FileStep

LEMMA ProxyCalls ==
  ASSUME ProxyNext
  PROVE  /\ UNCHANGED <<size, short, last>>
         /\ Calls("proxy") \/ Answers("up1")
         /\ pool' = pool \/ ProxyChunk("up1")
<1> USE Constants
<1>0. UNCHANGED <<size, short, last>>
  BY DEF ProxyNext, runVars, switchVars
<1>1. pool' = pool \/ ProxyChunk("up1")
  BY DEF ProxyNext
<1>2. CASE ProxyBegin
  BY <1>0, <1>1, <1>2 DEF ProxyBegin, Welcome, Calls
<1>3. CASE Request
  BY <1>0, <1>1, <1>3 DEF Request, NoSend, Answers
<1>4. CASE ProxyChunk("up1")
  BY <1>0, <1>1, <1>4 DEF ProxyChunk, ProxyKeeps, Answers
<1>5. CASE ProxyPollA \/ ProxyPollB \/ ProxyAwaitBegin("up1", "await", "ask") \/ ProxyLoop("up1")
  BY <1>0, <1>1, <1>5 DEF ProxyPollA, ProxyPollB, ProxyAwaitBegin, ProxyLoop, PollForSend, PollSend,
     PollRecv, Calls
<1>6. CASE \/ Prepost \/ ProxyEnd("serve") \/ ProxyClose
           \/ ProxyFetch({"up1"}, "file", "await")
  BY <1>0, <1>1, <1>6 DEF Prepost, ProxyEnd, ProxyClose, ProxyFetch, NoSend, CloseNode, Calls
<1> QED BY <1>2, <1>3, <1>4, <1>5, <1>6 DEF ProxyNext, ReceiveSend

LEMMA EndedStep ==
  ASSUME IInv, [Next]_vars
  PROVE  Ended'
<1>0. /\ VerbsTypeOK /\ Paired /\ EndsHeld
      /\ mem["client"]["file_end"].tail = 0 /\ (size > 0 /\ last # "long" => short)
      /\ short => EndKept("up1", Len(pool), size)
      /\ "client" \in Node \ {"up1"} /\ "proxy" \in Node \ {"up1", "client"}
      /\ "file" \in Node \ {"up1", "client"} /\ "up1" \in Node \ {"client"}
  BY Facts DEF Ended
<1>1. ASSUME UNCHANGED <<pool, size, short, last>>, EndsHeld',
             mem'["client"]["file_end"] = mem["client"]["file_end"],
             mem'["up1"]["file_end"] = mem["up1"]["file_end"]
      PROVE  Ended'
  BY <1>0, <1>1 DEF Ended, EndKept
<1>2. CASE ClientNext \/ FileNextStep
  <2>1. UNCHANGED <<pool, size, short, last>> /\ (Answers("client") \/ Calls("file"))
    BY <1>2, ClientCalls, FileCalls
  <2>2. /\ EndsHeld' /\ mem'["up1"] = mem["up1"]
        /\ mem'["client"]["file_end"] = mem["client"]["file_end"]
    BY <1>0, <2>1, CallsMem, AnswersMem
  <2> QED BY <1>1, <2>1, <2>2
<1>3. CASE ProxyNext
  <2>1. /\ UNCHANGED <<size, short, last>> /\ mem'["client"] = mem["client"]
        /\ EndsHeld' /\ mem'["up1"]["file_end"] = mem["up1"]["file_end"]
    BY <1>0, <1>3, ProxyCalls, CallsMem, AnswersMem
  <2>2. CASE pool' = pool
    BY <1>1, <2>1, <2>2
  <2>3. CASE ProxyChunk("up1")
    <3>1. /\ pcP = "chunk" /\ immP # 0 /\ pool' = Append(pool, FileBlock("up1"))
          /\ mem["up1"]["file_mr"] = Piece(pos) /\ pos = Len(pool) + 1
      BY <2>3, Facts DEF ProxyChunk, ProxyKeeps, Moves, Sending
    <3>2. Len(pool') = Len(pool) + 1 /\ Len(pool) \in Nat /\ size \in Nat /\ pos <= size
      BY <1>0, <3>1, Facts, FileBlockType, AppendFacts
    <3>3. ASSUME short, pos # size
          PROVE  mem["up1"]["file_end"].tail = pos
      <4>1. Piece(pos) = Chunk(pos)
        BY <3>3 DEF Piece
      <4>2. mem["up1"]["file_end"] = Chunk(pos)
        BY <1>0, <3>1, <4>1 DEF EndsHeld, Chunk
      <4> QED BY <4>2 DEF Chunk
    <3>4. ASSUME short, pos = size
          PROVE  mem["up1"]["file_end"].tail = size - 1
      BY <3>1, <3>4, EndTail
    <3>5. short => EndKept("up1", Len(pool'), size)
      BY <3>1, <3>2, <3>3, <3>4 DEF EndKept
    <3> QED BY <1>0, <2>1, <3>5 DEF Ended, EndKept
  <2> QED BY <1>3, <2>2, <2>3, ProxyCalls
<1>4. ASSUME NEW k \in Node, Nic(NicStep(k)) PROVE Ended'
  <2>1. NicStep(k) /\ UNCHANGED <<pool, size, short, last>>
    BY <1>4 DEF Nic, runVars, handlerVars, switchVars
  <2>2. EndsHeld'
    BY <1>0, <2>1, NicEnds
  <2>3. mem'["client"]["file_end"] = mem["client"]["file_end"]
    <3>1. CASE Idle("client")
      BY <1>0, <2>1, <3>1, NicKeeps DEF Idle
    <3>2. CASE ~ Idle("client")
      <4>1. PICK l \in Message : ForClient(l) /\ Coming("client", l)
        BY <3>2, Facts, ExpectedAt DEF Mail
      <4>2. l.len = 1 => l.data.kind # "chunk"
        BY <4>1 DEF ForClient, Arrived, Text, Short
      <4>3. PICK r \in Region : InFlight("client", r, l)
        BY <4>1 DEF Coming
      <4> QED BY <1>0, <2>1, <4>2, <4>3, NicEnd
    <3> QED BY <3>1, <3>2
  <2>4. CASE mem'["up1"]["file_end"] = mem["up1"]["file_end"]
    BY <1>1, <2>1, <2>2, <2>3, <2>4
  <2>5. CASE mem'["up1"]["file_end"] # mem["up1"]["file_end"]
    <3>1. ~ Idle("up1")
      BY <1>0, <2>1, <2>5, NicKeeps DEF Idle
    <3>2. PICK l \in Message : ForUp1(l) /\ Coming("up1", l)
      BY <3>1, Facts, ExpectedAt DEF Mail
    <3>3. PICK r \in Region : InFlight("up1", r, l)
      BY <3>2 DEF Coming
    <3>4. l.data.kind = "chunk" /\ mem'["up1"]["file_end"] = l.data
      BY <1>0, <2>1, <2>5, <3>3, NicEnd
    <3>5. l = Written(Piece(pos), 1) /\ pos = Len(pool) + 1
      BY <3>2, <3>4 DEF ForUp1, EmptyWrite, Nothing, Text
    <3>6. Piece(pos).kind = "chunk" /\ mem'["up1"]["file_end"] = Piece(pos)
      BY <3>4, <3>5 DEF Written
    <3>7. ASSUME short PROVE mem'["up1"]["file_end"].tail = pos /\ pos < size
      <4>1. pos # size
        BY <3>6, <3>7 DEF Piece, Short
      <4> QED BY <3>6, <4>1, Facts DEF Piece, Chunk
    <3>8. ASSUME short PROVE EndKept("up1", Len(pool), size)'
      BY <2>1, <3>5, <3>7, <3>8, Facts DEF EndKept
    <3> QED BY <1>0, <2>1, <2>2, <2>3, <3>8 DEF Ended
  <2> QED BY <2>4, <2>5
<1>5. ASSUME NEW k \in Node, Nic(SwitchExecute(k)) PROVE Ended'
  <2>1. UNCHANGED <<pool, size, short, last, mem>>
    BY <1>5 DEF Nic, runVars, handlerVars, switchVars, SwitchExecute, Transmit
  <2> QED BY <1>0, <1>1, <2>1 DEF EndsHeld
<1>6. CASE UNCHANGED vars
  BY <1>0, <1>6 DEF vars, endsVars, runVars, handlerVars, switchVars, verbsVars, Ended, EndsHeld,
     EndKept
<1>7. ASSUME NEW k \in Node, Nic(NicAct(k)) PROVE Ended'
  BY <1>4, <1>5, <1>7 DEF Nic, NicAct, NicStep
<1> QED BY <1>2, <1>3, <1>6, <1>7 DEF Next, NicAct

LEMMA InitIInv == Init => IInv
<1> SUFFICES ASSUME Init PROVE IInv
  OBVIOUS
<1>1. TypeOK
  BY TypeInit
<1>2. /\ \A n \in Node : sq[n] = <<>> /\ wire[n] = <<>> /\ rcq[n] = <<>>
      /\ pcC = "begin" /\ dst = <<>> /\ doneC = FALSE /\ pcF = "idle" /\ pos = 0
      /\ pcP = "begin" /\ pool = <<>> /\ asked = {} /\ size \in Nat
  BY Constants DEF Init, HandlerInit, EndsInit, VerbsInit
<1>3. Idle("client") /\ Idle("proxy") /\ Idle("up1") /\ Idle("file")
  BY <1>2, Constants DEF Idle
<1>4. Asking
  BY <1>2 DEF Asking
<1>5. Sending
  BY <1>2 DEF Sending
<1>6. Saving
  BY <1>2 DEF Saving, OneDestination
<1>7. Ended
  <2>1. /\ \A n \in Node : mem[n]["file_mr"] = Nothing
        /\ mem["client"]["file_end"] = Nothing /\ mem["up1"]["file_end"] = Nothing
    BY Constants DEF Init, HandlerInit, EndsInit, VerbsInit, Part, Region
  <2>2. EndsHeld
    BY <2>1 DEF EndsHeld, Nothing, Text
  <2>3. size > 0 /\ last # "long" => short
    BY DEF Init
  <2>4. short => EndKept("up1", Len(pool), size)
    <3>1. (short => size > 0) /\ Len(pool) = 0
      BY <1>2 DEF Init, HandlerInit, EndsInit
    <3>2. mem["up1"]["file_end"].tail = 0
      BY <2>1 DEF Nothing, Text
    <3> QED BY <1>2, <3>1, <3>2 DEF EndKept
  <2> QED BY <2>1, <2>2, <2>3, <2>4 DEF Ended, Nothing, Text
<1> QED BY <1>1, <1>3, <1>4, <1>5, <1>6, <1>7 DEF IInv, Flow, Mail, OneWay

LEMMA IInvStep ==
  ASSUME IInv, [Next]_vars
  PROVE  IInv'
<1>1. TypeOK' /\ Ended'
  BY TypeStep, EndedStep, Facts
<1>2. CASE ClientNext \/ ProxyNext \/ FileNextStep
  <2>1. Flow'
    BY <1>1, <1>2, ClientKeeps, ProxyKeepsInvariant, FileKeepsInvariant
  <2> QED BY <1>1, <2>1 DEF IInv
<1>3. ASSUME NEW n \in Node, Nic(NicAct(n)) PROVE IInv'
  <2>1. Untouched /\ NicAct(n)
    BY <1>3 DEF Nic, Untouched
  <2>2. Flow'
    BY <1>1, <2>1, StepSwitch, StepNic DEF NicAct, NicStep
  <2> QED BY <1>1, <2>2 DEF IInv
<1>4. CASE UNCHANGED vars
  <2>1. UNCHANGED <<sq, wire, rcq, mem>> /\ Untouched
    BY <1>4 DEF vars, endsVars, verbsVars, Untouched
  <2>2. (\A n \in Node : Steady(n)) /\ mem' = mem
    BY <2>1, UnchangedSteady
  <2>3. /\ Mail("client")' /\ Mail("proxy")' /\ Mail("up1")' /\ Mail("file")' /\ OneWay'
        /\ Idle("up1") => Idle("up1")'
    BY <2>1, <2>2, NicFrame, Carried, Facts
  <2>4. Flow'
    BY <1>1, <2>1, <2>2, <2>3, NicRest
  <2> QED BY <1>1, <2>4 DEF IInv
<1> QED BY <1>2, <1>3, <1>4 DEF Next, NicAct

\* Every variable of a read through proxy-server1.py and the switch keeps its type: in
\* particular the file server never reads past the end of its file, and a message
\* that the switch rewrites or redirects is still one.
THEOREM TypeCorrect == Spec => []TypeOK
<1>1. Init => TypeOK
  BY TypeInit
<1>2. TypeOK /\ [Next]_vars => TypeOK'
  BY TypeStep
<1> QED BY <1>1, <1>2, PTL DEF Spec

\* IInv is inductive, so every state of the read satisfies it: between two end points
\* at most one message is on its way, one that the places of the processes call for,
\* and never one to the proxy from the file server and one to the client at once.  What
\* the proxy has kept are the file's blocks, the end of a short last chunk included.
THEOREM Invariance == Spec => []IInv
<1>1. Init => IInv
  BY InitIInv
<1>2. IInv /\ [Next]_vars => IInv'
  BY IInvStep
<1> QED BY <1>1, <1>2, PTL DEF Spec

\* Whatever is lost or late, a chunk goes to the proxy or to the client, as the plane
\* has it: in the control plane the proxy's pool is a beginning of the file's blocks and
\* the client saves nothing; in the data plane the pool stays empty and the client saves
\* at most one block, that of the first chunk, as it is in its region, if that is the
\* whole file and two packets, or else what the switch has made of it.
THEOREM OneDestinationCorrect == Spec => []OneDestination
<1>1. IInv => OneDestination
  BY DEF IInv, Flow, Saving
<1> QED BY <1>1, Invariance, PTL
-----------------------------------------------------------------------------
(* The places in the queues. *)

\* The most sends of each end point whose completion can be left, at the place where
\* its process is: a message that is polled leaves one, and every post adds one.
ClientPlaces ==
  /\ Sends("client") <= 2
  /\ pcC \in {"prepost", "imm"} => Sends("client") <= 1
  /\ pcC \in {"begin", "ask", "closed"} => Sends("client") = 0

FilePlaces ==
  /\ Sends("file") <= 2
  /\ pcF \in {"pollA", "pollB", "open", "read", "next"} => Sends("file") <= 1
  /\ pcF \in {"idle", "closed", "cut"} => Sends("file") = 0

\* The places before the proxy has passed the request on.
BeforeFile == {"begin", "pollA", "pollB", "fetch", "await", "ask"}

ProxyPlaces ==
  /\ Sends("proxy") <= 1
  /\ pcP = "begin" => Sends("proxy") = 0
  /\ Sends("up1") <= 2
  /\ pcP \in BeforeFile => Sends("up1") = 0
  /\ pcP \in {"prepost", "chunk"} => Sends("up1") <= 1

\* The receives of each end point: one at most, and none where one is about to be
\* posted.
ClientReceives ==
  /\ Receives("client") <= 1
  /\ pcC \notin {"begin", "loop"} => Receives("client") = 0

FileReceives ==
  /\ Receives("file") <= 1
  /\ pcF \in {"idle", "open", "next"} => Receives("file") = 0

ProxyReceives ==
  /\ Receives("proxy") <= 1
  /\ pcP = "begin" => Receives("proxy") = 0
  /\ Receives("up1") <= 1
  /\ pcP \in {"begin", "pollA", "pollB", "fetch", "ask", "prepost", "chunk"} =>
       Receives("up1") = 0

LEMMA SwitchedAnswered == ASSUME IInv PROVE Answered
<1>1. ASSUME NEW n \in Node, rcq[n] # <<>> PROVE sq[n] = <<>>
  <2>1. Idle(Peer[n]) /\ Peer[Peer[n]] = n
    BY <1>1, Constants DEF IInv, Flow, Mail, Idle
  <2> QED BY <2>1 DEF Idle
<1> QED BY <1>1 DEF Answered

LEMMA ClientPlacesStep ==
  ASSUME EndsTypeOK, Answered, ClientPlaces, ClientStep, InTurn
  PROVE  ClientPlaces' /\ OthersKeep("client")
<1>0. VerbsTypeOK /\ "client" \in Node /\ Sends("client") \in Nat /\ "msg_mr" \in Region
  BY SendsType, Constants DEF EndsTypeOK
<1>1. CASE PollRecv("client") /\ (\/ pcC = "begin" /\ pcC' = "ask"
                                  \/ pcC = "loop" /\ pcC' \in {"imm", "loop"})
  <2>1. /\ Sends("client")' <= Sends("client") /\ Sends("client")' <= 1
        /\ Sends("client")' \in Nat /\ OthersKeep("client")
    BY <1>0, <1>1, AwaitSends DEF PollAny
  <2> QED BY <1>0, <1>1, <2>1 DEF ClientPlaces
<1>2. CASE PollSend("client") /\ pcC = "loop" /\ pcC' = "loop"
  <2>1. Sends("client")' <= Sends("client") /\ Sends("client")' \in Nat /\ OthersKeep("client")
    BY <1>0, <1>2, AwaitSends DEF PollAny
  <2> QED BY <1>0, <1>2, <2>1 DEF ClientPlaces
<1>3. CASE ClientAsk \/ ClientPrepost \/ ClientSave \/ ClientRepost \/ ClientSaveLast
  <2>1. (NoSend \/ \E p : PostSend("client", "msg_mr", p)) /\ NoPoll
    BY <1>3 DEF ClientAsk, ClientPrepost, ClientSave, ClientRepost, ClientSaveLast
  <2>2. /\ Sends("client")' = Sends("client") \/ Sends("client")' = Sends("client") + 1
        /\ OthersKeep("client")
    BY <1>0, <2>1, CallSends
  <2>3. ~ NoSend => pcC \in {"ask", "imm"}
    BY <1>3 DEF ClientAsk, ClientPrepost, ClientSave, ClientRepost, ClientSaveLast, Moves
  <2>4. NoSend => Sends("client")' = Sends("client")
    BY <2>1, NoSendSends DEF NoPoll
  <2>5. \/ pcC = "ask" /\ pcC' \in {"prepost", "close"}
        \/ pcC \in {"prepost", "repost"} /\ pcC' = "loop"
        \/ pcC = "imm" /\ pcC' \in {"repost", "close"}
    BY <1>3 DEF ClientAsk, ClientPrepost, ClientSave, ClientRepost, ClientSaveLast, Moves
  <2> QED BY <1>0, <2>2, <2>3, <2>4, <2>5 DEF ClientPlaces
<1>4. CASE ClientClose
  <2>1. Sends("client")' = 0 /\ OthersKeep("client")
    BY <1>0, <1>4, CloseSends DEF ClientClose
  <2> QED BY <2>1 DEF ClientPlaces
<1> QED BY <1>1, <1>2, <1>3, <1>4 DEF ClientStep, ClientBegin, ClientPoll, Moves

LEMMA FilePlacesStep ==
  ASSUME EndsTypeOK, Answered, FilePlaces, FileBegin \/ FileStep \/ FileClose, InTurn
  PROVE  FilePlaces' /\ OthersKeep("file")
<1>0. /\ VerbsTypeOK /\ "file" \in Node /\ Sends("file") \in Nat
      /\ "msg_mr" \in Region /\ "file_mr" \in Region
  BY SendsType, Constants DEF EndsTypeOK
<1>1. CASE PollRecv("file") /\ pcF \in {"pollA", "pollB", "wait"}
                            /\ pcF' \in {"pollB", "open", "next"}
  <2>1. Sends("file")' <= 1 /\ Sends("file")' \in Nat /\ OthersKeep("file")
    BY <1>0, <1>1, AwaitSends DEF PollAny
  <2> QED BY <1>1, <2>1 DEF FilePlaces
<1>2. CASE PollSend("file") /\ (\/ pcF = "pollA" /\ pcF' = "pollB"
                                \/ pcF = "pollB" /\ pcF' = "return"
                                \/ pcF = "wait" /\ pcF' = "wait")
  <2>1. Sends("file")' <= Sends("file") /\ Sends("file")' \in Nat /\ OthersKeep("file")
    BY <1>0, <1>2, AwaitSends DEF PollAny
  <2> QED BY <1>0, <1>2, <2>1 DEF FilePlaces
<1>3. CASE FileBegin \/ FileWrite \/ FileEnd \/ FileOpen \/ FileNext
  <2>1. /\ \/ NoSend
           \/ \E r \in Region : \E p : \/ PostSend("file", r, p)
                                       \/ (\E i : PostWrite("file", r, p, i))
                                       \/ PostEmptyWrite("file", r)
        /\ NoPoll
    BY <1>0, <1>3 DEF FileBegin, Welcome, FileWrite, FileWrites, FileEnd, FileOpen, FileOpens,
       FileNext
  <2>2. /\ Sends("file")' = Sends("file") \/ Sends("file")' = Sends("file") + 1
        /\ OthersKeep("file")
    <3>1. CASE NoSend
      BY <1>0, <2>1, <3>1, CallSends
    <3>2. CASE ~ NoSend
      BY <1>0, <2>1, <3>2, CallSends
    <3> QED BY <3>1, <3>2
  <2>3. NoSend => Sends("file")' = Sends("file")
    BY <2>1, NoSendSends DEF NoPoll
  <2>4. \/ pcF = "idle" /\ pcF' = "pollA"
        \/ pcF = "read" /\ pcF' \in {"fail", "wait", "return"}
        \/ pcF = "open" /\ pcF' = "return"
        \/ pcF \in {"open", "next"} /\ pcF' \in {"read", "wait"} /\ NoSend
    BY <1>3 DEF FileBegin, FileWrite, FileWrites, AfterWrite, FileEnd, FileOpen, FileOpens,
       FileNext, Moves
  <2> QED BY <1>0, <2>2, <2>3, <2>4 DEF FilePlaces
<1>4. CASE FileClose
  <2>1. Sends("file")' = 0 /\ OthersKeep("file")
    BY <1>0, <1>4, CloseSends DEF FileClose
  <2> QED BY <2>1 DEF FilePlaces
<1> QED BY <1>1, <1>2, <1>3, <1>4
        DEF FileStep, FilePollA, PollForSend, FilePollB, FileWait, AwaitRecv, Moves

LEMMA ProxyPlacesStep ==
  ASSUME TypeOK, Answered, ProxyPlaces, ProxyNext, InTurn
  PROVE  ProxyPlaces' /\ \A k \in {"client", "file"} : Sends(k)' = Sends(k)
<1> DEFINE Others == \A k \in {"client", "file"} : Sends(k)' = Sends(k)
<1>0. /\ VerbsTypeOK /\ "proxy" \in Node /\ "up1" \in Node
      /\ Sends("proxy") \in Nat /\ Sends("up1") \in Nat
      /\ "msg_mr" \in Region
  BY SendsType, Constants DEF TypeOK, HandlerTypeOK, EndsTypeOK
<1>1. /\ OthersKeep("proxy") => Others /\ Sends("up1")' = Sends("up1")
      /\ OthersKeep("up1")   => Others /\ Sends("proxy")' = Sends("proxy")
  BY Constants DEF OthersKeep
<1>2. CASE PollAny("proxy") /\ (\/ pcP = "pollA" /\ pcP' = "pollB"
                                \/ pcP = "pollB" /\ pcP' \in {"fail", "fetch"})
  <2>1. Sends("proxy")' <= Sends("proxy") /\ Sends("proxy")' \in Nat /\ OthersKeep("proxy")
    BY <1>0, <1>2, AwaitSends
  <2> QED BY <1>0, <1>1, <1>2, <2>1 DEF ProxyPlaces, BeforeFile
<1>3. CASE PollAny("up1") /\ (\/ pcP = "await" /\ pcP' = "ask"
                              \/ pcP = "fileLoop" /\ pcP' = "fileLoop"
                              \/ pcP = "fileLoop" /\ pcP' = "chunk" /\ PollRecv("up1"))
  <2>1. /\ Sends("up1")' <= Sends("up1") /\ Sends("up1")' \in Nat /\ OthersKeep("up1")
        /\ PollRecv("up1") => Sends("up1")' <= 1
    BY <1>0, <1>3, AwaitSends
  <2> QED BY <1>0, <1>1, <1>3, <2>1 DEF ProxyPlaces, BeforeFile
<1>4. CASE ProxyBegin
  <2>1. (\E p : PostSend("proxy", "msg_mr", p)) /\ NoPoll /\ pcP = "begin" /\ pcP' = "pollA"
    BY <1>4 DEF ProxyBegin, Welcome, Moves
  <2>2. /\ Sends("proxy")' = Sends("proxy") \/ Sends("proxy")' = Sends("proxy") + 1
        /\ OthersKeep("proxy")
    BY <1>0, <2>1, CallSends
  <2> QED BY <1>0, <1>1, <2>1, <2>2 DEF ProxyPlaces, BeforeFile
<1>5. CASE Request
  <2>1. (NoSend \/ \E p : PostSend("up1", "msg_mr", p)) /\ NoPoll
    BY <1>5 DEF Request
  <2>2. /\ Sends("up1")' = Sends("up1") \/ Sends("up1")' = Sends("up1") + 1
        /\ OthersKeep("up1")
    BY <1>0, <2>1, CallSends
  <2>3. pcP = "ask" /\ pcP' \in {"prepost", "serve"}
    BY <1>5 DEF Request, Moves
  <2> QED BY <1>0, <1>1, <2>2, <2>3 DEF ProxyPlaces, BeforeFile
<1>6. CASE ProxyChunk("up1")
  <2>1. (\E p : PostSend("up1", "msg_mr", p)) /\ NoPoll /\ pcP = "chunk" /\ pcP' = "fileLoop"
    BY <1>6 DEF ProxyChunk, ProxyKeeps, Moves
  <2>2. /\ Sends("up1")' = Sends("up1") \/ Sends("up1")' = Sends("up1") + 1
        /\ OthersKeep("up1")
    BY <1>0, <2>1, CallSends
  <2> QED BY <1>0, <1>1, <2>1, <2>2 DEF ProxyPlaces, BeforeFile
<1>7. CASE Prepost \/ ProxyEnd("serve") \/ ProxyFetch({"up1"}, "file", "await")
  <2>1. /\ NoSend /\ NoPoll
        /\ \/ pcP = "prepost" /\ pcP' = "fileLoop"
           \/ pcP = "chunk" /\ pcP' = "serve"
           \/ pcP = "fetch" /\ pcP' = "await"
    BY <1>7 DEF Prepost, ProxyEnd, ProxyFetch, Moves
  <2>2. \A k : Sends(k)' = Sends(k)
    BY <2>1, NoSendSends DEF NoPoll
  <2> QED BY <1>0, <2>1, <2>2 DEF ProxyPlaces, BeforeFile
<1>8. CASE ProxyClose
  <2>1. Sends("proxy")' = 0 /\ OthersKeep("proxy") /\ pcP' = "closed"
    BY <1>0, <1>8, CloseSends DEF ProxyClose, Moves
  <2> QED BY <1>1, <2>1 DEF ProxyPlaces, BeforeFile
<1>9. CASE ProxyPollA \/ ProxyPollB
  BY <1>2, <1>9 DEF ProxyPollA, PollForSend, ProxyPollB, PollAny, Moves
<1>10. CASE ProxyLoop("up1") \/ ProxyAwaitBegin("up1", "await", "ask")
  BY <1>3, <1>10 DEF ProxyLoop, ProxyAwaitBegin, PollAny, Moves
<1> QED BY <1>4, <1>5, <1>6, <1>7, <1>8, <1>9, <1>10 DEF ProxyNext, ReceiveSend

\* Only end point n posts or polls a receive.
OthersReceive(n) == \A k \in Node \ {n} : Receives(k)' = Receives(k)

LEMMA CallReceives ==
  ASSUME VerbsTypeOK, NEW n \in Node, NEW r \in Region
  PROVE  /\ Receives(n) \in Nat
         /\ PostRecv(n, r) /\ NoPoll => Receives(n)' = Receives(n) + 1 /\ OthersReceive(n)
         /\ NoRecv /\ NoPoll => Receives(n)' = Receives(n) /\ OthersReceive(n)
         /\ PollRecv(n) => /\ Receives(n) > 0 /\ Receives(n)' = Receives(n) - 1
                           /\ OthersReceive(n)
         /\ PollSend(n) => Receives(n)' = Receives(n) /\ OthersReceive(n)
         /\ CloseNode(n) => Receives(n)' = 0 /\ OthersReceive(n)
<1>1. Receives(n) \in Nat
  BY SendsType
<1>2. PostRecv(n, r) /\ NoPoll => Receives(n)' = Receives(n) + 1 /\ OthersReceive(n)
  BY PostCounts DEF NoPoll, OthersReceive
<1>3. NoRecv /\ NoPoll => Receives(n)' = Receives(n) /\ OthersReceive(n)
  BY DEF NoRecv, NoPoll, Receives, OthersReceive
<1>4. PollRecv(n) => /\ Receives(n) > 0 /\ Receives(n)' = Receives(n) - 1
                     /\ OthersReceive(n)
  BY PollCounts DEF OthersReceive
<1>5. PollSend(n) => Receives(n)' = Receives(n) /\ OthersReceive(n)
  BY PollSendCounts DEF OthersReceive
<1>6. CloseNode(n) => Receives(n)' = 0 /\ OthersReceive(n)
  BY CloseEffect, Constants DEF Receives, OthersReceive
<1> QED BY <1>1, <1>2, <1>3, <1>4, <1>5, <1>6

LEMMA ClientReceivesStep ==
  ASSUME EndsTypeOK, ClientReceives, ClientStep
  PROVE  ClientReceives' /\ OthersReceive("client")
<1>0. /\ VerbsTypeOK /\ "client" \in Node /\ "file_mr" \in Region
      /\ Receives("client") \in Nat
  BY CallReceives, Constants DEF EndsTypeOK
<1>1. CASE ClientBegin \/ ClientPoll
  <2>1. \/ PollRecv("client")
        \/ PollSend("client") /\ pcC = "loop" /\ pcC' = "loop"
    BY <1>1 DEF ClientBegin, ClientPoll, Moves
  <2> QED BY <1>0, <2>1, CallReceives DEF ClientReceives
<1>2. CASE ClientAsk \/ ClientSave \/ ClientSaveLast
  <2>1. NoRecv /\ NoPoll /\ pcC \in {"ask", "imm"} /\ pcC' # "loop"
    BY <1>2 DEF ClientAsk, ClientSave, ClientSaveLast, Moves
  <2> QED BY <1>0, <2>1, CallReceives DEF ClientReceives
<1>3. CASE ClientPrepost \/ ClientRepost
  <2>1. PostRecv("client", "file_mr") /\ NoPoll /\ pcC \in {"prepost", "repost"} /\ pcC' = "loop"
    BY <1>3 DEF ClientPrepost, ClientRepost, Moves
  <2> QED BY <1>0, <2>1, CallReceives DEF ClientReceives
<1>4. CASE ClientClose
  BY <1>0, <1>4, CallReceives DEF ClientClose, ClientReceives
<1> QED BY <1>1, <1>2, <1>3, <1>4 DEF ClientStep

LEMMA FileReceivesStep ==
  ASSUME EndsTypeOK, FileReceives, FileBegin \/ FileStep \/ FileClose
  PROVE  FileReceives' /\ OthersReceive("file")
<1>0. /\ VerbsTypeOK /\ "file" \in Node /\ "file_mr" \in Region /\ "recv_mr" \in Region
      /\ Receives("file") \in Nat
  BY CallReceives, Constants DEF EndsTypeOK
<1>1. CASE FilePollA \/ FilePollB \/ FileWait
  <2>1. \/ PollRecv("file")
        \/ PollSend("file") /\ pcF' \in {"pollB", "return", "wait"}
    BY <1>1 DEF FilePollA, PollForSend, FilePollB, FileWait, AwaitRecv, Moves
  <2> QED BY <1>0, <2>1, CallReceives DEF FileReceives
<1>2. CASE FileBegin
  <2>1. PostRecv("file", "file_mr") /\ NoPoll /\ pcF = "idle" /\ pcF' = "pollA"
    BY <1>2 DEF FileBegin, Welcome, Moves
  <2> QED BY <1>0, <2>1, CallReceives DEF FileReceives
<1>3. CASE FileOpen \/ FileNext
  <2>1. /\ PostRecv("file", "recv_mr") \/ NoRecv
        /\ NoPoll /\ pcF \in {"open", "next"} /\ pcF' \in {"read", "return", "wait"}
    BY <1>3 DEF FileOpen, FileOpens, FileNext, Moves
  <2> QED BY <1>0, <2>1, CallReceives DEF FileReceives
<1>4. CASE FileWrite \/ FileEnd
  <2>1. NoRecv /\ NoPoll /\ pcF' \in {"wait", "fail", "return"}
    BY <1>4 DEF FileWrite, FileWrites, AfterWrite, FileEnd, Moves
  <2> QED BY <1>0, <2>1, CallReceives DEF FileReceives
<1>5. CASE FileClose
  BY <1>0, <1>5, CallReceives DEF FileClose, FileReceives
<1> QED BY <1>1, <1>2, <1>3, <1>4, <1>5 DEF FileStep

LEMMA ProxyReceivesStep ==
  ASSUME TypeOK, ProxyReceives, ProxyNext
  PROVE  ProxyReceives' /\ \A k \in {"client", "file"} : Receives(k)' = Receives(k)
<1> DEFINE Others == \A k \in {"client", "file"} : Receives(k)' = Receives(k)
<1>0. /\ VerbsTypeOK /\ "proxy" \in Node /\ "up1" \in Node
      /\ "file_mr" \in Region /\ "recv_mr" \in Region
      /\ Receives("proxy") \in Nat /\ Receives("up1") \in Nat
  BY CallReceives, Constants DEF TypeOK, HandlerTypeOK, EndsTypeOK
<1>1. /\ OthersReceive("proxy") => Others /\ Receives("up1")' = Receives("up1")
      /\ OthersReceive("up1")   => Others /\ Receives("proxy")' = Receives("proxy")
  BY Constants DEF OthersReceive
<1>2. CASE ProxyPollA \/ ProxyPollB
  <2>1. /\ PollSend("proxy") \/ PollRecv("proxy")
        /\ pcP \in {"pollA", "pollB"} /\ pcP' \in {"pollB", "fail", "fetch"}
    BY <1>2 DEF ProxyPollA, PollForSend, ProxyPollB, Moves
  <2> QED BY <1>0, <1>1, <2>1, CallReceives DEF ProxyReceives
<1>3. CASE ProxyLoop("up1") \/ ProxyAwaitBegin("up1", "await", "ask")
  <2>1. \/ PollSend("up1") /\ pcP' = "fileLoop"
        \/ PollRecv("up1") /\ pcP' \in {"ask", "fileLoop", "chunk"}
    BY <1>3 DEF ProxyLoop, ProxyAwaitBegin, Moves
  <2> QED BY <1>0, <1>1, <2>1, CallReceives DEF ProxyReceives
<1>4. CASE ProxyBegin
  <2>1. PostRecv("proxy", "file_mr") /\ NoPoll /\ pcP = "begin" /\ pcP' = "pollA"
    BY <1>4 DEF ProxyBegin, Welcome, Moves
  <2> QED BY <1>0, <1>1, <2>1, CallReceives DEF ProxyReceives
<1>5. CASE ProxyFetch({"up1"}, "file", "await")
  <2>1. rq' = [n \in Node |-> IF n = "up1" THEN Append(rq[n], "recv_mr") ELSE rq[n]]
    BY <1>5 DEF ProxyFetch
  <2>2. rq' = [rq EXCEPT !["up1"] = Append(@, "recv_mr")]
    BY <1>0, <2>1 DEF VerbsTypeOK
  <2>3. PostRecv("up1", "recv_mr") /\ NoPoll /\ pcP = "fetch" /\ pcP' = "await"
    BY <1>5, <2>2 DEF ProxyFetch, PostRecv, Moves
  <2> QED BY <1>0, <1>1, <2>3, CallReceives DEF ProxyReceives
<1>6. CASE Prepost \/ ProxyChunk("up1")
  <2>1. PostRecv("up1", "file_mr") /\ NoPoll /\ pcP \in {"prepost", "chunk"} /\ pcP' = "fileLoop"
    BY <1>6 DEF Prepost, ProxyChunk, ProxyKeeps, Moves
  <2> QED BY <1>0, <1>1, <2>1, CallReceives DEF ProxyReceives
<1>7. CASE Request \/ ProxyEnd("serve")
  <2>1. NoRecv /\ NoPoll /\ pcP \in {"ask", "chunk"} /\ pcP' \in {"prepost", "serve"}
    BY <1>7 DEF Request, ProxyEnd, Moves
  <2> QED BY <1>0, <1>1, <2>1, CallReceives DEF ProxyReceives
<1>8. CASE ProxyClose
  <2>1. CloseNode("proxy") /\ pcP' = "closed"
    BY <1>8 DEF ProxyClose, Moves
  <2> QED BY <1>0, <1>1, <2>1, CallReceives DEF ProxyReceives
<1> QED BY <1>2, <1>3, <1>4, <1>5, <1>6, <1>7, <1>8 DEF ProxyNext, ReceiveSend

\* The switch gives no queue of an end point anything to hold that an adapter would not.
LEMMA SwitchPlaces ==
  ASSUME VerbsTypeOK, NEW k \in Node, NicAct(k), NEW n \in Node
  PROVE  Sends(n)' = Sends(n) /\ Receives(n)' = Receives(n)
<1>1. CASE SwitchExecute(k)
  <2>1. /\ sq[k] # <<>> /\ sq' = [sq EXCEPT ![k] = Tail(@)] /\ scq' = [scq EXCEPT ![k] = @ + 1]
        /\ UNCHANGED <<rq, rcq>>
    BY <1>1 DEF SwitchExecute, Transmit
  <2>2. Receives(n)' = Receives(n)
    BY <2>1 DEF Receives
  <2>3. CASE n # k
    BY <2>1, <2>2, <2>3 DEF Sends, VerbsTypeOK
  <2>4. CASE n = k
    <3> DEFINE queued == Len(sq[n])
               done   == scq[n]
    <3>1. sq[n] \in Seq(WorkRequest) /\ sq[n] # <<>> /\ scq[n] \in Nat
      BY <2>1, <2>4, NodeTypes
    <3>2. sq'[n] = Tail(sq[n]) /\ scq'[n] = scq[n] + 1
      BY <2>1, <2>4 DEF VerbsTypeOK
    <3>3. queued \in Nat /\ done \in Nat /\ queued' = queued - 1 /\ done' = done + 1
      BY <3>1, <3>2, TailFacts
    <3> HIDE DEF queued, done
    <3>4. queued' + done' = queued + done
      BY <3>3
    <3> QED BY <2>2, <3>4 DEF Sends, queued, done
  <2> QED BY <2>3, <2>4
<1>2. CASE NicStep(k)
  BY <1>2, NicKeeps, Constants
<1> QED BY <1>1, <1>2 DEF NicAct, NicStep

\* No queue of a switched read is ever asked to hold more than it was made for, in
\* either plane, for a file of any length and any loss, if the completion queues
\* return what they hold in turn.
THEOREM QueuesFitCorrect == Spec /\ [][InTurn]_vars => []QueuesFit
<1> DEFINE Places == /\ ClientPlaces /\ ProxyPlaces /\ FilePlaces
                     /\ ClientReceives /\ ProxyReceives /\ FileReceives
           QInv   == IInv /\ Places
<1>1. Init => QInv
  <2> SUFFICES ASSUME Init PROVE QInv
    OBVIOUS
  <2>1. /\ \A n \in Node : Len(sq[n]) = 0 /\ scq[n] = 0 /\ Len(rcq[n]) = 0
        /\ \A n \in Node : rq[n] = IF n = "client" THEN <<"recv_mr">> ELSE <<>>
        /\ pcC = "begin" /\ pcF = "idle" /\ pcP = "begin"
    BY DEF Init, HandlerInit, EndsInit, VerbsInit
  <2>2. ASSUME NEW n \in Node PROVE Sends(n) = 0
    <3>1. Sends(n) = 0 + 0
      BY <2>1 DEF Sends
    <3> QED BY <3>1
  <2>3. Receives("client") = 1
    <3>1. rq["client"] = <<"recv_mr">> /\ Len(rcq["client"]) = 0
      BY <2>1, Constants
    <3>2. Len(rq["client"]) = 1
      BY <3>1
    <3>3. Receives("client") = 1 + 0
      BY <3>1, <3>2 DEF Receives
    <3> QED BY <3>3
  <2>4. ASSUME NEW n \in Node \ {"client"} PROVE Receives(n) = 0
    <3>1. Len(rq[n]) = 0 /\ Len(rcq[n]) = 0
      BY <2>1
    <3>2. Receives(n) = 0 + 0
      BY <3>1 DEF Receives
    <3> QED BY <3>2
  <2> QED BY <2>1, <2>2, <2>3, <2>4, InitIInv, Constants
          DEF ClientPlaces, FilePlaces, ProxyPlaces, ClientReceives, FileReceives, ProxyReceives
<1>2. QInv /\ [Next]_vars /\ [InTurn]_vars => QInv'
  <2> SUFFICES ASSUME QInv, [Next]_vars, [InTurn]_vars PROVE QInv'
    OBVIOUS
  <2>0. TypeOK /\ EndsTypeOK /\ VerbsTypeOK /\ Answered
    BY SwitchedAnswered DEF IInv, Flow, TypeOK, HandlerTypeOK, EndsTypeOK
  <2>1. IInv'
    BY IInvStep
  <2>2. CASE UNCHANGED vars
    BY <2>1, <2>2 DEF vars, endsVars, verbsVars, clientVars, fileVars, handlerVars,
       ClientPlaces, FilePlaces, ProxyPlaces, ClientReceives, FileReceives, ProxyReceives,
       Sends, Receives
  <2>3. CASE ClientNext /\ InTurn
    <3>1. ClientPlaces' /\ OthersKeep("client") /\ UNCHANGED <<pcF, pcP>>
      BY <2>0, <2>3, ClientPlacesStep DEF ClientNext, fileVars, handlerVars
    <3>2. ClientReceives' /\ OthersReceive("client")
      BY <2>0, <2>3, ClientReceivesStep DEF ClientNext
    <3>3. FilePlaces' /\ ProxyPlaces'
      BY <3>1, Constants DEF OthersKeep, FilePlaces, ProxyPlaces
    <3>4. FileReceives' /\ ProxyReceives'
      BY <3>1, <3>2, Constants DEF OthersReceive, FileReceives, ProxyReceives
    <3> QED BY <2>1, <3>1, <3>2, <3>3, <3>4
  <2>4. CASE FileNextStep /\ InTurn
    <3>1. FilePlaces' /\ OthersKeep("file") /\ UNCHANGED <<pcC, pcP>>
      BY <2>0, <2>4, FilePlacesStep DEF FileNextStep, clientVars, handlerVars
    <3>2. FileReceives' /\ OthersReceive("file")
      BY <2>0, <2>4, FileReceivesStep DEF FileNextStep
    <3>3. ClientPlaces' /\ ProxyPlaces'
      BY <3>1, Constants DEF OthersKeep, ClientPlaces, ProxyPlaces
    <3>4. ClientReceives' /\ ProxyReceives'
      BY <3>1, <3>2, Constants DEF OthersReceive, ClientReceives, ProxyReceives
    <3> QED BY <2>1, <3>1, <3>2, <3>3, <3>4
  <2>5. CASE ProxyNext /\ InTurn
    <3>1. /\ ProxyPlaces' /\ \A k \in {"client", "file"} : Sends(k)' = Sends(k)
          /\ ProxyReceives' /\ \A k \in {"client", "file"} : Receives(k)' = Receives(k)
          /\ UNCHANGED <<pcC, pcF>>
      BY <2>0, <2>5, ProxyPlacesStep, ProxyReceivesStep DEF ProxyNext, clientVars, fileVars
    <3> QED BY <2>1, <3>1 DEF ClientPlaces, FilePlaces, ClientReceives, FileReceives
  <2>6. ASSUME NEW k \in Node, Nic(NicAct(k)) PROVE QInv'
    <3>1. \A n \in Node : Sends(n)' = Sends(n) /\ Receives(n)' = Receives(n)
      BY <2>0, <2>6, SwitchPlaces DEF Nic
    <3> QED BY <2>1, <2>6, <3>1, Constants
            DEF Nic, clientVars, fileVars, handlerVars,
                ClientPlaces, FilePlaces, ProxyPlaces, ClientReceives, FileReceives, ProxyReceives
  <2> QED BY <2>2, <2>3, <2>4, <2>5, <2>6 DEF Next, NicAct
<1>3. QInv => QueuesFit
  <2> SUFFICES ASSUME QInv PROVE QueuesFit
    OBVIOUS
  <2>1. VerbsTypeOK
    BY DEF IInv, Flow, TypeOK, HandlerTypeOK, EndsTypeOK
  <2>2. ASSUME NEW n \in Node PROVE Sends(n) <= 3 /\ Receives(n) <= 2
    BY <2>1, SendsType, Constants
       DEF ClientPlaces, FilePlaces, ProxyPlaces, ClientReceives, FileReceives, ProxyReceives
  <2> QED BY <2>1, <2>2, WithinLimits
<1> QED BY <1>1, <1>2, <1>3, PTL DEF Spec
=============================================================================
