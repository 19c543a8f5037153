-------------------------- MODULE ReadProxy_proofs --------------------------
(***************************************************************************)
(* Proofs about the read of a file through the proxy, for a file of any    *)
(* length, for both clients and for any number of lost messages.           *)
(***************************************************************************)
EXTENDS ReadProxy, Verbs_proofs

-----------------------------------------------------------------------------
(* The inductive invariant behind the safety properties of the proxied     *)
(* read. In each of the three pairs of end points at most one message is   *)
(* on its way, and what it can be is determined by where the processes     *)
(* are: a place at which no message is expected is one at which both       *)
(* directions of the pair are idle.                                        *)

Starting == pcP \in {"begin", "pollA", "pollB", "fetch"}

ForClient(l) ==
  \/ l = Sent("begin") /\ pcC = "begin" /\ pcP \in {"pollA", "pollB"}
  \/ /\ l = Written(Block(sent), IF sent < size THEN 1 ELSE 0)
     /\ sent = Len(dst) + 1 /\ pcC \in {"prepost", "repost", "loop"}
     /\ pcP = IF sent < size THEN "wait" ELSE "serve"

ForProxy(l) ==
  \/ l = Sent("request") /\ pcC \in {"prepost", "loop"} /\ pcP \in {"pollA", "pollB"}
  \/ /\ l = Sent("next") /\ pcC \in {"repost", "loop"} /\ pcP = "wait" /\ sent = Len(dst)
     /\ signals

ForUp1(l) ==
  \/ l = Sent("begin") /\ pcP = "metaBegin" /\ pcM \in {"pollA", "loop"}
  \/ l = Sent("request") /\ pcP \in {"metaSent", "metaLoop"} /\ pcM = "done"

ForMeta(l) == l = Sent("request") /\ pcP \in {"metaSent", "metaLoop"} /\ pcM \in {"pollA", "loop"}

ForUp2(l) ==
  \/ l = Sent("begin") /\ pcP = "fileBegin" /\ pcF \in {"pollA", "pollB"}
  \/ l = Sent("err") /\ ~ canOpen /\ pcP = "fileLoop" /\ pcF \in {"return", "closed"}
  \/ /\ l = Written(Piece(pos), 1) /\ pos = Len(pool) + 1
     /\ pcP = "fileLoop" /\ pcF \in {"wait", "fail", "closed"}
  \/ /\ l = EmptyWrite /\ pos = size /\ Len(pool) = size
     /\ pcP = "fileLoop" /\ pcF \in {"return", "closed"}

ForFile(l) ==
  \/ l = Sent("request") /\ pcP = "fileLoop" /\ pcF \in {"pollA", "pollB"}
  \/ l = Sent("next") /\ pcP = "fileLoop" /\ pcF \in {"wait", "fail", "closed"} /\ pos = Len(pool)

\* The message l can be on its way to n, and r is the region that n posts to
\* receive it.
Expected(n, l) == \/ n = "client" /\ ForClient(l)
                  \/ n = "proxy"  /\ ForProxy(l)
                  \/ n = "up1"    /\ ForUp1(l)
                  \/ n = "meta"   /\ ForMeta(l)
                  \/ n = "up2"    /\ ForUp2(l)
                  \/ n = "file"   /\ ForFile(l)

RegionOf(n) ==
  IF \/ n = "client" /\ pcC = "begin"
     \/ n = "proxy"  /\ pcP \notin {"begin", "pollA", "pollB", "fail"}
     \/ n = "up1"    /\ pcP = "metaBegin"
     \/ n = "up2"    /\ pcP \in {"metaBegin", "metaAsk", "metaSent", "metaLoop", "metaGot",
                                 "fileBegin"}
     \/ n = "file"   /\ pcF \notin {"idle", "pollA", "pollB"}
    THEN "recv_mr" ELSE "file_mr"

Letters == {Sent("begin"), Sent("request"), Sent("next"), Sent("err"), EmptyWrite,
            Written(Piece(pos), 1), Written(Block(sent), 0), Written(Block(sent), 1)}

\* The receive for a message is posted before the message is sent, but for a chunk that
\* comes back to a client that is about to post it and for a file server that has closed.
Unready(n) == (n = "client" /\ pcC \in {"prepost", "repost"}) \/ (n = "file" /\ pcF = "closed")

MailOf(n) ==
  /\ AllPosted(n, RegionOf(n))
  /\ \/ Idle(n)
     \/ /\ Idle(Peer[n]) /\ (Receives(n) = 1 \/ Unready(n))
        /\ \E l \in Letters : Expected(n, l) /\ InFlight(n, RegionOf(n), l)

\* The receives of each end point.  Where a poll marked "post send" may have returned
\* a receive, there are none or one.
ClientPosted ==
  /\ Receives("client") = IF pcC \in {"begin", "loop"} THEN 1 ELSE 0
  /\ \/ pcP = "pollB" /\ (Receives("proxy") = 0 \/ Receives("proxy") = 1)
     \/ pcP # "pollB" /\ Receives("proxy") =
                           IF pcP \in {"pollA", "write", "wait", "serve"} THEN 1 ELSE 0

MetaPosted ==
  /\ \/ pcP = "metaLoop" /\ (Receives("up1") = 0 \/ Receives("up1") = 1)
     \/ pcP # "metaLoop" /\ Receives("up1") = IF pcP \in {"metaBegin", "metaSent"} THEN 1 ELSE 0
  /\ \/ pcM = "loop" /\ (Receives("meta") = 0 \/ Receives("meta") = 1)
     \/ pcM # "loop" /\ Receives("meta") = IF pcM = "pollA" THEN 1 ELSE 0

FilePosted ==
  /\ \/ pcP = "fileLoop" /\ (Receives("up2") = 0 \/ Receives("up2") = 1)
     \/ pcP # "fileLoop" /\ Receives("up2") =
          IF pcP \in {"metaBegin", "metaAsk", "metaSent", "metaLoop", "metaGot", "fileBegin"}
            THEN 1 ELSE 0
  /\ \/ pcF \in {"pollB", "return"} /\ (Receives("file") = 0 \/ Receives("file") = 1)
     \/ pcF \notin {"pollB", "return"} /\ Receives("file") =
                             IF pcF \in {"pollA", "read", "wait", "fail"} THEN 1 ELSE 0

\* Between the client and the proxy, until the request is read.  The completion of
\* BEGIN is still to come at the first of two polls, and at the second unless the
\* first has returned it.
Asking ==
  /\ pcP = "begin" => Sends("proxy") = 0 /\ pcC = "begin"
  /\ pcP = "pollA" => Sends("proxy") = 1
  /\ pcP = "pollB" => Sends("proxy") + Receives("proxy") = 1
  /\ pcC = "ask" => mem["client"]["recv_mr"] = Text("begin")
  /\ pcC \in {"begin", "ask"} =>
       pcP \in {"begin", "pollA"} \/ (pcP = "pollB" /\ Receives("proxy") = 1)
  /\ pcP = "fetch" => mem["proxy"]["file_mr"] = Text("request")

\* Between the client and the proxy, when the chunks are returned.
Returning ==
  /\ \A i \in 1..Len(dst) : dst[i] = Block(i)
  /\ Len(dst) <= sent
  /\ sent # 0 => pcP \in {"write", "wait", "waitRead", "serve", "closed"}
  /\ pcC = "imm" => /\ mem["client"]["file_mr"] = Block(sent) /\ sent = Len(dst) + 1
                    /\ immC = IF sent < size THEN 1 ELSE 0
                    /\ pcP = IF sent < size THEN "wait" ELSE "serve"
  /\ pcC \in {"close", "closed"} => doneC /\ Len(dst) = size /\ pcP \in {"serve", "closed"}
  /\ doneC => pcC \in {"close", "closed"}
  /\ pcP \in {"return", "write", "wait", "waitRead", "serve"} => Len(pool) = size
  /\ sent # 0 => Len(pool) = size
  /\ pcP \in {"write", "waitRead"} => /\ sent = Len(dst) /\ sent < size
                                   /\ pcC \in {"prepost", "repost", "loop"}
  /\ pcP = "wait" => sent < size
  /\ pcP = "serve" => sent = size
  /\ pcP = "waitRead" => mem["proxy"]["recv_mr"] = Text("next")
  /\ sent <= size
  /\ pcC = "repost" => Len(dst) > 0
  /\ sent > 1 \/ pcP = "waitRead" \/ (pcP = "write" /\ sent > 0) => signals

\* Between the proxy and the metadata server.
Looking ==
  /\ Starting \/ pcP = "fail" => asked = {}
  /\ "file" \in asked => ~ Starting /\ pcP \notin {"metaBegin", "metaAsk", "metaSent", "metaLoop",
                                                   "metaGot"}
  /\ pcP = "fileBegin" => "file" \in asked
  /\ asked = {} => pcM = "idle"
  /\ pcM = "idle" => asked = {} \/ pcP = "metaBegin"
  /\ pcP \in {"metaBegin", "metaAsk"} /\ pcM # "idle" =>
       pcM \in {"pollA", "loop"} /\ Receives("meta") = 1
  /\ pcP = "metaAsk" => mem["up1"]["recv_mr"] = Text("begin") /\ pcM # "idle"
  /\ pcM = "got" => pcP \in {"metaSent", "metaLoop"} /\ mem["meta"]["file_mr"] = Text("request")
  /\ pcP = "metaLoop" /\ Receives("up1") = 0 => pcM = "done"
  /\ pcP = "metaGot" => mem["up1"]["file_mr"] = Text("request") /\ pcM = "done"
  /\ pcM = "done" => ~ Starting /\ pcP \notin {"metaBegin", "metaAsk"}
  /\ pcP \in {"metaBegin", "metaAsk", "fileBegin", "fileAsk"} => content = Text("request")

\* Between the proxy and the file server.
Fetching ==
  /\ pcF = "idle"  => Sends("file") = 0
  /\ pcF = "pollA" => Sends("file") = 1
  /\ pcF = "pollB" => Sends("file") + Receives("file") = 1
  /\ "file" \notin asked => pcF = "idle"
  /\ pcF = "idle" => "file" \notin asked \/ pcP = "fileBegin"
  /\ pcP \in {"fileBegin", "fileAsk"} /\ pcF # "idle" =>
       pcF \in {"pollA", "pollB"} /\ Receives("file") = 1
  /\ pcP = "fileAsk" => mem["up2"]["recv_mr"] = Text("begin") /\ pcF # "idle"
  /\ \A i \in 1..Len(pool) : pool[i] = Block(i)
  /\ pcF \in {"open", "read", "next"} => pcP = "fileLoop" /\ pos = Len(pool)
  /\ pcF \in {"idle", "pollA", "pollB", "open"} => pos = 0 /\ pool = <<>>
  /\ pcF \in {"idle", "pollA", "pollB"} =>
       Starting \/ pcP \in {"metaBegin", "metaAsk", "metaSent", "metaLoop", "metaGot",
                            "fileBegin", "fileAsk", "fileLoop", "fail", "closed"}
  /\ pcF = "next" => mem["file"]["recv_mr"] = Text("next")
  /\ pcP = "fileLoop" /\ Receives("up2") = 0 => ~ canOpen /\ pcF \in {"return", "closed"}
  /\ pcP = "chunk" =>
       \/ /\ immP = 1 /\ mem["up2"]["file_mr"] = Piece(pos) /\ pos = Len(pool) + 1
          /\ pcF \in {"wait", "fail", "closed"}
       \/ immP = 0 /\ Len(pool) = size /\ pcF \in {"return", "closed"}
  /\ pcF \in {"closed", "cut"} => ~ up["file"]

\* What holds of each of the three pairs of end points, and of the places of the two
\* processes at its ends.
ClientPair == MailOf("client") /\ MailOf("proxy") /\ ClientPosted /\ Asking /\ Returning
MetaPair   == MailOf("up1") /\ MailOf("meta") /\ MetaPosted /\ Looking
FilePair   == MailOf("up2") /\ MailOf("file") /\ FilePosted /\ Fetching

\* At the end of the region that the chunks come to is the end of the last whole one.
Ended == EndsHeld /\ (short => EndKept("up2", Len(pool), size))

\* The strengthening of the proxied read's safety properties: inductive as it stands.
IInv == TypeOK /\ ClientPair /\ MetaPair /\ FilePair /\ Ended

-----------------------------------------------------------------------------
(* The proofs. *)

LEMMA Constants ==
  /\ Node = {"client", "proxy", "up1", "meta", "up2", "file"}
  /\ "client" \in Node /\ "proxy" \in Node /\ "up1" \in Node
  /\ "meta" \in Node /\ "up2" \in Node /\ "file" \in Node
  /\ Peer["client"] = "proxy" /\ Peer["proxy"] = "client"
  /\ Peer["up1"] = "meta" /\ Peer["meta"] = "up1"
  /\ Peer["up2"] = "file" /\ Peer["file"] = "up2"
  /\ MaxChunks \in Nat /\ MaxLoss \in Nat /\ Clients \subseteq BOOLEAN
  /\ Paired
  /\ "msg_mr" \in Region /\ "recv_mr" \in Region /\ "file_mr" \in Region
BY ReadAssumption, EndsAssumption, VerbsAssumption DEF Paired, Region

-----------------------------------------------------------------------------
(* Type correctness. *)

LEMMA TypeInit == Init => TypeOK
<1> SUFFICES ASSUME Init PROVE TypeOK
  OBVIOUS
<1>1. <<"recv_mr">> \in Seq(Region) /\ \A S : <<>> \in Seq(S)
  BY DEF Region
<1>2. rq \in [Node -> Seq(Region)]
  BY <1>1 DEF Init, HandlerInit, EndsInit, VerbsInit
<1>3. mem \in [Node -> [Part -> Payload]]
  BY PayloadFacts DEF Init, HandlerInit, EndsInit, VerbsInit, Nothing
<1>4. VerbsTypeOK
  BY <1>1, <1>2, <1>3, Constants DEF Init, HandlerInit, EndsInit, VerbsInit, VerbsTypeOK
<1>5. /\ signals \in Clients /\ pause \in BOOLEAN /\ size \in 0..MaxChunks
      /\ short \in BOOLEAN /\ canOpen \in BOOLEAN
      /\ pcC = "begin" /\ immC \in 0..1 /\ dst \in Seq(Payload) /\ doneC \in BOOLEAN
      /\ pcF = "idle" /\ pos \in 0..size /\ swapped \in BOOLEAN
  <2>1. dst \in Seq(Payload)
    BY <1>1 DEF Init, HandlerInit, EndsInit
  <2>2. size \in 0..MaxChunks /\ size \in Nat /\ pos = 0
    BY Constants DEF Init, HandlerInit, EndsInit
  <2>3. immC \in 0..1 /\ pos \in 0..size
    BY <2>2 DEF Init, HandlerInit, EndsInit
  <2>4. /\ signals \in Clients /\ pause \in BOOLEAN /\ short \in BOOLEAN /\ canOpen \in BOOLEAN
        /\ doneC = FALSE /\ swapped = FALSE /\ pcC = "begin" /\ pcF = "idle"
    BY DEF Init, HandlerInit, EndsInit
  <2>5. doneC \in BOOLEAN /\ swapped \in BOOLEAN
    BY <2>4
  <2> QED BY <2>1, <2>2, <2>3, <2>4, <2>5
<1>6. EndsTypeOK
  BY <1>4, <1>5 DEF EndsTypeOK
<1>7. /\ immP \in 0..1 /\ content \in Payload /\ pool \in Seq(Payload) /\ asked \subseteq Node
      /\ pcP = "begin" /\ sent \in 0..Len(pool) /\ pcM = "idle"
  BY <1>1, PayloadFacts DEF Init, HandlerInit, Nothing
<1> QED BY <1>6, <1>7 DEF TypeOK, HandlerTypeOK

LEMMA PollForSendType ==
  ASSUME VerbsTypeOK, swapped \in BOOLEAN, NEW n \in Node, PollForSend(n)
  PROVE  VerbsTypeOK' /\ swapped' \in BOOLEAN
BY PollType DEF PollForSend, PollAny

\* What the file server writes and what a reader finds then are payloads, the same for
\* as long as the file is.
LEMMA PieceTyped == \A i \in Nat : Piece(i) \in Payload /\ (i > 0 => Block(i) \in Payload)
BY PayloadFacts, BlockFacts DEF Piece, Block

LEMMA PiecesKept ==
  UNCHANGED <<size, short>> => \A i : Piece(i)' = Piece(i) /\ Block(i)' = Block(i)
BY DEF Piece, Block

\* What a read of the whole region returns when the i-th chunk has been written to it,
\* or when a block has been.
LEMMA BlockRead ==
  ASSUME NEW n \in Node, NEW i, mem[n]["file_mr"] = Piece(i),
         short /\ i = size => mem[n]["file_end"].tail = i - 1
  PROVE  FileBlock(n) = Block(i)
<1>1. CASE short /\ i = size
  BY <1>1 DEF FileBlock, Block, Piece, Short
<1>2. CASE ~ (short /\ i = size)
  BY <1>2 DEF FileBlock, Block, Piece, Chunk
<1> QED BY <1>1, <1>2

LEMMA BlockReread ==
  ASSUME NEW n \in Node, NEW i, mem[n]["file_mr"] = Block(i)
  PROVE  FileBlock(n) = Block(i)
BY DEF FileBlock, Block, Padded, Chunk

LEMMA ClientTypeStep ==
  ASSUME TypeOK, ClientNext
  PROVE  TypeOK'
<1> USE Constants, PayloadFacts
<1>0. /\ VerbsTypeOK /\ EndsTypeOK /\ UNCHANGED <<runVars, fileVars, proxyVars, pcM, swapped>>
      /\ "client" \in Node /\ dst \in Seq(Payload) /\ immC \in 0..1 /\ doneC \in BOOLEAN
  BY DEF ClientNext, TypeOK, HandlerTypeOK, EndsTypeOK
<1>1. ASSUME VerbsTypeOK', immC' \in 0..1, dst' \in Seq(Payload), doneC' \in BOOLEAN,
             pcC' \in {"begin", "ask", "prepost", "loop", "imm", "repost", "close", "closed"}
      PROVE  TypeOK'
  BY <1>0, <1>1 DEF TypeOK, HandlerTypeOK, EndsTypeOK, runVars, fileVars, proxyVars, handlerVars
<1>2. CASE ClientBegin /\ UNCHANGED <<immC, dst, doneC>>
  BY <1>0, <1>1, <1>2, PollType DEF ClientBegin, PollAny, Moves
<1>3. CASE ClientAsk /\ UNCHANGED <<immC, dst, doneC>>
  <2>1. CASE PostSend("client", "msg_mr", Text("request")) /\ Moves(pcC, "ask", "prepost")
    BY <1>0, <1>1, <1>3, <2>1, SendType DEF ClientAsk, NoRecv, NoPoll, VerbsTypeOK, Moves
  <2>2. CASE NoSend /\ Moves(pcC, "ask", "close")
    BY <1>0, <1>1, <1>3, <2>2 DEF ClientAsk, NoSend, NoRecv, NoPoll, VerbsTypeOK, Moves
  <2> QED BY <1>3, <2>1, <2>2 DEF ClientAsk
<1>4. CASE ClientPrepost /\ UNCHANGED <<immC, dst, doneC>>
  BY <1>0, <1>1, <1>4, PostRecvType DEF ClientPrepost, NoSend, NoPoll, VerbsTypeOK, Moves
<1>5. CASE ClientClose /\ UNCHANGED <<immC, dst, doneC>>
  BY <1>0, <1>1, <1>5, CloseType DEF ClientClose, Moves
<1>8. CASE ClientRepost /\ UNCHANGED <<immC, dst, doneC>>
  BY <1>0, <1>1, <1>8, PostRecvType DEF ClientRepost, NoSend, NoPoll, VerbsTypeOK, Moves
<1>6. CASE ClientPoll /\ UNCHANGED <<dst, doneC>>
  <2>1. CASE PollSend("client") /\ Moves(pcC, "loop", "loop") /\ UNCHANGED immC
    BY <1>0, <1>1, <1>6, <2>1, PollType DEF PollAny, Moves
  <2>2. CASE PollRecv("client") /\ immC' = Head(rcq["client"]).imm /\ pcC' \in {"imm", "loop"}
    <3>1. Head(rcq["client"]) \in Completion
      BY <1>0, <2>2, TailFacts, NodeTypes DEF PollRecv
    <3>2. immC' \in 0..1
      BY <2>2, <3>1 DEF Completion
    <3> QED BY <1>0, <1>1, <1>6, <2>2, <3>2, PollType DEF PollAny
  <2> QED BY <1>6, <2>1, <2>2 DEF ClientPoll, Moves
<1>7. CASE (ClientSave \/ ClientSaveLast) /\ UNCHANGED immC
  <2>2. dst' \in Seq(Payload)
    <3>1. PICK x \in Payload : dst' = Append(dst, x)
      BY <1>0, <1>7, FileBlockType DEF ClientSave, ClientSaveLast, SaveChunk
    <3> QED BY <1>0, <3>1, AppendFacts
  <2>3. CASE ClientSave
    <3>1. mem' \in [Node -> [Part -> Payload]] /\ sq' \in [Node -> Seq(WorkRequest)]
      <4>1. CASE PostSend("client", "msg_mr", Text("next"))
        BY <1>0, <4>1, SendType
      <4>2. CASE NoSend
        BY <1>0, <4>2 DEF NoSend, VerbsTypeOK
      <4> QED BY <2>3, <4>1, <4>2 DEF ClientSave
    <3> QED BY <1>0, <1>1, <1>7, <2>2, <2>3, <3>1 DEF ClientSave, NoRecv, NoPoll, VerbsTypeOK, Moves
  <2>4. CASE ClientSaveLast
    BY <1>0, <1>1, <1>7, <2>2, <2>4 DEF ClientSaveLast, NoRecv, NoSend, NoPoll, VerbsTypeOK, Moves
  <2> QED BY <1>7, <2>3, <2>4
<1> QED BY <1>2, <1>3, <1>4, <1>5, <1>6, <1>7, <1>8 DEF ClientNext, ClientStep

LEMMA MetaTypeStep ==
  ASSUME TypeOK, MetaNext
  PROVE  TypeOK'
<1> USE Constants, PayloadFacts
<1>0. /\ VerbsTypeOK /\ EndsTypeOK /\ UNCHANGED <<runVars, clientVars, fileVars, proxyVars>>
      /\ "meta" \in Node /\ swapped \in BOOLEAN
  BY DEF MetaNext, TypeOK, HandlerTypeOK, EndsTypeOK
<1>1. ASSUME VerbsTypeOK', swapped' \in BOOLEAN, pcM' \in {"idle", "pollA", "loop", "got", "done"}
      PROVE  TypeOK'
  BY <1>0, <1>1 DEF TypeOK, HandlerTypeOK, EndsTypeOK, runVars, clientVars, fileVars, proxyVars,
     handlerVars
<1>2. CASE MetaPollA
  BY <1>0, <1>1, <1>2, PollForSendType DEF MetaPollA, Moves
<1>3. CASE MetaBegin /\ UNCHANGED swapped
  BY <1>0, <1>1, <1>3, PostRecvType, SendType DEF MetaBegin, Welcome, NoPoll, VerbsTypeOK, Moves
<1>4. CASE MetaLoop /\ UNCHANGED swapped
  BY <1>0, <1>1, <1>4, PollType DEF MetaLoop, AwaitRecv, PollAny, Moves
<1>5. CASE MetaReply /\ UNCHANGED swapped
  <2>1. mem["meta"]["file_mr"] \in Payload
    BY <1>0 DEF Part, VerbsTypeOK
  <2> QED BY <1>0, <1>1, <1>5, <2>1, SendType DEF MetaReply, NoRecv, NoPoll, VerbsTypeOK, Moves
<1> QED BY <1>2, <1>3, <1>4, <1>5 DEF MetaNext

LEMMA FileTypeStep ==
  ASSUME TypeOK, FileNextStep
  PROVE  TypeOK'
<1> USE Constants, PayloadFacts
<1>0. /\ VerbsTypeOK /\ EndsTypeOK /\ UNCHANGED <<runVars, clientVars, proxyVars, pcM>>
      /\ "file" \in Node /\ swapped \in BOOLEAN /\ pos \in 0..size /\ size \in Nat
  BY DEF FileNextStep, TypeOK, HandlerTypeOK, EndsTypeOK
<1>1. ASSUME VerbsTypeOK', swapped' \in BOOLEAN, pos' \in 0..size,
             pcF' \in {"idle", "pollA", "pollB", "open", "read", "wait", "next", "return", "fail",
                       "closed", "cut"}
      PROVE  TypeOK'
  BY <1>0, <1>1 DEF TypeOK, HandlerTypeOK, EndsTypeOK, runVars, clientVars, proxyVars, handlerVars
<1>2. CASE FileBegin
  BY <1>0, <1>1, <1>2, PostRecvType, SendType DEF FileBegin, Welcome, NoPoll, VerbsTypeOK, Moves
<1>3. CASE FilePollA /\ UNCHANGED pos
  BY <1>0, <1>1, <1>3, PollForSendType DEF FilePollA, Moves
<1>4. CASE FileWrite /\ UNCHANGED swapped
  <2>1. Piece(pos + 1) \in Payload /\ pos' \in 0..size
    BY <1>0, <1>4, PieceTyped DEF FileWrite, FileWrites
  <2>2. mem' \in [Node -> [Part -> Payload]] /\ sq' \in [Node -> Seq(WorkRequest)]
    BY <1>0, <1>4, <2>1, WriteType DEF FileWrite, FileWrites
  <2>3. VerbsTypeOK'
    BY <1>0, <1>4, <2>2 DEF FileWrite, FileWrites, NoRecv, NoPoll, VerbsTypeOK
  <2> QED BY <1>0, <1>1, <1>4, <2>1, <2>3 DEF FileWrite, FileWrites, AfterWrite, Moves
<1>5. CASE FilePollB /\ UNCHANGED <<pos, swapped>>
  BY <1>0, <1>1, <1>5, PollType DEF FilePollB, PollAny, Moves
<1>6. CASE FileOpen /\ UNCHANGED <<pos, swapped>>
  <2>1. CASE PostRecv("file", "recv_mr") /\ NoSend
    BY <1>0, <1>1, <1>6, <2>1, PostRecvType DEF FileOpen, FileOpens, NoSend, NoPoll, VerbsTypeOK,
       Moves
  <2>2. CASE NoRecv /\ PostSend("file", "msg_mr", Text("err"))
    BY <1>0, <1>1, <1>6, <2>2, SendType DEF FileOpen, FileOpens, NoRecv, NoPoll, VerbsTypeOK, Moves
  <2> QED BY <1>6, <2>1, <2>2 DEF FileOpen, FileOpens
<1>7. CASE FileEnd /\ UNCHANGED <<pos, swapped>>
  BY <1>0, <1>1, <1>7, EmptyWriteType DEF FileEnd, NoRecv, NoPoll, VerbsTypeOK, Moves
<1>8. CASE FileWait /\ UNCHANGED <<pos, swapped>>
  BY <1>0, <1>1, <1>8, PollType DEF FileWait, AwaitRecv, PollAny, Moves
<1>9. CASE FileNext /\ UNCHANGED <<pos, swapped>>
  <2>1. rq' \in [Node -> Seq(Region)]
    BY <1>0, <1>9, PostRecvType DEF FileNext, NoRecv, VerbsTypeOK
  <2> QED BY <1>0, <1>1, <1>9, <2>1 DEF FileNext, NoSend, NoPoll, VerbsTypeOK, Moves
<1>10. CASE FileClose
  <2>1. VerbsTypeOK'
    BY <1>0, <1>10, CloseType DEF FileClose
  <2> QED BY <1>0, <1>1, <1>10, <2>1 DEF FileClose
<1> QED BY <1>2, <1>3, <1>4, <1>5, <1>6, <1>7, <1>8, <1>9, <1>10 DEF FileNextStep, FileStep

LEMMA FetchType ==
  ASSUME VerbsTypeOK, NEW S \in SUBSET Node,
         rq' = [n \in Node |-> IF n \in S THEN Append(rq[n], "recv_mr") ELSE rq[n]]
  PROVE  rq' \in [Node -> Seq(Region)]
<1>1. \A n \in Node : Append(rq[n], "recv_mr") \in Seq(Region)
  BY NodeTypes, AppendFacts, Constants
<1>2. \A n \in Node : rq[n] \in Seq(Region)
  BY NodeTypes
<1> QED BY <1>1, <1>2

LEMMA ProxyTypeStep ==
  ASSUME TypeOK, pcP = "write" => sent < Len(pool), ProxyNext
  PROVE  TypeOK'
<1> DEFINE Places == {"begin", "pollA", "pollB", "fetch", "metaBegin", "metaAsk", "metaSent",
                      "metaLoop", "metaGot", "fileBegin", "fileAsk", "fileLoop", "chunk",
                      "return", "write", "wait", "waitRead", "serve", "fail", "closed"}
<1>a. /\ "client" \in Node /\ "proxy" \in Node /\ "up1" \in Node /\ "up2" \in Node
      /\ "meta" \in Node /\ "file" \in Node
      /\ "msg_mr" \in Region /\ "recv_mr" \in Region /\ "file_mr" \in Region
      /\ Text("begin") \in Payload /\ Text("next") \in Payload
  BY Constants, PayloadFacts
<1>0. /\ VerbsTypeOK /\ EndsTypeOK /\ UNCHANGED <<runVars, clientVars, fileVars, pcM>>
      /\ swapped \in BOOLEAN /\ immP \in 0..1 /\ content \in Payload /\ pool \in Seq(Payload)
      /\ asked \subseteq Node /\ sent \in 0..Len(pool) /\ Len(pool) \in Nat
  BY DEF ProxyNext, TypeOK, HandlerTypeOK, EndsTypeOK
<1>1. ASSUME VerbsTypeOK', swapped' \in BOOLEAN, pcP' \in Places, immP' \in 0..1,
             content' \in Payload, pool' \in Seq(Payload), asked' \subseteq Node,
             sent' \in 0..Len(pool')
      PROVE  TypeOK'
  BY <1>0, <1>1 DEF TypeOK, HandlerTypeOK, EndsTypeOK, runVars, clientVars, fileVars
<1>2. CASE (ProxyPollA \/ ProxyMetaPoll) /\ UNCHANGED <<immP, content, pool, asked, sent>>
  BY <1>a, <1>0, <1>1, <1>2, PollForSendType DEF ProxyPollA, ProxyMetaPoll, Moves
<1>3. CASE /\ \/ ProxyBegin \/ ProxyPollB \/ ProxyMetaLoop
              \/ ProxyAwaitBegin("up1", "metaBegin", "metaAsk")
              \/ ProxyAsk("up1", "metaAsk", "metaSent")
              \/ ProxyAwaitBegin("up2", "fileBegin", "fileAsk")
              \/ ProxyAsk("up2", "fileAsk", "fileLoop")
              \/ ProxyEnd("return") \/ ProxyReturn \/ ProxyWait \/ ProxyWaitRead \/ ProxyClose
           /\ UNCHANGED <<immP, content, pool, asked, sent, swapped>>
  <2>0. ASSUME VerbsTypeOK', pcP' \in Places PROVE TypeOK'
    BY <1>0, <1>1, <1>3, <2>0
  <2>1. CASE ProxyBegin
    BY <1>a, <1>0, <2>0, <2>1, PostRecvType, SendType DEF ProxyBegin, Welcome, NoPoll, VerbsTypeOK,
       Moves
  <2>2. CASE ProxyPollB
    BY <1>a, <1>0, <2>0, <2>2, PollType DEF ProxyPollB, PollAny, Moves
  <2>3. CASE ProxyMetaLoop \/ ProxyWait
    BY <1>a, <1>0, <2>0, <2>3, PollType DEF ProxyMetaLoop, ProxyWait, AwaitRecv, PollAny, Moves
  <2>4. CASE \/ ProxyAwaitBegin("up1", "metaBegin", "metaAsk")
             \/ ProxyAwaitBegin("up2", "fileBegin", "fileAsk")
    BY <1>a, <1>0, <2>0, <2>4, PollType DEF ProxyAwaitBegin, PollAny, Moves
  <2>5. ASSUME NEW n \in Node, NEW here, NEW next \in Places, ProxyAsk(n, here, next)
        PROVE  TypeOK'
    <3>1. CASE PostRecv(n, "file_mr") /\ PostSend(n, "msg_mr", content) /\ Moves(pcP, here, next)
      <4>1. rq' \in [Node -> Seq(Region)]
        BY <1>a, <1>0, <2>5, <3>1, PostRecvType
      <4>2. mem' \in [Node -> [Part -> Payload]] /\ sq' \in [Node -> Seq(WorkRequest)]
        BY <1>a, <1>0, <2>5, <3>1, SendType
      <4>3. VerbsTypeOK'
        BY <1>0, <2>5, <4>1, <4>2 DEF ProxyAsk, NoPoll, VerbsTypeOK
      <4> QED BY <2>0, <2>5, <3>1, <4>3 DEF Moves
    <3>2. CASE NoRecv /\ NoSend /\ Moves(pcP, here, "fail")
      <4>1. VerbsTypeOK'
        BY <1>0, <2>5, <3>2 DEF ProxyAsk, NoRecv, NoSend, NoPoll, VerbsTypeOK
      <4> QED BY <2>0, <3>2, <4>1 DEF Moves
    <3> QED BY <2>5, <3>1, <3>2 DEF ProxyAsk
  <2>6. CASE ProxyEnd("return")
    BY <1>0, <2>0, <2>6 DEF ProxyEnd, NoRecv, NoSend, NoPoll, VerbsTypeOK, Moves
  <2>7. CASE ProxyReturn
    BY <1>a, <1>0, <2>0, <2>7, PostRecvType DEF ProxyReturn, NoSend, NoPoll, VerbsTypeOK, Moves
  <2>8. CASE ProxyWaitRead
    <3>1. rq' \in [Node -> Seq(Region)]
      BY <1>a, <1>0, <2>8, PostRecvType DEF ProxyWaitRead, NoRecv, VerbsTypeOK
    <3>2. VerbsTypeOK'
      BY <1>0, <2>8, <3>1 DEF ProxyWaitRead, NoSend, NoPoll, VerbsTypeOK
    <3> QED BY <2>0, <2>8, <3>2 DEF ProxyWaitRead, Moves
  <2>9. CASE ProxyClose
    <3>1. VerbsTypeOK'
      BY <1>a, <1>0, <2>9, CloseType DEF ProxyClose
    <3> QED BY <2>0, <2>9, <3>1 DEF ProxyClose, Moves
  <2> QED BY <1>a, <1>3, <2>1, <2>2, <2>3, <2>4, <2>5, <2>6, <2>7, <2>8, <2>9
<1>4. CASE /\ ProxyFetch({"up1", "up2"}, "meta", "metaBegin") \/ ProxyMetaGot
           /\ UNCHANGED <<immP, pool, sent, swapped>>
  <2>1. CASE ProxyFetch({"up1", "up2"}, "meta", "metaBegin")
    <3>1. content' \in Payload
      BY <1>a, <1>0, <2>1 DEF ProxyFetch, Part, VerbsTypeOK
    <3>2. rq' \in [Node -> Seq(Region)]
      BY <1>a, <1>0, <2>1, FetchType DEF ProxyFetch
    <3>3. VerbsTypeOK'
      BY <1>0, <2>1, <3>2 DEF ProxyFetch, NoSend, NoPoll, VerbsTypeOK
    <3> QED BY <1>a, <1>0, <1>1, <1>4, <2>1, <3>1, <3>3 DEF ProxyFetch, Moves
  <2>2. CASE ProxyMetaGot
    <3>1. content' \in Payload
      BY <1>a, <1>0, <2>2 DEF ProxyMetaGot, Part, VerbsTypeOK
    <3>2. VerbsTypeOK'
      BY <1>0, <2>2 DEF ProxyMetaGot, NoRecv, NoSend, NoPoll, VerbsTypeOK
    <3> QED BY <1>a, <1>0, <1>1, <1>4, <2>2, <3>1, <3>2 DEF ProxyMetaGot, Moves
  <2> QED BY <1>4, <2>1, <2>2
<1>5. CASE ProxyLoop("up2") /\ UNCHANGED <<content, pool, asked, sent, swapped>>
  <2>1. immP' \in 0..1
    <3>1. CASE PollRecv("up2") /\ immP' = Head(rcq["up2"]).imm
      <4>1. Head(rcq["up2"]) \in Completion
        BY <1>a, <1>0, <3>1, TailFacts, NodeTypes DEF PollRecv
      <4> QED BY <3>1, <4>1 DEF Completion
    <3> QED BY <1>0, <1>5, <3>1 DEF ProxyLoop
  <2>2. VerbsTypeOK'
    BY <1>a, <1>0, <1>5, PollType DEF ProxyLoop, PollAny
  <2> QED BY <1>0, <1>1, <1>5, <2>1, <2>2 DEF ProxyLoop, Moves
<1>6. CASE ProxyChunk("up2") /\ UNCHANGED <<immP, content, asked, sent, swapped>>
  <2>1. FileBlock("up2") \in Payload
    BY <1>a, <1>0, FileBlockType
  <2>2. pool' \in Seq(Payload) /\ Len(pool') = Len(pool) + 1
    BY <1>0, <1>6, <2>1, AppendFacts DEF ProxyChunk, ProxyKeeps
  <2>3. sent' \in 0..Len(pool')
    BY <1>0, <1>6, <2>2
  <2>4. VerbsTypeOK'
    BY <1>a, <1>0, <1>6, PostRecvType, SendType DEF ProxyChunk, ProxyKeeps, NoPoll, VerbsTypeOK
  <2> QED BY <1>0, <1>1, <1>6, <2>2, <2>3, <2>4 DEF ProxyChunk, ProxyKeeps, Moves
<1>7. CASE ProxyWrite /\ UNCHANGED <<immP, content, pool, asked, swapped>>
  <2>1. sent' \in 0..Len(pool') /\ sent' \in 1..Len(pool)
    BY <1>0, <1>7 DEF ProxyWrite, ProxyWrites, Moves
  <2>2. pool[sent'] \in Payload
    BY <1>0, <2>1
  <2>3. mem' \in [Node -> [Part -> Payload]] /\ sq' \in [Node -> Seq(WorkRequest)]
    <3>1. ASSUME NEW i \in 0..1, PostWrite("proxy", "file_mr", pool[sent'], i)
          PROVE  mem' \in [Node -> [Part -> Payload]] /\ sq' \in [Node -> Seq(WorkRequest)]
      BY <1>a, <1>0, <2>2, <3>1, WriteType
    <3> QED BY <1>7, <3>1 DEF ProxyWrite, ProxyWrites
  <2>4. VerbsTypeOK'
    BY <1>0, <1>7, <2>3 DEF ProxyWrite, ProxyWrites, NoRecv, NoPoll, VerbsTypeOK
  <2> QED BY <1>0, <1>1, <1>7, <2>1, <2>4 DEF ProxyWrite, ProxyWrites, Moves
<1> QED BY <1>2, <1>3, <1>4, <1>5, <1>6, <1>7 DEF ProxyNext

LEMMA TypeStep ==
  ASSUME TypeOK, pcP = "write" => sent < Len(pool), [Next]_vars
  PROVE  TypeOK'
<1>1. CASE ClientNext \/ ProxyNext \/ MetaNext \/ FileNextStep
  BY <1>1, ClientTypeStep, ProxyTypeStep, MetaTypeStep, FileTypeStep
<1>2. ASSUME NEW n \in Node, Nic(NicStep(n)) PROVE TypeOK'
  <2>1. VerbsTypeOK'
    BY <1>2, NicType DEF Nic, TypeOK, HandlerTypeOK, EndsTypeOK
  <2> QED BY <1>2, <2>1 DEF Nic, TypeOK, HandlerTypeOK, EndsTypeOK, runVars, clientVars, fileVars,
          proxyVars, handlerVars
<1>3. CASE UNCHANGED vars
  BY <1>3 DEF vars, endsVars, verbsVars, runVars, clientVars, fileVars, proxyVars, handlerVars,
     TypeOK, HandlerTypeOK, EndsTypeOK, VerbsTypeOK
<1> QED BY <1>1, <1>2, <1>3 DEF Next

-----------------------------------------------------------------------------
(* What can be on its way, and how a step keeps it. *)

LEMMA ExpectedAt ==
  /\ \A l : /\ Expected("client", l) <=> ForClient(l)
            /\ Expected("proxy", l)  <=> ForProxy(l)
            /\ Expected("up1", l)    <=> ForUp1(l)
            /\ Expected("meta", l)   <=> ForMeta(l)
            /\ Expected("up2", l)    <=> ForUp2(l)
            /\ Expected("file", l)   <=> ForFile(l)
  /\ \A l : /\ Expected("client", l)' <=> ForClient(l)'
            /\ Expected("proxy", l)'  <=> ForProxy(l)'
            /\ Expected("up1", l)'    <=> ForUp1(l)'
            /\ Expected("meta", l)'   <=> ForMeta(l)'
            /\ Expected("up2", l)'    <=> ForUp2(l)'
            /\ Expected("file", l)'   <=> ForFile(l)'
BY DEF Expected

LEMMA ExpectedLetters ==
  /\ \A n, l : Expected(n, l) => l \in Letters
  /\ \A n, l : Expected(n, l)' => l \in Letters'
BY DEF Expected, Letters, ForClient, ForProxy, ForUp1, ForMeta, ForUp2, ForFile

LEMMA LettersTyped ==
  ASSUME TypeOK, NEW n, NEW l, Expected(n, l)
  PROVE  l \in Message
<1>1. pos \in Nat /\ sent \in Nat /\ Len(dst) \in Nat
  BY Constants DEF TypeOK, HandlerTypeOK, EndsTypeOK
<1>2. Piece(pos) \in Payload
  BY <1>1, PieceTyped
<1>3. CASE l \in Letters \ {Written(Block(sent), 0), Written(Block(sent), 1)}
  BY <1>2, <1>3, LetterFacts DEF Letters
<1>4. CASE l \in {Written(Block(sent), 0), Written(Block(sent), 1)}
  <2>1. CASE sent = Len(dst) + 1
    <3>1. Block(sent) \in Payload
      BY <1>1, <2>1, PieceTyped
    <3> QED BY <1>4, <3>1, LetterFacts
  <2>2. CASE l = Written(Piece(pos), 1)
    BY <1>2, <2>2, LetterFacts
  <2> QED BY <1>4, <2>1, <2>2 DEF Expected, ForClient, ForProxy, ForUp1, ForMeta, ForUp2, ForFile,
             Sent, Written, EmptyWrite
<1> QED BY <1>3, <1>4, ExpectedLetters

LEMMA LettersApart ==
  /\ Sent("begin")   = [op |-> "SEND", data |-> Text("begin"), len |-> 1, imm |-> 0]
  /\ Sent("request") = [op |-> "SEND", data |-> Text("request"), len |-> 1, imm |-> 0]
  /\ Sent("next")    = [op |-> "SEND", data |-> Text("next"), len |-> 1, imm |-> 0]
  /\ Sent("err")     = [op |-> "SEND", data |-> Text("err"), len |-> 1, imm |-> 0]
  /\ EmptyWrite      = [op |-> "WRITE_IMM", data |-> Nothing, len |-> 0, imm |-> 0]
  /\ \A p, i : Written(p, i) = [op |-> "WRITE_IMM", data |-> p, len |-> 1, imm |-> i]
  /\ \A j, k : Text(j) = Text(k) => j = k
BY DEF Sent, EmptyWrite, Written, Text

LEMMA Silent ==
  ASSUME NEW n, MailOf(n), \A l : ~ Expected(n, l)
  PROVE  Idle(n)
BY DEF MailOf

LEMMA MailIdle ==
  ASSUME NEW n, AllPosted(n, RegionOf(n))', Idle(n)'
  PROVE  MailOf(n)'
BY DEF MailOf

LEMMA MailQueued ==
  ASSUME NEW n, NEW l, AllPosted(n, RegionOf(n))', Idle(Peer[n])', Receives(n)' = 1 \/ Unready(n)',
         Expected(n, l)', IsQueued(n, l)'
  PROVE  MailOf(n)'
<1>1. l \in Letters'
  BY ExpectedLetters
<1>2. InFlight(n, RegionOf(n), l)'
  BY DEF InFlight
<1> QED BY <1>1, <1>2 DEF MailOf

\* A step that touches neither n nor its peer.
LEMMA MailSame ==
  ASSUME NEW n \in Node, MailOf(n), Same(n), Same(Peer[n]), RegionOf(n)' = RegionOf(n),
         Unready(n) => Unready(n)', \A l : Expected(n, l) => Expected(n, l)'
  PROVE  MailOf(n)'
<1>1. PICK r : r = RegionOf(n)
  OBVIOUS
<1>2. RegionOf(n)' = r
  BY <1>1
<1>3. AllPosted(n, RegionOf(n))'
  <2>1. AllPosted(n, r)'
    BY <1>1, SameFacts DEF MailOf
  <2> QED BY <1>2, <2>1
<1>4. CASE Idle(n)
  BY <1>3, <1>4, SameFacts, MailIdle
<1>5. CASE ~ Idle(n)
  <2>1. PICK l : Expected(n, l) /\ InFlight(n, r, l)
    BY <1>1, <1>5 DEF MailOf
  <2>2. Expected(n, l)' /\ InFlight(n, r, l)' /\ l \in Letters'
    BY <2>1, SameFacts, ExpectedLetters
  <2>3. Idle(Peer[n])' /\ (Receives(n)' = 1 \/ Unready(n)')
    <3>1. Idle(Peer[n]) /\ (Receives(n) = 1 \/ Unready(n)) /\ Peer[Peer[n]] = n /\ Peer[n] \in Node
      BY <1>5, Constants DEF MailOf, Paired
    <3>2. Idle(Peer[n])'
      BY <3>1, SameFacts
    <3>3. Receives(n)' = Receives(n)
      BY SameFacts
    <3> QED BY <3>1, <3>2, <3>3
  <2> QED BY <1>2, <1>3, <2>2, <2>3 DEF MailOf
<1> QED BY <1>4, <1>5

\* A step that changes only places, receives posted and sends completed.
LEMMA MailKeeps ==
  ASSUME NEW n \in Node, MailOf(n), AllPosted(n, RegionOf(n))', RegionOf(n)' = RegionOf(n),
         UNCHANGED <<sq, mem, wire, rcq>>,
         Receives(n) = 1 \/ Unready(n) => Receives(n)' = 1 \/ Unready(n)',
         \A l : Expected(n, l) => Expected(n, l)'
  PROVE  MailOf(n)'
<1>1. PICK r : r = RegionOf(n)
  OBVIOUS
<1>2. RegionOf(n)' = r
  BY <1>1
<1>3. CASE Idle(n)
  BY <1>3, MailKept, MailIdle
<1>4. CASE ~ Idle(n)
  <2>1. PICK l : Expected(n, l) /\ InFlight(n, r, l)
    BY <1>1, <1>4 DEF MailOf
  <2>2. Expected(n, l)' /\ InFlight(n, r, l)' /\ l \in Letters'
    BY <2>1, MailKept, ExpectedLetters
  <2>3. Idle(Peer[n])' /\ (Receives(n)' = 1 \/ Unready(n)')
    BY <1>4, MailKept DEF MailOf
  <2> QED BY <1>2, <2>2, <2>3 DEF MailOf
<1> QED BY <1>3, <1>4

LEMMA MailNic ==
  ASSUME TypeOK, NEW n \in Node, MailOf(n), NEW k \in Node, Nic(NicStep(k))
  PROVE  MailOf(n)'
<1>1. /\ NicStep(k) /\ VerbsTypeOK /\ Paired /\ Peer[n] \in Node
      /\ UNCHANGED <<signals, pause, size, short, canOpen, pcC, immC, dst, doneC, pcF, pos, pcP,
                     immP,
                     content, pool, asked, sent, pcM, swapped>>
  BY Constants DEF Nic, runVars, clientVars, fileVars, proxyVars, handlerVars, TypeOK,
     HandlerTypeOK, EndsTypeOK, Paired
<1>2. PICK r : r = RegionOf(n)
  OBVIOUS
<1>3. RegionOf(n)' = r /\ (Unready(n) => Unready(n)')
  BY <1>1, <1>2 DEF RegionOf, Unready
<1>4. AllPosted(n, RegionOf(n))'
  BY <1>1, <1>2, <1>3, NicKeeps DEF MailOf
<1>5. CASE Idle(n)'
  BY <1>4, <1>5, MailIdle
<1>6. CASE ~ Idle(n)'
  <2>1. ~ Idle(n)
    BY <1>1, <1>6, NicKeeps
  <2>2. PICK l \in Letters : Expected(n, l) /\ InFlight(n, r, l)
    BY <1>2, <2>1 DEF MailOf
  <2>3. Idle(Peer[n]) /\ (Receives(n) = 1 \/ Unready(n)) /\ AllPosted(n, r)
    BY <1>2, <2>1 DEF MailOf
  <2>4. Idle(Peer[n])' /\ Receives(n)' = Receives(n)
    BY <1>1, <2>3, NicKeeps
  <2>5. InFlight(n, r, l)'
    <3>1. l \in Message /\ wire[Peer[n]] = <<>>
      BY <2>2, <2>3, LettersTyped DEF Idle
    <3> QED BY <1>1, <1>6, <2>2, <2>3, <3>1, NicInFlight
  <2>6. Expected(n, l)'
    BY <1>1, <2>2, PiecesKept DEF Expected, ForClient, ForProxy, ForUp1, ForMeta, ForUp2, ForFile
  <2>7. l \in Letters'
    BY <2>6, ExpectedLetters
  <2> QED BY <1>3, <1>4, <2>3, <2>4, <2>5, <2>6, <2>7 DEF MailOf
<1> QED BY <1>5, <1>6

\* The completion of a receive is that of a message that was expected, and there is
\* nothing after it.
LEMMA Takes ==
  ASSUME VerbsTypeOK, NEW n \in Node, MailOf(n), PollRecv(n), ~ Unready(n)
  PROVE  /\ Idle(n)' /\ Idle(Peer[n])' /\ Receives(n) = 1 /\ Receives(n)' = 0
         /\ \A s : AllPosted(n, s)'
         /\ UNCHANGED <<up, sq, scq, rq, mem, wire, lost>>
         /\ Sends(n)' = Sends(n)
         /\ \A k \in Node \ {n} : Same(k)
         /\ \E l : /\ Expected(n, l)
                   /\ Head(rcq[n]).op = (IF l.op = "SEND" THEN "RECV" ELSE "RECV_IMM")
                   /\ Head(rcq[n]).imm = l.imm
                   /\ l.len = 1 => mem[n][Filled(RegionOf(n), l)] = l.data
<1>1. rcq[n] # <<>> /\ UNCHANGED <<up, sq, scq, rq, mem, wire, lost>>
  BY DEF PollRecv
<1>2. PICK l : Expected(n, l) /\ InFlight(n, RegionOf(n), l)
  BY <1>1 DEF MailOf, Idle
<1>3. Idle(Peer[n]) /\ Receives(n) = 1
  BY <1>1 DEF MailOf, Idle
<1>4. IsReceived(n, RegionOf(n), l) /\ Idle(n)'
  <2>1. PICK r : r = RegionOf(n)
    OBVIOUS
  <2>2. IsReceived(n, r, l) /\ Idle(n)'
    BY <1>2, <2>1, PollRecvEffect
  <2> QED BY <2>1, <2>2
<1>5. /\ Receives(n)' = 0 /\ (\A s : AllPosted(n, s)') /\ Sends(n)' = Sends(n)
  BY <1>3, PollCounts
<1>6. Idle(Peer[n])'
  BY <1>3, PollCounts, Constants DEF Paired
<1>7. \A k \in Node \ {n} : Same(k)
  BY PollSame DEF PollAny
<1> QED BY <1>1, <1>2, <1>3, <1>4, <1>5, <1>6, <1>7 DEF IsReceived

-----------------------------------------------------------------------------
(* The three pairs: steps that leave one alone. *)

Upstream == {"fetch", "metaBegin", "metaAsk", "metaSent", "metaLoop", "metaGot", "fileBegin",
             "fileAsk", "fileLoop", "chunk", "return"}

LEMMA ClientPairSame ==
  ASSUME ClientPair, Same("client"), Same("proxy"),
         UNCHANGED <<pcC, immC, dst, doneC, pcP, sent, signals, size, short, pool>>
  PROVE  ClientPair'
<1>1. /\ Same("client") /\ Same(Peer["client"]) /\ Same("proxy") /\ Same(Peer["proxy"])
      /\ "client" \in Node /\ "proxy" \in Node
  BY Constants
<1>2. /\ Receives("client")' = Receives("client") /\ Receives("proxy")' = Receives("proxy")
      /\ Sends("proxy")' = Sends("proxy")
  BY <1>1, SameFacts
<1>3. MailOf("client")'
  <2>1. RegionOf("client")' = RegionOf("client") /\ (Unready("client") => Unready("client")')
    BY DEF RegionOf, Unready
  <2>2. \A l : Expected("client", l) => Expected("client", l)'
    BY ExpectedAt, PiecesKept DEF ForClient
  <2>3. MailOf("client")
    BY DEF ClientPair
  <2> QED BY <1>1, <2>1, <2>2, <2>3, MailSame
<1>4. MailOf("proxy")'
  <2>1. RegionOf("proxy")' = RegionOf("proxy") /\ (Unready("proxy") => Unready("proxy")')
    BY DEF RegionOf, Unready
  <2>2. \A l : Expected("proxy", l) => Expected("proxy", l)'
    BY ExpectedAt DEF ForProxy
  <2>3. MailOf("proxy")
    BY DEF ClientPair
  <2> QED BY <1>1, <2>1, <2>2, <2>3, MailSame
<1>5. ClientPosted'
  BY <1>2 DEF ClientPair, ClientPosted
<1>6. mem'["client"] = mem["client"] /\ mem'["proxy"] = mem["proxy"]
  BY DEF Same
<1>7. Asking'
  BY <1>2, <1>6 DEF ClientPair, Asking
<1>8. Returning'
  BY <1>6, PiecesKept DEF ClientPair, Returning
<1> QED BY <1>3, <1>4, <1>5, <1>7, <1>8 DEF ClientPair

\* While the proxy serves the request upstream, nothing is between it and the client.
LEMMA ClientPairFar ==
  ASSUME ClientPair, Same("client"), Same("proxy"),
         UNCHANGED <<pcC, immC, dst, doneC, sent, signals, size, short>>,
         pcP \in Upstream, pcP' \in Upstream \ {"fetch"},
         pcP' = "return" => Len(pool') = size, sent \in Nat, Len(dst) \in Nat
  PROVE  ClientPair'
<1>1. /\ Same("client") /\ Same(Peer["client"]) /\ Same("proxy") /\ Same(Peer["proxy"])
      /\ "client" \in Node /\ "proxy" \in Node
  BY Constants
<1>2. /\ Receives("client")' = Receives("client") /\ Receives("proxy")' = Receives("proxy")
      /\ Sends("proxy")' = Sends("proxy")
  BY <1>1, SameFacts
<1>3. /\ pcP # "begin" /\ pcP # "pollA" /\ pcP # "pollB" /\ pcP # "wait" /\ pcP # "waitRead"
      /\ pcP # "serve" /\ pcP # "write" /\ pcP # "closed" /\ pcP # "fail"
      /\ pcP' # "begin" /\ pcP' # "pollA" /\ pcP' # "pollB" /\ pcP' # "wait" /\ pcP' # "waitRead"
      /\ pcP' # "serve" /\ pcP' # "write" /\ pcP' # "closed" /\ pcP' # "fail" /\ pcP' # "fetch"
  BY DEF Upstream
<1>4. Idle("client") /\ Idle("proxy")
  <2>1. (\A l : ~ Expected("client", l)) /\ (\A l : ~ Expected("proxy", l))
    BY <1>3, ExpectedAt DEF ForClient, ForProxy
  <2> QED BY <2>1, Silent DEF ClientPair
<1>5. Idle("client")' /\ Idle("proxy")'
  BY <1>1, <1>4, SameFacts
<1>6. RegionOf("client")' = RegionOf("client") /\ RegionOf("proxy")' = RegionOf("proxy")
  BY <1>3 DEF RegionOf
<1>7. MailOf("client")'
  <2>1. PICK r : r = RegionOf("client")
    OBVIOUS
  <2>2. AllPosted("client", r)'
    BY <1>1, <2>1, SameFacts DEF ClientPair, MailOf
  <2> QED BY <1>5, <1>6, <2>1, <2>2, MailIdle
<1>8. MailOf("proxy")'
  <2>1. PICK r : r = RegionOf("proxy")
    OBVIOUS
  <2>2. AllPosted("proxy", r)'
    BY <1>1, <2>1, SameFacts DEF ClientPair, MailOf
  <2> QED BY <1>5, <1>6, <2>1, <2>2, MailIdle
<1>9. ClientPosted'
  BY <1>2, <1>3 DEF ClientPair, ClientPosted
<1>10. mem'["client"] = mem["client"] /\ mem'["proxy"] = mem["proxy"]
  BY DEF Same
<1>11. Asking'
  BY <1>2, <1>3, <1>10 DEF ClientPair, Asking
<1>12. Returning'
  <2>1. sent = 0
    BY <1>3 DEF ClientPair, Returning
  <2>2. pcC # "imm" /\ pcC # "close" /\ pcC # "closed"
    BY <1>3 DEF ClientPair, Returning
  <2> QED BY <1>3, <1>10, <2>1, <2>2 DEF ClientPair, Returning
<1> QED BY <1>7, <1>8, <1>9, <1>11, <1>12 DEF ClientPair

\* Moves of the proxy that do not concern the metadata server, and the file server.
AfterMeta == {"fileAsk", "fileLoop", "chunk", "return", "write", "wait", "waitRead", "serve", "closed"}

PastMeta ==
  \/ pcP' = pcP
  \/ pcP \in {"begin", "pollA", "pollB"} /\ pcP' \in {"pollA", "pollB", "fetch", "fail"}
  \/ pcP = "fail" /\ pcP' = "closed"
  \/ pcP = "fileBegin" /\ pcP' = "fileAsk"
  \/ pcP \in AfterMeta /\ pcP' \in AfterMeta \ {"fileAsk"}

Returns == {"return", "write", "wait", "waitRead", "serve"}

PastFile ==
  \/ pcP' = pcP
  \/ pcP \in {"begin", "pollA", "pollB"} /\ pcP' \in {"pollA", "pollB", "fetch", "fail"}
  \/ pcP = "fail" /\ pcP' = "closed"
  \/ /\ pcP  \in {"metaBegin", "metaAsk", "metaSent", "metaLoop", "metaGot"}
     /\ pcP' \in {"metaAsk", "metaSent", "metaLoop", "metaGot"}
  \/ pcP \in Returns /\ pcP' \in Returns \union {"closed"}

LEMMA MetaPairKept ==
  ASSUME MetaPair, Same("up1"), Same("meta"), UNCHANGED <<pcM, asked, content>>, PastMeta
  PROVE  MetaPair'
<1>1. /\ Same("up1") /\ Same(Peer["up1"]) /\ Same("meta") /\ Same(Peer["meta"])
      /\ "up1" \in Node /\ "meta" \in Node
  BY Constants
<1>2. Receives("up1")' = Receives("up1") /\ Receives("meta")' = Receives("meta")
  BY <1>1, SameFacts
<1>3. mem'["up1"] = mem["up1"] /\ mem'["meta"] = mem["meta"]
  BY DEF Same
<1>4. MailOf("up1")'
  <2>1. RegionOf("up1")' = RegionOf("up1") /\ (Unready("up1") => Unready("up1")')
    BY DEF RegionOf, Unready, PastMeta, AfterMeta
  <2>2. \A l : Expected("up1", l) => Expected("up1", l)'
    BY ExpectedAt DEF ForUp1, PastMeta, AfterMeta
  <2>3. MailOf("up1")
    BY DEF MetaPair
  <2> QED BY <1>1, <2>1, <2>2, <2>3, MailSame
<1>5. MailOf("meta")'
  <2>1. RegionOf("meta")' = RegionOf("meta") /\ (Unready("meta") => Unready("meta")')
    BY DEF RegionOf, Unready
  <2>2. \A l : Expected("meta", l) => Expected("meta", l)'
    BY ExpectedAt DEF ForMeta, PastMeta, AfterMeta
  <2>3. MailOf("meta")
    BY DEF MetaPair
  <2> QED BY <1>1, <2>1, <2>2, <2>3, MailSame
<1>6. MetaPosted'
  BY <1>2 DEF MetaPair, MetaPosted, PastMeta, AfterMeta
<1>7. Looking'
  BY <1>2, <1>3 DEF MetaPair, Looking, Starting, PastMeta, AfterMeta
<1> QED BY <1>4, <1>5, <1>6, <1>7 DEF MetaPair

LEMMA FilePairKept ==
  ASSUME FilePair, Same("up2"), Same("file"), PastFile,
         UNCHANGED <<pcF, pos, signals, size, short, canOpen, immP, pool, asked>>
  PROVE  FilePair'
<1>1. /\ Same("up2") /\ Same(Peer["up2"]) /\ Same("file") /\ Same(Peer["file"])
      /\ "up2" \in Node /\ "file" \in Node
  BY Constants
<1>2. /\ Receives("up2")' = Receives("up2") /\ Receives("file")' = Receives("file")
      /\ Sends("file")' = Sends("file")
  BY <1>1, SameFacts
<1>3. mem'["up2"] = mem["up2"] /\ mem'["file"] = mem["file"] /\ up'["file"] = up["file"]
  BY DEF Same
<1>4. MailOf("up2")'
  <2>1. RegionOf("up2")' = RegionOf("up2") /\ (Unready("up2") => Unready("up2")')
    BY DEF RegionOf, Unready, PastFile, Returns
  <2>2. \A l : Expected("up2", l) => Expected("up2", l)'
    BY ExpectedAt, PiecesKept DEF ForUp2, PastFile, Returns
  <2>3. MailOf("up2")
    BY DEF FilePair
  <2> QED BY <1>1, <2>1, <2>2, <2>3, MailSame
<1>5. MailOf("file")'
  <2>1. RegionOf("file")' = RegionOf("file") /\ (Unready("file") => Unready("file")')
    BY DEF RegionOf, Unready
  <2>2. \A l : Expected("file", l) => Expected("file", l)'
    BY ExpectedAt DEF ForFile, PastFile, Returns
  <2>3. MailOf("file")
    BY DEF FilePair
  <2> QED BY <1>1, <2>1, <2>2, <2>3, MailSame
<1>6. FilePosted'
  BY <1>2 DEF FilePair, FilePosted, PastFile, Returns
<1>7. Fetching'
  <2>1. CASE pcP' = pcP
    BY <1>2, <1>3, <2>1, PiecesKept DEF FilePair, Fetching, Starting
  <2>2. CASE \/ /\ pcP \in {"begin", "pollA", "pollB"}
                /\ pcP' \in {"pollA", "pollB", "fetch", "fail"}
             \/ pcP = "fail" /\ pcP' = "closed"
    BY <1>2, <1>3, <2>2, PiecesKept DEF FilePair, Fetching, Starting
  <2>3. CASE /\ pcP  \in {"metaBegin", "metaAsk", "metaSent", "metaLoop", "metaGot"}
             /\ pcP' \in {"metaAsk", "metaSent", "metaLoop", "metaGot"}
    BY <1>2, <1>3, <2>3, PiecesKept DEF FilePair, Fetching, Starting
  <2>4. CASE pcP \in Returns /\ pcP' \in Returns \union {"closed"}
    BY <1>2, <1>3, <2>4, PiecesKept DEF FilePair, Fetching, Starting, Returns
  <2> QED BY <2>1, <2>2, <2>3, <2>4 DEF PastFile
<1> QED BY <1>4, <1>5, <1>6, <1>7 DEF FilePair

LEMMA MailEmpty ==
  ASSUME NEW n, \A s : AllPosted(n, s)', Idle(n)'
  PROVE  MailOf(n)'
BY DEF MailOf, AllPosted

LEMMA MailIdleKept ==
  ASSUME NEW n, MailOf(n), rq'[n] = rq[n], RegionOf(n)' = RegionOf(n), Idle(n)'
  PROVE  MailOf(n)'
<1>1. AllPosted(n, RegionOf(n))'
  BY DEF MailOf, AllPosted
<1> QED BY <1>1, MailIdle

-----------------------------------------------------------------------------
(* The steps of the client. *)

LEMMA StepClientBegin ==
  ASSUME TypeOK, ClientPair, ClientBegin, UNCHANGED <<immC, dst, doneC, signals, size, short, pcP,
                                                      sent, pool>>
  PROVE  ClientPair' /\ \A k \in Node \ {"client"} : Same(k)
<1>1. /\ pcC = "begin" /\ pcC' = "ask" /\ PollRecv("client") /\ VerbsTypeOK
      /\ "client" \in Node /\ "proxy" \in Node \ {"client"} /\ Peer["client"] = "proxy"
      /\ MailOf("client") /\ MailOf("proxy") /\ ~ Unready("client")
  BY Constants DEF ClientBegin, Moves, TypeOK, HandlerTypeOK, EndsTypeOK, ClientPair, Unready
<1>2. /\ Idle("client")' /\ Idle("proxy")' /\ Receives("client")' = 0
      /\ (\A s : AllPosted("client", s)') /\ mem' = mem /\ sq' = sq /\ scq' = scq
      /\ \A k \in Node \ {"client"} : Same(k)
  BY <1>1, Takes
<1>3. PICK l : /\ Expected("client", l)
               /\ l.len = 1 => mem["client"][Filled(RegionOf("client"), l)] = l.data
  BY <1>1, Takes
<1>4. l = Sent("begin") /\ pcP \in {"pollA", "pollB"}
  BY <1>1, <1>3, ExpectedAt DEF ForClient
<1>5. mem["client"]["recv_mr"] = Text("begin")
  BY <1>1, <1>3, <1>4, LettersApart DEF Filled, RegionOf
<1>6. MailOf("client")'
  BY <1>2, MailEmpty
<1>7. /\ Receives("proxy")' = Receives("proxy") /\ Sends("proxy")' = Sends("proxy")
      /\ rq'["proxy"] = rq["proxy"]
  BY <1>1, <1>2 DEF Same, Receives, Sends
<1>8. MailOf("proxy")'
  <2>1. RegionOf("proxy")' = RegionOf("proxy")
    BY DEF RegionOf
  <2> QED BY <1>1, <1>2, <1>7, <2>1, MailIdleKept
<1>9. ClientPosted'
  BY <1>1, <1>2, <1>7 DEF ClientPair, ClientPosted
<1>10. Asking'
  BY <1>1, <1>2, <1>4, <1>5, <1>7 DEF ClientPair, Asking
<1>11. Returning'
  BY <1>1, <1>2, PiecesKept DEF ClientPair, Returning
<1> QED BY <1>2, <1>6, <1>8, <1>9, <1>10, <1>11 DEF ClientPair

\* BEGIN has arrived: the request is sent, to a proxy that has a receive for it.
LEMMA StepClientAsk ==
  ASSUME TypeOK, ClientPair, ClientAsk, UNCHANGED <<immC, dst, doneC, signals, size, short, pcP,
                                                    sent, pool>>
  PROVE  ClientPair' /\ \A k \in Node \ {"client"} : Same(k)
<1>1. /\ pcC = "ask" /\ VerbsTypeOK /\ Paired
      /\ "client" \in Node /\ "proxy" \in Node \ {"client"} /\ Peer["client"] = "proxy"
      /\ Peer["proxy"] = "client" /\ "msg_mr" \in Region /\ "file_mr" \in Region
      /\ MailOf("client") /\ MailOf("proxy")
  BY Constants DEF ClientAsk, Moves, TypeOK, HandlerTypeOK, EndsTypeOK, ClientPair
<1>2. /\ pcC' = "prepost" /\ PostSend("client", "msg_mr", Text("request")) /\ NoRecv /\ NoPoll
  BY <1>1 DEF ClientAsk, Moves, ClientPair, Asking
<1>3. Idle("client") /\ Idle("proxy")
  <2>1. (\A l : ~ Expected("client", l)) /\ (\A l : ~ Expected("proxy", l))
    BY <1>1, ExpectedAt DEF ForClient, ForProxy
  <2> QED BY <1>1, <2>1, Silent
<1>4. /\ IsQueued("proxy", Sent("request"))' /\ Idle("client")'
      /\ Sends("proxy")' = Sends("proxy")
      /\ \A x \in Region \ {"msg_mr"} : mem'["client"][x] = mem["client"][x]
  BY <1>1, <1>2, <1>3, SendAnswer
<1>5. \A k \in Node \ {"client"} : Same(k)
  BY <1>1, <1>2, SendSame
<1>6. /\ Receives("proxy")' = Receives("proxy") /\ Receives("client")' = Receives("client")
      /\ UNCHANGED rq
  BY <1>1, <1>2 DEF NoRecv, NoPoll, Receives
<1>7. pcP \in {"pollA", "pollB"} /\ Receives("proxy") = 1
  BY <1>1 DEF ClientPair, Asking, ClientPosted
<1>8. MailOf("client")'
  <2>1. Receives("client") = 0
    BY <1>1 DEF ClientPair, ClientPosted
  <2>2. \A s : AllPosted("client", s)'
    BY <1>1, <1>6, <2>1, NoReceives DEF AllPosted
  <2> QED BY <1>4, <2>2, MailEmpty
<1>9. MailOf("proxy")'
  <2>1. Expected("proxy", Sent("request"))'
    BY <1>2, <1>7, ExpectedAt DEF ForProxy
  <2>2. AllPosted("proxy", RegionOf("proxy"))'
    BY <1>1, <1>6 DEF MailOf, AllPosted, RegionOf
  <2>3. Idle(Peer["proxy"])' /\ Receives("proxy")' = 1
    BY <1>1, <1>4, <1>6, <1>7
  <2> QED BY <1>4, <2>1, <2>2, <2>3, MailQueued
<1>10. mem'["proxy"] = mem["proxy"]
  BY <1>1, <1>5 DEF Same
<1>11. ClientPosted'
  BY <1>1, <1>2, <1>6 DEF ClientPair, ClientPosted
<1>12. Asking'
  BY <1>1, <1>2, <1>4, <1>6, <1>10 DEF ClientPair, Asking
<1>13. Returning'
  BY <1>1, <1>2, <1>10, PiecesKept DEF ClientPair, Returning
<1> QED BY <1>5, <1>8, <1>9, <1>11, <1>12, <1>13 DEF ClientPair

LEMMA StepClientPrepost ==
  ASSUME TypeOK, ClientPair, ClientPrepost, UNCHANGED <<immC, dst, doneC, signals, size, short,
                                                        pcP, sent, pool>>
  PROVE  ClientPair' /\ \A k \in Node \ {"client"} : Same(k)
<1>1. /\ pcC = "prepost" /\ pcC' = "loop" /\ VerbsTypeOK
      /\ PostRecv("client", "file_mr") /\ UNCHANGED <<up, sq, scq, rcq, mem, wire, lost>>
      /\ "client" \in Node /\ "proxy" \in Node \ {"client"} /\ "file_mr" \in Region
      /\ MailOf("client") /\ MailOf("proxy")
  BY Constants DEF ClientPrepost, Moves, TypeOK, HandlerTypeOK, EndsTypeOK, ClientPair, NoSend,
     NoPoll
<1>2. \A k \in Node \ {"client"} : Same(k)
  BY <1>1, PostRecvEffect DEF Same
<1>3. /\ Receives("client") = 0 /\ RegionOf("client") = "file_mr" /\ RegionOf("client")' = "file_mr"
      /\ RegionOf("proxy")' = RegionOf("proxy")
  BY <1>1 DEF ClientPair, ClientPosted, RegionOf
<1>4. /\ Receives("client")' = 1 /\ Receives("proxy")' = Receives("proxy")
      /\ AllPosted("client", "file_mr")' /\ (\A s : AllPosted("proxy", s) => AllPosted("proxy", s)')
      /\ Sends("proxy")' = Sends("proxy")
  BY <1>1, <1>3, PostCounts, NoReceives DEF Sends
<1>5. MailOf("client")'
  <2>1. \A l : Expected("client", l) => Expected("client", l)'
    BY <1>1, ExpectedAt, PiecesKept DEF ForClient
  <2> QED BY <1>1, <1>3, <1>4, <2>1, MailKeeps
<1>6. MailOf("proxy")'
  <2>1. \A l : Expected("proxy", l) => Expected("proxy", l)'
    BY <1>1, ExpectedAt DEF ForProxy
  <2>2. AllPosted("proxy", RegionOf("proxy"))'
    <3>1. PICK r : r = RegionOf("proxy")
      OBVIOUS
    <3>2. AllPosted("proxy", r)'
      BY <1>1, <1>4, <3>1 DEF MailOf
    <3> QED BY <1>3, <3>1, <3>2
  <2>3. Unready("proxy") <=> Unready("proxy")'
    BY DEF Unready
  <2> QED BY <1>1, <1>3, <1>4, <2>1, <2>2, <2>3, MailKeeps
<1>7. ClientPosted'
  BY <1>1, <1>4 DEF ClientPair, ClientPosted
<1>8. Asking'
  BY <1>1, <1>4 DEF ClientPair, Asking
<1>9. Returning'
  BY <1>1, PiecesKept DEF ClientPair, Returning
<1> QED BY <1>2, <1>5, <1>6, <1>7, <1>8, <1>9 DEF ClientPair

\* The completion of a send changes only how many are left.
LEMMA ClientPairSendPolled ==
  ASSUME TypeOK, ClientPair, NEW n \in {"client", "proxy"}, PollSend(n),
         UNCHANGED <<pcC, immC, dst, doneC, pcP, signals, size, short, sent, pool>>,
         pcP \in {"begin", "pollA", "pollB"} => n = "client"
  PROVE  ClientPair' /\ \A k \in Node \ {n} : Same(k)
<1>1. /\ VerbsTypeOK /\ n \in Node /\ "client" \in Node /\ "proxy" \in Node
      /\ MailOf("client") /\ MailOf("proxy")
  BY Constants DEF TypeOK, HandlerTypeOK, EndsTypeOK, ClientPair
<1>2. /\ UNCHANGED <<up, sq, rq, rcq, mem, wire, lost>>
      /\ \A k \in Node \ {n} : Sends(k)' = Sends(k)
      /\ \A k \in Node : Receives(k)' = Receives(k)
  BY <1>1, PollSendCounts
<1>3. RegionOf("client")' = RegionOf("client") /\ RegionOf("proxy")' = RegionOf("proxy")
  BY DEF RegionOf
<1>4. MailOf("client")'
  <2>1. \A l : Expected("client", l) => Expected("client", l)'
    BY ExpectedAt, PiecesKept DEF ForClient
  <2>2. AllPosted("client", RegionOf("client"))' /\ (Unready("client") <=> Unready("client")')
    BY <1>1, <1>2, <1>3 DEF MailOf, AllPosted, Unready
  <2> QED BY <1>1, <1>2, <1>3, <2>1, <2>2, MailKeeps
<1>5. MailOf("proxy")'
  <2>1. \A l : Expected("proxy", l) => Expected("proxy", l)'
    BY ExpectedAt DEF ForProxy
  <2>2. AllPosted("proxy", RegionOf("proxy"))' /\ (Unready("proxy") <=> Unready("proxy")')
    BY <1>1, <1>2, <1>3 DEF MailOf, AllPosted, Unready
  <2> QED BY <1>1, <1>2, <1>3, <2>1, <2>2, MailKeeps
<1>6. ClientPosted'
  BY <1>1, <1>2 DEF ClientPair, ClientPosted
<1>7. Asking'
  BY <1>1, <1>2 DEF ClientPair, Asking
<1>8. Returning'
  BY <1>1, <1>2, PiecesKept DEF ClientPair, Returning
<1>9. \A k \in Node \ {n} : Same(k)
  BY <1>1, PollSame DEF PollAny
<1> QED BY <1>4, <1>5, <1>6, <1>7, <1>8, <1>9 DEF ClientPair

\* What a client that waits for a chunk receives is the last chunk written to it.
LEMMA StepClientPoll ==
  ASSUME TypeOK, ClientPair, ClientPoll, UNCHANGED <<dst, doneC, signals, size, short, pcP, sent,
                                                     pool>>
  PROVE  ClientPair' /\ \A k \in Node \ {"client"} : Same(k)
<1>1. CASE PollSend("client") /\ pcC' = pcC /\ immC' = immC
  BY <1>1, ClientPairSendPolled
<1>2. CASE /\ PollRecv("client") /\ immC' = Head(rcq["client"]).imm /\ pcC = "loop"
           /\ pcC' = IF Head(rcq["client"]).op = "RECV_IMM" THEN "imm" ELSE "loop"
  <2>1. /\ VerbsTypeOK
        /\ "client" \in Node /\ "proxy" \in Node \ {"client"} /\ Peer["client"] = "proxy"
        /\ MailOf("client") /\ MailOf("proxy") /\ ~ Unready("client")
    BY <1>2, Constants DEF TypeOK, HandlerTypeOK, EndsTypeOK, ClientPair, Unready
  <2>2. /\ Idle("client")' /\ Idle("proxy")' /\ Receives("client")' = 0
        /\ (\A s : AllPosted("client", s)') /\ mem' = mem /\ sq' = sq /\ scq' = scq
        /\ \A k \in Node \ {"client"} : Same(k)
    BY <1>2, <2>1, Takes
  <2>3. PICK l : /\ Expected("client", l)
                 /\ Head(rcq["client"]).op = (IF l.op = "SEND" THEN "RECV" ELSE "RECV_IMM")
                 /\ Head(rcq["client"]).imm = l.imm
                 /\ l.len = 1 => mem["client"][Filled(RegionOf("client"), l)] = l.data
    BY <1>2, <2>1, Takes
  <2>4. /\ l = Written(Block(sent), IF sent < size THEN 1 ELSE 0)
        /\ sent = Len(dst) + 1 /\ pcP = IF sent < size THEN "wait" ELSE "serve"
    BY <1>2, <2>3, ExpectedAt DEF ForClient
  <2>5. /\ l.op = "WRITE_IMM" /\ l.data = Block(sent) /\ l.len = 1
        /\ l.imm = IF sent < size THEN 1 ELSE 0
    BY <2>4, LettersApart
  <2>6. /\ pcC' = "imm" /\ immC' = IF sent < size THEN 1 ELSE 0
        /\ mem["client"]["file_mr"] = Block(sent)
    BY <1>2, <2>3, <2>5 DEF Filled
  <2>7. MailOf("client")'
    BY <2>2, MailEmpty
  <2>8. /\ Receives("proxy")' = Receives("proxy") /\ Sends("proxy")' = Sends("proxy")
        /\ rq'["proxy"] = rq["proxy"]
    BY <2>1, <2>2 DEF Same, Receives, Sends
  <2>9. MailOf("proxy")'
    <3>1. RegionOf("proxy")' = RegionOf("proxy")
      BY DEF RegionOf
    <3> QED BY <2>1, <2>2, <2>8, <3>1, MailIdleKept
  <2>10. ClientPosted'
    BY <2>2, <2>6, <2>8 DEF ClientPair, ClientPosted
  <2>11. Asking'
    BY <1>2, <2>2, <2>6, <2>8 DEF ClientPair, Asking
  <2>12. Returning'
    BY <1>2, <2>2, <2>4, <2>6, PiecesKept DEF ClientPair, Returning
  <2> QED BY <2>2, <2>7, <2>9, <2>10, <2>11, <2>12 DEF ClientPair
<1> QED BY <1>1, <1>2 DEF ClientPoll, Moves

LEMMA ChunkSaved ==
  ASSUME TypeOK, ClientPair, pcC = "imm", SaveChunk
  PROVE  /\ Len(dst') = sent /\ Len(dst') = Len(dst) + 1 /\ dst' = Append(dst, Block(sent))
         /\ \A i \in 1..Len(dst') : dst'[i] = Block(i)
<1>1. /\ mem["client"]["file_mr"] = Block(sent) /\ sent = Len(dst) + 1
      /\ \A i \in 1..Len(dst) : dst[i] = Block(i)
  BY DEF ClientPair, Returning
<1>2. VerbsTypeOK /\ "client" \in Node /\ dst \in Seq(Payload)
  BY Constants DEF TypeOK, HandlerTypeOK, EndsTypeOK
<1>3. dst' = Append(dst, Block(sent)) /\ Block(sent) \in Payload
  <2>1. FileBlock("client") = Block(sent)
    BY <1>1, <1>2, BlockReread
  <2> QED BY <1>2, <2>1, FileBlockType DEF SaveChunk
<1> QED BY <1>1, <1>2, <1>3, AppendFacts

\* A block is saved, and NEXT sent by a client that signals, before the receive for the
\* next chunk is posted.
LEMMA StepClientSave ==
  ASSUME TypeOK, ClientPair, ClientSave, UNCHANGED <<immC, signals, size, short, pcP, sent, pool>>
  PROVE  ClientPair' /\ \A k \in Node \ {"client"} : Same(k)
<1>1. /\ pcC = "imm" /\ immC # 0 /\ pcC' = "repost" /\ VerbsTypeOK /\ Paired
      /\ "client" \in Node /\ "proxy" \in Node \ {"client"} /\ Peer["client"] = "proxy"
      /\ Peer["proxy"] = "client" /\ "msg_mr" \in Region /\ "file_mr" \in Region
      /\ MailOf("client") /\ MailOf("proxy") /\ size \in Nat /\ sent \in Nat
      /\ NoRecv /\ NoPoll /\ SaveChunk /\ doneC' = doneC
  BY Constants DEF ClientSave, Moves, TypeOK, HandlerTypeOK, EndsTypeOK, ClientPair
<1>2. /\ sent < size /\ pcP = "wait" /\ sent = Len(dst) + 1 /\ ~ doneC
  BY <1>1 DEF ClientPair, Returning
<1>3. Idle("client") /\ Idle("proxy")
  <2>1. (\A l : ~ Expected("client", l)) /\ (\A l : ~ Expected("proxy", l))
    BY <1>1, ExpectedAt DEF ForClient, ForProxy
  <2> QED BY <1>1, <2>1, Silent
<1>4. Len(dst') = sent /\ \A i \in 1..Len(dst') : dst'[i] = Block(i)
  BY <1>1, ChunkSaved
<1>5. \A k \in Node \ {"client"} : Same(k)
  BY <1>1, SendSame DEF ClientSave
<1>6. /\ Receives("client") = 0 /\ Receives("proxy") = 1
      /\ AllPosted("client", "file_mr") /\ AllPosted("proxy", "recv_mr")
  BY <1>1, <1>2 DEF ClientPair, ClientPosted, MailOf, RegionOf
<1>7. /\ Receives("client")' = 0 /\ AllPosted("client", "file_mr")' /\ Receives("proxy")' = 1
      /\ AllPosted("proxy", "recv_mr")' /\ Sends("proxy")' = Sends("proxy")
      /\ rq'["proxy"] = rq["proxy"] /\ mem'["proxy"] = mem["proxy"]
  <2>1. Receives("client")' = 0 /\ AllPosted("client", "file_mr")'
    BY <1>1, <1>6 DEF NoRecv, NoPoll, Receives, AllPosted
  <2>2. rq'["proxy"] = rq["proxy"] /\ mem'["proxy"] = mem["proxy"] /\ Sends("proxy")' = Sends("proxy")
        /\ Receives("proxy")' = 1
    BY <1>1, <1>5, <1>6 DEF Same, Sends, Receives, NoRecv
  <2> QED BY <1>6, <2>1, <2>2 DEF AllPosted
<1>8. RegionOf("client")' = "file_mr" /\ RegionOf("proxy")' = "recv_mr"
  BY <1>1, <1>2 DEF RegionOf
<1>9. \/ Idle("client")' /\ Idle("proxy")'
      \/ Idle("client")' /\ IsQueued("proxy", Sent("next"))'
  <2>1. CASE PostSend("client", "msg_mr", Text("next"))
    BY <1>1, <1>3, <2>1, SendAnswer
  <2>2. CASE NoSend
    BY <1>1, <1>3, <2>2, MailKept DEF NoSend, NoPoll, Idle
  <2> QED BY <2>1, <2>2 DEF ClientSave
<1>10. MailOf("client")'
  <2>1. AllPosted("client", RegionOf("client"))'
    BY <1>7, <1>8
  <2> QED BY <1>9, <2>1, MailIdle
<1>11. MailOf("proxy")'
  <2>1. AllPosted("proxy", RegionOf("proxy"))'
    BY <1>7, <1>8
  <2>2. CASE Idle("proxy")'
    BY <2>1, <2>2, MailIdle
  <2>3. CASE IsQueued("proxy", Sent("next"))'
    <3>1. signals
      BY <1>3, <2>3, MailKept DEF ClientSave, NoSend, NoPoll, IsQueued, Idle
    <3>3. Expected("proxy", Sent("next"))'
      BY <1>1, <1>2, <1>4, <3>1, ExpectedAt DEF ForProxy
    <3>2. Idle(Peer["proxy"])' /\ Receives("proxy")' = 1
      BY <1>1, <1>7, <1>9
    <3> QED BY <2>1, <2>3, <3>2, <3>3, MailQueued
  <2> QED BY <1>9, <2>2, <2>3
<1>12. ClientPosted'
  BY <1>1, <1>2, <1>7 DEF ClientPosted
<1>13. Asking'
  BY <1>1, <1>2 DEF Asking
<1>14. Returning'
  BY <1>1, <1>2, <1>4, PiecesKept DEF ClientPair, Returning
<1> QED BY <1>5, <1>10, <1>11, <1>12, <1>13, <1>14 DEF ClientPair

\* The receive for the next chunk, which may already be on its way.
LEMMA StepClientRepost ==
  ASSUME TypeOK, ClientPair, ClientRepost, UNCHANGED <<immC, dst, doneC, signals, size, short, pcP,
                                                       sent, pool>>
  PROVE  ClientPair' /\ \A k \in Node \ {"client"} : Same(k)
<1>1. /\ pcC = "repost" /\ pcC' = "loop" /\ VerbsTypeOK
      /\ PostRecv("client", "file_mr") /\ UNCHANGED <<up, sq, scq, rcq, mem, wire, lost>>
      /\ "client" \in Node /\ "proxy" \in Node \ {"client"} /\ "file_mr" \in Region
      /\ MailOf("client") /\ MailOf("proxy")
  BY Constants DEF ClientRepost, Moves, TypeOK, HandlerTypeOK, EndsTypeOK, ClientPair, NoSend,
     NoPoll
<1>2. \A k \in Node \ {"client"} : Same(k)
  BY <1>1, PostRecvEffect DEF Same
<1>3. /\ Receives("client") = 0 /\ RegionOf("client") = "file_mr" /\ RegionOf("client")' = "file_mr"
      /\ RegionOf("proxy")' = RegionOf("proxy")
  BY <1>1 DEF ClientPair, ClientPosted, RegionOf
<1>4. /\ Receives("client")' = 1 /\ Receives("proxy")' = Receives("proxy")
      /\ AllPosted("client", "file_mr")' /\ (\A s : AllPosted("proxy", s) => AllPosted("proxy", s)')
      /\ Sends("proxy")' = Sends("proxy")
  BY <1>1, <1>3, PostCounts, NoReceives DEF Sends
<1>5. MailOf("client")'
  <2>1. \A l : Expected("client", l) => Expected("client", l)'
    BY <1>1, ExpectedAt, PiecesKept DEF ForClient
  <2> QED BY <1>1, <1>3, <1>4, <2>1, MailKeeps
<1>6. MailOf("proxy")'
  <2>1. \A l : Expected("proxy", l) => Expected("proxy", l)'
    BY <1>1, ExpectedAt DEF ForProxy
  <2>2. AllPosted("proxy", RegionOf("proxy"))'
    <3>1. PICK r : r = RegionOf("proxy")
      OBVIOUS
    <3>2. AllPosted("proxy", r)'
      BY <1>1, <1>4, <3>1 DEF MailOf
    <3> QED BY <1>3, <3>1, <3>2
  <2>3. Unready("proxy") <=> Unready("proxy")'
    BY DEF Unready
  <2> QED BY <1>1, <1>3, <1>4, <2>1, <2>2, <2>3, MailKeeps
<1>7. ClientPosted'
  BY <1>1, <1>4 DEF ClientPair, ClientPosted
<1>8. Asking'
  BY <1>1, <1>4 DEF ClientPair, Asking
<1>9. Returning'
  BY <1>1, PiecesKept DEF ClientPair, Returning
<1> QED BY <1>2, <1>5, <1>6, <1>7, <1>8, <1>9 DEF ClientPair

LEMMA StepClientSaveLast ==
  ASSUME TypeOK, ClientPair, ClientSaveLast, UNCHANGED <<immC, signals, size, short, pcP, sent,
                                                         pool>>
  PROVE  ClientPair' /\ \A k \in Node \ {"client"} : Same(k)
<1>1. /\ pcC = "imm" /\ immC = 0 /\ pcC' = "close" /\ doneC' = TRUE /\ SaveChunk
      /\ UNCHANGED <<sq, mem, rq, up, scq, rcq, wire, lost>>
      /\ "client" \in Node /\ "proxy" \in Node
      /\ MailOf("client") /\ MailOf("proxy") /\ size \in Nat /\ sent \in Nat
  BY Constants DEF ClientSaveLast, Moves, TypeOK, HandlerTypeOK, EndsTypeOK, ClientPair, NoPoll,
     NoSend, NoRecv
<1>2. sent = size /\ pcP = "serve" /\ sent = Len(dst) + 1
  BY <1>1 DEF ClientPair, Returning
<1>3. Idle("client") /\ Idle("proxy")
  <2>1. (\A l : ~ Expected("client", l)) /\ (\A l : ~ Expected("proxy", l))
    BY <1>1, ExpectedAt DEF ForClient, ForProxy
  <2> QED BY <1>1, <2>1, Silent
<1>4. Len(dst') = sent /\ \A i \in 1..Len(dst') : dst'[i] = Block(i)
  BY <1>1, ChunkSaved
<1>5. \A k \in Node : Same(k)
  BY <1>1 DEF Same
<1>6. Idle("client")' /\ Idle("proxy")'
  BY <1>1, <1>3, MailKept
<1>7. Receives("client")' = Receives("client") /\ Receives("proxy")' = Receives("proxy")
  BY <1>1 DEF Receives
<1>8. MailOf("client")' /\ MailOf("proxy")'
  <2>1. RegionOf("client")' = RegionOf("client") /\ RegionOf("proxy")' = RegionOf("proxy")
    BY <1>1 DEF RegionOf
  <2> QED BY <1>1, <1>6, <2>1, MailIdleKept
<1>9. ClientPosted'
  BY <1>1, <1>7 DEF ClientPair, ClientPosted
<1>10. Asking'
  BY <1>1, <1>2 DEF Asking
<1>11. Returning'
  BY <1>1, <1>2, <1>4, PiecesKept DEF ClientPair, Returning
<1> QED BY <1>5, <1>8, <1>9, <1>10, <1>11 DEF ClientPair

LEMMA StepClientClose ==
  ASSUME TypeOK, ClientPair, ClientClose, UNCHANGED <<immC, dst, doneC, signals, size, short, pcP,
                                                      sent, pool>>
  PROVE  ClientPair' /\ \A k \in Node \ {"client"} : Same(k)
<1>1. /\ pcC = "close" /\ pcC' = "closed" /\ CloseNode("client") /\ VerbsTypeOK /\ Paired
      /\ "client" \in Node /\ "proxy" \in Node \ {"client"}
      /\ MailOf("client") /\ MailOf("proxy")
  BY Constants DEF ClientClose, Moves, TypeOK, HandlerTypeOK, EndsTypeOK, ClientPair
<1>2. Idle("client") /\ Idle("proxy")
  <2>1. (\A l : ~ Expected("client", l)) /\ (\A l : ~ Expected("proxy", l))
    BY <1>1, ExpectedAt DEF ForClient, ForProxy
  <2> QED BY <1>1, <2>1, Silent
<1>3. /\ Idle("client")' /\ Idle("proxy")' /\ Receives("client")' = 0
      /\ (\A s : AllPosted("client", s)') /\ mem' = mem
  BY <1>1, <1>2, CloseEffect
<1>4. \A k \in Node \ {"client"} : Same(k)
  BY <1>1, CloseEffect DEF Same
<1>5. /\ Receives("proxy")' = Receives("proxy") /\ rq'["proxy"] = rq["proxy"]
      /\ Sends("proxy")' = Sends("proxy")
  BY <1>1, <1>4 DEF Same, Receives, Sends
<1>6. MailOf("client")'
  BY <1>3, MailEmpty
<1>7. MailOf("proxy")'
  <2>1. RegionOf("proxy")' = RegionOf("proxy")
    BY DEF RegionOf
  <2> QED BY <1>1, <1>3, <1>5, <2>1, MailIdleKept
<1>8. ClientPosted'
  BY <1>1, <1>3, <1>5 DEF ClientPair, ClientPosted
<1>9. Asking'
  BY <1>1, <1>3, <1>5 DEF ClientPair, Asking
<1>10. Returning'
  BY <1>1, <1>3, PiecesKept DEF ClientPair, Returning
<1> QED BY <1>4, <1>6, <1>7, <1>8, <1>9, <1>10 DEF ClientPair

LEMMA ClientKeeps ==
  ASSUME IInv, ClientNext
  PROVE  ClientPair' /\ MetaPair' /\ FilePair'
<1>1. /\ UNCHANGED <<runVars, fileVars, proxyVars, pcM, swapped>> /\ ClientStep
      /\ TypeOK /\ ClientPair /\ MetaPair /\ FilePair
      /\ UNCHANGED <<signals, size, short, canOpen, pcF, pos, pcP, immP, content, pool, asked,
                     sent, pcM>>
  BY DEF ClientNext, IInv, runVars, fileVars, proxyVars, handlerVars
<1>2. ClientPair' /\ \A k \in Node \ {"client"} : Same(k)
  BY <1>1, StepClientBegin, StepClientAsk, StepClientPrepost, StepClientPoll, StepClientSave,
     StepClientRepost, StepClientSaveLast, StepClientClose DEF ClientStep
<1>3. Same("up1") /\ Same("meta") /\ Same("up2") /\ Same("file")
  BY <1>2, Constants
<1>4. MetaPair'
  BY <1>1, <1>3, MetaPairKept DEF PastMeta
<1>5. FilePair'
  BY <1>1, <1>3, FilePairKept DEF PastFile
<1> QED BY <1>2, <1>4, <1>5

-----------------------------------------------------------------------------
(* The steps of the metadata server, and the proxy's calls on its end point. *)

LEMMA MetaPairFacts ==
  ASSUME TypeOK, MetaPair
  PROVE  /\ VerbsTypeOK /\ Paired /\ "up1" \in Node \ {"meta"} /\ "meta" \in Node \ {"up1"}
         /\ Peer["up1"] = "meta" /\ Peer["meta"] = "up1"
         /\ "msg_mr" \in Region /\ "file_mr" \in Region /\ "recv_mr" \in Region
         /\ MailOf("up1") /\ MailOf("meta") /\ ~ Unready("up1") /\ ~ Unready("meta")
         /\ ~ Unready("up1")' /\ ~ Unready("meta")'
         /\ RegionOf("up1") = (IF pcP = "metaBegin" THEN "recv_mr" ELSE "file_mr")
         /\ RegionOf("up1")' = (IF pcP' = "metaBegin" THEN "recv_mr" ELSE "file_mr")
         /\ RegionOf("meta") = "file_mr" /\ RegionOf("meta")' = "file_mr"
BY Constants DEF TypeOK, HandlerTypeOK, EndsTypeOK, MetaPair, Unready, RegionOf

\* The completion of a send at either end.
LEMMA MetaPairSendPolled ==
  ASSUME TypeOK, MetaPair, NEW n \in {"up1", "meta"}, PollSend(n), UNCHANGED <<asked, content>>,
         \/ n = "up1" /\ pcM' = pcM /\ pcP \in {"metaSent", "metaLoop"} /\ pcP' = "metaLoop"
         \/ n = "meta" /\ pcP' = pcP /\ pcM \in {"pollA", "loop"} /\ pcM' = "loop"
  PROVE  MetaPair' /\ \A k \in Node \ {n} : Same(k)
<1>1. /\ VerbsTypeOK /\ n \in Node /\ "up1" \in Node /\ "meta" \in Node
      /\ MailOf("up1") /\ MailOf("meta")
      /\ RegionOf("up1")' = RegionOf("up1") /\ RegionOf("meta")' = RegionOf("meta")
  BY MetaPairFacts
<1>2. /\ UNCHANGED <<up, sq, rq, rcq, mem, wire, lost>>
      /\ \A k \in Node : Receives(k)' = Receives(k)
  BY <1>1, PollSendCounts
<1>3. MailOf("up1")'
  <2>1. \A l : Expected("up1", l) => Expected("up1", l)'
    BY ExpectedAt DEF ForUp1
  <2>2. AllPosted("up1", RegionOf("up1"))' /\ (Unready("up1") <=> Unready("up1")')
    BY <1>1, <1>2 DEF MailOf, AllPosted, Unready
  <2> QED BY <1>1, <1>2, <2>1, <2>2, MailKeeps
<1>4. MailOf("meta")'
  <2>1. \A l : Expected("meta", l) => Expected("meta", l)'
    BY ExpectedAt DEF ForMeta
  <2>2. AllPosted("meta", RegionOf("meta"))' /\ (Unready("meta") <=> Unready("meta")')
    BY <1>1, <1>2 DEF MailOf, AllPosted, Unready
  <2> QED BY <1>1, <1>2, <2>1, <2>2, MailKeeps
<1>5. MetaPosted'
  BY <1>1, <1>2 DEF MetaPair, MetaPosted
<1>6. Looking'
  BY <1>1, <1>2 DEF MetaPair, Looking, Starting, MetaPosted
<1>7. \A k \in Node \ {n} : Same(k)
  BY <1>1, PollSame DEF PollAny
<1> QED BY <1>3, <1>4, <1>5, <1>6, <1>7 DEF MetaPair

LEMMA StepMetaBegin ==
  ASSUME TypeOK, MetaPair, MetaBegin, UNCHANGED <<pcP, asked, content>>
  PROVE  MetaPair' /\ \A k \in Node \ {"meta"} : Same(k)
<1>1. /\ pcM = "idle" /\ pcM' = "pollA" /\ "meta" \in asked /\ Welcome("meta")
  BY DEF MetaBegin, Moves
<1>2. pcP = "metaBegin" /\ Receives("meta") = 0 /\ Receives("up1") = 1
  BY <1>1 DEF MetaPair, Looking, MetaPosted
<1>3. Idle("up1") /\ Idle("meta")
  <2>1. (\A l : ~ Expected("up1", l)) /\ (\A l : ~ Expected("meta", l))
    BY <1>1, <1>2, ExpectedAt DEF ForUp1, ForMeta
  <2> QED BY <2>1, Silent, MetaPairFacts
<1>4. /\ IsQueued("up1", Sent("begin"))' /\ Idle("meta")'
      /\ Receives("meta")' = 1 /\ AllPosted("meta", "file_mr")'
      /\ \A k \in Node \ {"meta"} : Same(k)
  BY <1>1, <1>2, <1>3, MetaPairFacts, WelcomeEffect
<1>5. Receives("up1")' = 1 /\ rq'["up1"] = rq["up1"] /\ mem'["up1"] = mem["up1"]
  BY <1>2, <1>4, MetaPairFacts DEF Same, Receives
<1>6. MailOf("meta")'
  BY <1>4, MetaPairFacts, MailIdle
<1>7. MailOf("up1")'
  <2>1. Expected("up1", Sent("begin"))'
    BY <1>1, <1>2, ExpectedAt DEF ForUp1
  <2>2. AllPosted("up1", RegionOf("up1"))'
    BY <1>5, MetaPairFacts DEF MailOf, AllPosted
  <2>3. Idle(Peer["up1"])'
    BY <1>4, MetaPairFacts
  <2> QED BY <1>4, <1>5, <2>1, <2>2, <2>3, MailQueued
<1>8. MetaPosted'
  BY <1>1, <1>2, <1>4, <1>5 DEF MetaPosted
<1>9. Looking'
  BY <1>1, <1>2, <1>4, <1>5 DEF MetaPair, Looking, Starting
<1> QED BY <1>4, <1>6, <1>7, <1>8, <1>9 DEF MetaPair

\* The receive that either of the server's polls returns is the request.
LEMMA StepMetaPollRecv ==
  ASSUME TypeOK, MetaPair, PollRecv("meta"), UNCHANGED <<pcP, asked, content>>,
         pcM \in {"pollA", "loop"}, pcM' = (IF pcM = "pollA" THEN "loop" ELSE "got")
  PROVE  MetaPair' /\ \A k \in Node \ {"meta"} : Same(k)
<1>1. /\ Idle("meta")' /\ Idle("up1")' /\ Receives("meta")' = 0 /\ mem' = mem
      /\ (\A s : AllPosted("meta", s)')
      /\ \A k \in Node \ {"meta"} : Same(k)
  BY MetaPairFacts, Takes
<1>2. PICK l : /\ Expected("meta", l)
               /\ l.len = 1 => mem["meta"][Filled(RegionOf("meta"), l)] = l.data
  BY MetaPairFacts, Takes
<1>3. l = Sent("request") /\ pcP \in {"metaSent", "metaLoop"}
  BY <1>2, ExpectedAt DEF ForMeta
<1>4. mem["meta"]["file_mr"] = Text("request")
  BY <1>2, <1>3, LettersApart, MetaPairFacts DEF Filled
<1>5. Receives("up1")' = Receives("up1") /\ rq'["up1"] = rq["up1"]
  BY <1>1, MetaPairFacts DEF Same, Receives
<1>6. MailOf("meta")'
  BY <1>1, MailEmpty
<1>7. MailOf("up1")'
  <2>1. RegionOf("up1")' = RegionOf("up1")
    BY MetaPairFacts
  <2> QED BY <1>1, <1>5, <2>1, MetaPairFacts, MailIdleKept
<1>8. MetaPosted'
  BY <1>1, <1>5 DEF MetaPair, MetaPosted
<1>9. Looking'
  BY <1>1, <1>3, <1>4, <1>5 DEF MetaPair, Looking, Starting
<1> QED BY <1>1, <1>6, <1>7, <1>8, <1>9 DEF MetaPair

LEMMA StepMetaReply ==
  ASSUME TypeOK, MetaPair, MetaReply, UNCHANGED <<pcP, asked, content>>
  PROVE  MetaPair' /\ \A k \in Node \ {"meta"} : Same(k)
<1>1. /\ pcM = "got" /\ pcM' = "done" /\ NoRecv /\ NoPoll
      /\ PostSend("meta", "msg_mr", mem["meta"]["file_mr"])
  BY DEF MetaReply, Moves
<1>2. pcP \in {"metaSent", "metaLoop"} /\ mem["meta"]["file_mr"] = Text("request")
  BY <1>1 DEF MetaPair, Looking
<1>3. Receives("up1") = 1 /\ Receives("meta") = 0
  BY <1>1, <1>2 DEF MetaPair, Looking, MetaPosted
<1>4. Idle("up1") /\ Idle("meta")
  <2>1. (\A l : ~ Expected("up1", l)) /\ (\A l : ~ Expected("meta", l))
    BY <1>1, <1>2, ExpectedAt DEF ForUp1, ForMeta
  <2> QED BY <2>1, Silent, MetaPairFacts
<1>5. IsQueued("up1", Sent("request"))' /\ Idle("meta")'
  BY <1>1, <1>2, <1>4, MetaPairFacts, SendAnswer
<1>6. \A k \in Node \ {"meta"} : Same(k)
  BY <1>1, MetaPairFacts, SendSame
<1>7. /\ Receives("up1")' = 1 /\ rq'["up1"] = rq["up1"] /\ Receives("meta")' = 0
      /\ rq'["meta"] = rq["meta"]
  BY <1>1, <1>3 DEF NoRecv, NoPoll, Receives
<1>8. MailOf("meta")'
  BY <1>5, <1>7, MetaPairFacts, MailIdleKept
<1>9. MailOf("up1")'
  <2>1. Expected("up1", Sent("request"))'
    BY <1>1, <1>2, ExpectedAt DEF ForUp1
  <2>2. AllPosted("up1", RegionOf("up1"))'
    BY <1>7, MetaPairFacts DEF MailOf, AllPosted
  <2>3. Idle(Peer["up1"])'
    BY <1>5, MetaPairFacts
  <2> QED BY <1>5, <1>7, <2>1, <2>2, <2>3, MailQueued
<1>10. MetaPosted'
  BY <1>1, <1>2, <1>7 DEF MetaPair, MetaPosted
<1>11. Looking'
  BY <1>1, <1>2, <1>7 DEF MetaPair, Looking, Starting
<1> QED BY <1>6, <1>8, <1>9, <1>10, <1>11 DEF MetaPair

LEMMA MetaKeeps ==
  ASSUME IInv, MetaNext
  PROVE  ClientPair' /\ MetaPair' /\ FilePair'
<1>1. /\ TypeOK /\ ClientPair /\ MetaPair /\ FilePair
      /\ UNCHANGED <<signals, size, short, canOpen, pcC, immC, dst, doneC, pcF, pos, pcP, immP,
                     content, pool,
                     asked, sent>>
  BY DEF MetaNext, IInv, runVars, clientVars, fileVars, proxyVars, handlerVars
<1>2. MetaPair' /\ \A k \in Node \ {"meta"} : Same(k)
  <2>1. CASE MetaPollA
    BY <1>1, <2>1, MetaPairSendPolled, StepMetaPollRecv DEF MetaPollA, Moves, PollForSend
  <2>2. CASE MetaBegin
    BY <1>1, <2>2, StepMetaBegin
  <2>3. CASE MetaLoop
    BY <1>1, <2>3, MetaPairSendPolled, StepMetaPollRecv DEF MetaLoop, AwaitRecv, Moves
  <2>4. CASE MetaReply
    BY <1>1, <2>4, StepMetaReply
  <2> QED BY <2>1, <2>2, <2>3, <2>4 DEF MetaNext
<1>3. Same("client") /\ Same("proxy") /\ Same("up2") /\ Same("file")
  BY <1>2, Constants
<1>4. ClientPair'
  BY <1>1, <1>3, ClientPairSame
<1>5. FilePair'
  BY <1>1, <1>3, FilePairKept DEF PastFile
<1> QED BY <1>2, <1>4, <1>5

\* What the proxy receives from the metadata server: BEGIN, and then its answer, which
\* the poll for the completion of the request can already return.
LEMMA StepUp1Recv ==
  ASSUME TypeOK, MetaPair, PollRecv("up1"), UNCHANGED <<pcM, asked, content>>,
         \/ pcP = "metaBegin" /\ pcP' = "metaAsk"
         \/ pcP = "metaSent" /\ pcP' = "metaLoop"
         \/ pcP = "metaLoop" /\ pcP' = "metaGot"
  PROVE  MetaPair' /\ \A k \in Node \ {"up1"} : Same(k)
<1>1. /\ Idle("up1")' /\ Idle("meta")' /\ Receives("up1")' = 0 /\ mem' = mem
      /\ (\A s : AllPosted("up1", s)')
      /\ \A k \in Node \ {"up1"} : Same(k)
  BY MetaPairFacts, Takes
<1>2. PICK l : /\ Expected("up1", l)
               /\ l.len = 1 => mem["up1"][Filled(RegionOf("up1"), l)] = l.data
  BY MetaPairFacts, Takes
<1>3. \/ /\ l = Sent("begin") /\ pcP = "metaBegin" /\ pcM \in {"pollA", "loop"}
      \/ /\ l = Sent("request") /\ pcP \in {"metaSent", "metaLoop"} /\ pcM = "done"
  BY <1>2, ExpectedAt DEF ForUp1
<1>4. /\ pcP = "metaBegin" => mem["up1"]["recv_mr"] = Text("begin")
      /\ pcP # "metaBegin" => mem["up1"]["file_mr"] = Text("request")
  BY <1>2, <1>3, LettersApart, MetaPairFacts DEF Filled
<1>5. /\ Receives("meta")' = Receives("meta") /\ rq'["meta"] = rq["meta"]
  BY <1>1, MetaPairFacts DEF Same, Receives
<1>6. MailOf("up1")'
  BY <1>1, MailEmpty
<1>7. MailOf("meta")'
  <2>1. RegionOf("meta")' = RegionOf("meta")
    BY MetaPairFacts
  <2> QED BY <1>1, <1>5, <2>1, MetaPairFacts, MailIdleKept
<1>8. MetaPosted'
  BY <1>1, <1>5 DEF MetaPair, MetaPosted
<1>9. Looking'
  <2>1. CASE pcP = "metaBegin" /\ pcP' = "metaAsk"
    BY <1>1, <1>3, <1>4, <1>5, <2>1 DEF MetaPair, Looking, Starting
  <2>2. CASE pcP = "metaSent" /\ pcP' = "metaLoop"
    BY <1>1, <1>3, <1>4, <1>5, <2>2 DEF MetaPair, Looking, Starting
  <2>3. CASE pcP = "metaLoop" /\ pcP' = "metaGot"
    BY <1>1, <1>3, <1>4, <1>5, <2>3 DEF MetaPair, Looking, Starting
  <2> QED BY <2>1, <2>2, <2>3
<1> QED BY <1>1, <1>6, <1>7, <1>8, <1>9 DEF MetaPair

LEMMA StepMetaAsk ==
  ASSUME TypeOK, MetaPair, ProxyAsk("up1", "metaAsk", "metaSent"), UNCHANGED <<pcM, asked, content>>
  PROVE  MetaPair' /\ pcP' = "metaSent" /\ \A k \in Node \ {"up1"} : Same(k)
<1>1. pcP = "metaAsk"
  BY DEF ProxyAsk, Moves
<1>2. /\ pcP' = "metaSent" /\ PostRecv("up1", "file_mr") /\ NoPoll
      /\ PostSend("up1", "msg_mr", Text("request"))
  BY <1>1 DEF ProxyAsk, Moves, MetaPair, Looking
<1>3. /\ pcM \in {"pollA", "loop"} /\ Receives("meta") = 1 /\ Receives("up1") = 0
  BY <1>1 DEF MetaPair, Looking, MetaPosted
<1>4. Idle("up1") /\ Idle("meta")
  <2>1. (\A l : ~ Expected("up1", l)) /\ (\A l : ~ Expected("meta", l))
    BY <1>1, ExpectedAt DEF ForUp1, ForMeta
  <2> QED BY <2>1, Silent, MetaPairFacts
<1>5. IsQueued("meta", Sent("request"))' /\ Idle("up1")'
  BY <1>2, <1>4, MetaPairFacts, SendAnswer
<1>6. \A k \in Node \ {"up1"} : Same(k)
  BY <1>2, MetaPairFacts, SendSame
<1>7. Receives("up1")' = 1 /\ AllPosted("up1", "file_mr")'
  <2>1. rcq' = rcq /\ AllPosted("up1", "file_mr")
    BY <1>2, <1>3, MetaPairFacts, NoReceives DEF NoPoll
  <2> QED BY <1>2, <1>3, <2>1, MetaPairFacts, PostCounts
<1>8. Receives("meta")' = 1 /\ rq'["meta"] = rq["meta"] /\ mem'["meta"] = mem["meta"]
  BY <1>3, <1>6, MetaPairFacts DEF Same, Receives
<1>9. MailOf("up1")'
  BY <1>2, <1>5, <1>7, MetaPairFacts, MailIdle
<1>10. MailOf("meta")'
  <2>1. Expected("meta", Sent("request"))'
    BY <1>2, <1>3, ExpectedAt DEF ForMeta
  <2>2. AllPosted("meta", RegionOf("meta"))'
    BY <1>8, MetaPairFacts DEF MailOf, AllPosted
  <2>3. Idle(Peer["meta"])'
    BY <1>5, MetaPairFacts
  <2> QED BY <1>5, <1>8, <2>1, <2>2, <2>3, MailQueued
<1>11. MetaPosted'
  BY <1>2, <1>3, <1>7, <1>8 DEF MetaPosted
<1>12. Looking'
  <2>1. asked # {} /\ "file" \notin asked
    BY <1>1, <1>3 DEF MetaPair, Looking
  <2> QED BY <1>2, <1>3, <1>7, <1>8, <2>1 DEF Looking, Starting
<1> QED BY <1>2, <1>6, <1>9, <1>10, <1>11, <1>12 DEF MetaPair

-----------------------------------------------------------------------------
(* The steps of the proxy on its end point to the client. *)

LEMMA ClientPairFacts ==
  ASSUME TypeOK, ClientPair
  PROVE  /\ VerbsTypeOK /\ Paired
         /\ "client" \in Node \ {"proxy"} /\ "proxy" \in Node \ {"client"}
         /\ Peer["client"] = "proxy" /\ Peer["proxy"] = "client"
         /\ "msg_mr" \in Region /\ "file_mr" \in Region /\ "recv_mr" \in Region
         /\ MailOf("client") /\ MailOf("proxy") /\ ~ Unready("proxy") /\ ~ Unready("proxy")'
         /\ (Unready("client") <=> pcC \in {"prepost", "repost"})
         /\ (Unready("client")' <=> pcC' \in {"prepost", "repost"})
         /\ RegionOf("client") = (IF pcC = "begin" THEN "recv_mr" ELSE "file_mr")
         /\ RegionOf("client")' = (IF pcC' = "begin" THEN "recv_mr" ELSE "file_mr")
         /\ RegionOf("proxy") = (IF pcP \in {"begin", "pollA", "pollB", "fail"}
                                   THEN "file_mr" ELSE "recv_mr")
         /\ RegionOf("proxy")' = (IF pcP' \in {"begin", "pollA", "pollB", "fail"}
                                   THEN "file_mr" ELSE "recv_mr")
         /\ size \in Nat /\ sent \in Nat /\ Len(dst) \in Nat
BY Constants DEF TypeOK, HandlerTypeOK, EndsTypeOK, ClientPair, Unready, RegionOf

LEMMA StepProxyBegin ==
  ASSUME TypeOK, ClientPair, ProxyBegin, UNCHANGED <<pcC, immC, dst, doneC, signals, size, short,
                                                     sent, pool>>
  PROVE  ClientPair' /\ pcP' = "pollA" /\ \A k \in Node \ {"proxy"} : Same(k)
<1>1. pcP = "begin" /\ pcP' = "pollA" /\ Welcome("proxy")
  BY DEF ProxyBegin, Moves
<1>2. /\ pcC = "begin" /\ Sends("proxy") = 0 /\ Receives("proxy") = 0 /\ Receives("client") = 1
  BY <1>1 DEF ClientPair, Asking, ClientPosted
<1>3. Idle("client") /\ Idle("proxy")
  <2>1. (\A l : ~ Expected("client", l)) /\ (\A l : ~ Expected("proxy", l))
    BY <1>1, <1>2, ExpectedAt DEF ForClient, ForProxy
  <2> QED BY <2>1, Silent, ClientPairFacts
<1>4. /\ IsQueued("client", Sent("begin"))' /\ Idle("proxy")'
      /\ Receives("proxy")' = 1 /\ AllPosted("proxy", "file_mr")' /\ Sends("proxy")' = 1
      /\ \A k \in Node \ {"proxy"} : Same(k)
  BY <1>1, <1>2, <1>3, ClientPairFacts, WelcomeEffect
<1>5. Receives("client")' = 1 /\ rq'["client"] = rq["client"] /\ mem'["client"] = mem["client"]
  BY <1>2, <1>4, ClientPairFacts DEF Same, Receives
<1>6. MailOf("proxy")'
  <2>1. RegionOf("proxy")' = "file_mr"
    BY <1>1, ClientPairFacts
  <2> QED BY <1>4, <2>1, MailIdle
<1>7. MailOf("client")'
  <2>1. Expected("client", Sent("begin"))'
    BY <1>1, <1>2, ExpectedAt DEF ForClient
  <2>2. AllPosted("client", RegionOf("client"))'
    BY <1>5, ClientPairFacts DEF MailOf, AllPosted
  <2>3. Idle(Peer["client"])'
    BY <1>4, ClientPairFacts
  <2> QED BY <1>4, <1>5, <2>1, <2>2, <2>3, MailQueued
<1>8. ClientPosted'
  BY <1>1, <1>2, <1>4, <1>5 DEF ClientPosted
<1>9. Asking'
  BY <1>1, <1>2, <1>4, <1>5 DEF Asking
<1>10. Returning'
  BY <1>1, <1>2, <1>5 DEF ClientPair, Returning
<1> QED BY <1>1, <1>4, <1>6, <1>7, <1>8, <1>9, <1>10 DEF ClientPair

\* A poll of the proxy for a send: of the two polls after BEGIN one returns its
\* completion, the other the request.
LEMMA StepProxySendPolled ==
  ASSUME TypeOK, ClientPair, PollSend("proxy"),
         UNCHANGED <<pcC, immC, dst, doneC, signals, size, short, sent, pool>>,
         \/ pcP = "pollA" /\ pcP' = "pollB"
         \/ pcP = "pollB" /\ pcP' = "fail"
  PROVE  ClientPair' /\ \A k \in Node \ {"proxy"} : Same(k)
<1>1. /\ UNCHANGED <<up, sq, rq, rcq, mem, wire, lost>>
      /\ \A k \in Node : Receives(k)' = Receives(k)
      /\ Sends("proxy") \in Nat /\ Sends("proxy") > 0 /\ Sends("proxy")' = Sends("proxy") - 1
  BY PollSendCounts, ClientPairFacts
<1>2. \A k \in Node \ {"proxy"} : Same(k)
  BY PollSame, ClientPairFacts DEF PollAny
<1>3. /\ Receives("client")' = Receives("client") /\ Receives("proxy")' = Receives("proxy")
      /\ (pcP = "pollA" => Receives("proxy") = 1 /\ Sends("proxy") = 1 /\ Sends("proxy")' = 0)
  BY <1>1, ClientPairFacts DEF ClientPair, ClientPosted, Asking
<1>4. pcP = "pollB" => Receives("proxy") = 0
  <2>1. PICK s \in Nat : s = Sends("proxy") /\ s > 0
    BY <1>1
  <2>2. pcP = "pollB" => /\ Receives("proxy") = 0 \/ Receives("proxy") = 1
                         /\ s + Receives("proxy") = 1
    BY <2>1 DEF ClientPair, ClientPosted, Asking
  <2> QED BY <2>1, <2>2
<1>5. CASE pcP = "pollA" /\ pcP' = "pollB"
  <2>1. MailOf("client")'
    <3>1. \A l : Expected("client", l) => Expected("client", l)'
      BY <1>5, ExpectedAt DEF ForClient
    <3>2. AllPosted("client", RegionOf("client"))'
      BY <1>1, ClientPairFacts DEF MailOf, AllPosted
    <3> QED BY <1>1, <3>1, <3>2, MailKeeps, ClientPairFacts
  <2>2. MailOf("proxy")'
    <3>1. \A l : Expected("proxy", l) => Expected("proxy", l)'
      BY <1>5, ExpectedAt DEF ForProxy
    <3>2. RegionOf("proxy")' = RegionOf("proxy")
      BY <1>5, ClientPairFacts
    <3>3. AllPosted("proxy", RegionOf("proxy"))'
      BY <1>1, <3>2, ClientPairFacts DEF MailOf, AllPosted
    <3> QED BY <1>1, <3>1, <3>2, <3>3, MailKeeps, ClientPairFacts
  <2>3. ClientPosted'
    BY <1>3, <1>5 DEF ClientPair, ClientPosted
  <2>4. Asking'
    BY <1>1, <1>3, <1>5 DEF ClientPair, Asking
  <2>5. Returning'
    BY <1>1, <1>5 DEF ClientPair, Returning
  <2> QED BY <1>2, <2>1, <2>2, <2>3, <2>4, <2>5 DEF ClientPair
<1>6. CASE pcP = "pollB" /\ pcP' = "fail"
  <2>1. pcC # "begin" /\ pcC # "ask"
    BY <1>4, <1>6 DEF ClientPair, Asking
  <2>2. Idle("client") /\ Idle("proxy")
    <3>1. \A l : ~ Expected("client", l)
      BY <1>6, <2>1, ExpectedAt DEF ForClient
    <3>2. Idle("proxy")
      BY <1>4, <1>6, ClientPairFacts DEF MailOf
    <3> QED BY <3>1, <3>2, Silent, ClientPairFacts
  <2>3. Idle("client")' /\ Idle("proxy")'
    BY <1>1, <2>2, MailKept
  <2>4. MailOf("client")' /\ MailOf("proxy")'
    <3>1. RegionOf("client")' = RegionOf("client") /\ RegionOf("proxy")' = RegionOf("proxy")
      BY <1>6, ClientPairFacts
    <3>2. rq'["client"] = rq["client"] /\ rq'["proxy"] = rq["proxy"]
      BY <1>1
    <3> QED BY <2>3, <3>1, <3>2, MailIdleKept, ClientPairFacts
  <2>5. ClientPosted'
    BY <1>3, <1>4, <1>6 DEF ClientPair, ClientPosted
  <2>6. Asking'
    BY <1>1, <1>6, <2>1 DEF ClientPair, Asking
  <2>7. Returning'
    BY <1>1, <1>6 DEF ClientPair, Returning
  <2> QED BY <1>2, <2>4, <2>5, <2>6, <2>7 DEF ClientPair
<1> QED BY <1>5, <1>6

\* What the proxy receives from the client: the request, which the first of its two
\* polls can already return, and then NEXT.
LEMMA StepProxyRecv ==
  ASSUME TypeOK, ClientPair, PollRecv("proxy"),
         UNCHANGED <<pcC, immC, dst, doneC, signals, size, short, sent, pool>>,
         \/ pcP = "pollA" /\ pcP' = "pollB"
         \/ pcP = "pollB" /\ pcP' = "fetch"
         \/ pcP = "wait" /\ pcP' = "waitRead"
  PROVE  ClientPair' /\ \A k \in Node \ {"proxy"} : Same(k)
<1>1. /\ Idle("proxy")' /\ Idle("client")' /\ mem' = mem
      /\ Receives("proxy") = 1 /\ Receives("proxy")' = 0 /\ Sends("proxy")' = Sends("proxy")
      /\ (\A s : AllPosted("proxy", s)')
      /\ \A k \in Node \ {"proxy"} : Same(k)
  BY ClientPairFacts, Takes
<1>2. PICK l : /\ Expected("proxy", l)
               /\ l.len = 1 => mem["proxy"][Filled(RegionOf("proxy"), l)] = l.data
  BY ClientPairFacts, Takes
<1>3. \/ l = Sent("request") /\ pcC \in {"prepost", "loop"} /\ pcP \in {"pollA", "pollB"}
      \/ l = Sent("next") /\ pcC \in {"repost", "loop"} /\ pcP = "wait" /\ sent = Len(dst) /\ signals
  BY <1>2, ExpectedAt DEF ForProxy
<1>4. /\ pcP = "pollB" => mem["proxy"]["file_mr"] = Text("request")
      /\ pcP = "wait"  => mem["proxy"]["recv_mr"] = Text("next")
  BY <1>2, <1>3, LettersApart, ClientPairFacts DEF Filled
<1>5. /\ Receives("client")' = Receives("client") /\ rq'["client"] = rq["client"]
  BY <1>1, ClientPairFacts DEF Same, Receives
<1>6. MailOf("proxy")'
  BY <1>1, MailEmpty
<1>7. MailOf("client")'
  <2>1. RegionOf("client")' = RegionOf("client")
    BY ClientPairFacts
  <2> QED BY <1>1, <1>5, <2>1, ClientPairFacts, MailIdleKept
<1>8. ClientPosted'
  BY <1>1, <1>5 DEF ClientPair, ClientPosted
<1>9. Asking'
  <2>1. pcP = "pollA" => Sends("proxy") = 1
    BY DEF ClientPair, Asking
  <2> QED BY <1>1, <1>3, <1>4, <2>1 DEF Asking
<1>10. Returning'
  <2>1. CASE pcP = "wait" /\ pcP' = "waitRead"
    BY <1>1, <1>3, <1>4, <2>1, PiecesKept DEF ClientPair, Returning
  <2>2. CASE pcP \in {"pollA", "pollB"} /\ pcP' \in {"pollB", "fetch"}
    BY <1>1, <1>3, <2>2 DEF ClientPair, Returning
  <2> QED BY <2>1, <2>2
<1> QED BY <1>1, <1>6, <1>7, <1>8, <1>9, <1>10 DEF ClientPair

LEMMA StepProxyReturn ==
  ASSUME TypeOK, ClientPair, ProxyReturn, UNCHANGED <<pcC, immC, dst, doneC, signals, size, short,
                                                      sent, pool>>
  PROVE  ClientPair' /\ pcP \in Returns /\ pcP' \in Returns /\ \A k \in Node \ {"proxy"} : Same(k)
<1>1. /\ pcP = "return" /\ pcP' = (IF pool = <<>> THEN "serve" ELSE "write")
      /\ PostRecv("proxy", "recv_mr") /\ UNCHANGED <<sq, mem, up, scq, rcq, wire, lost>>
  BY DEF ProxyReturn, Moves, NoSend, NoPoll
<1>2. /\ sent = 0 /\ Len(dst) = 0 /\ Len(pool) = size /\ pcC \in {"prepost", "loop"}
      /\ pool \in Seq(Payload)
  <2>1. pcC \in {"begin", "ask", "prepost", "loop", "imm", "repost", "close", "closed"} /\ pool \in Seq(Payload)
    BY DEF TypeOK, HandlerTypeOK, EndsTypeOK
  <2>2. sent = 0 /\ Len(dst) = 0
    BY <1>1, ClientPairFacts DEF ClientPair, Returning
  <2> QED BY <1>1, <2>1, <2>2 DEF ClientPair, Returning, Asking
<1>3. /\ pcP' = "write" => sent < size
      /\ pcP' = "serve" => sent = size
  BY <1>1, <1>2, EmptyFacts, ClientPairFacts
<1>4. Idle("client") /\ Idle("proxy") /\ Receives("proxy") = 0
  <2>1. (\A l : ~ Expected("client", l)) /\ (\A l : ~ Expected("proxy", l))
    BY <1>1, ExpectedAt DEF ForClient, ForProxy
  <2>2. Receives("proxy") = 0
    BY <1>1 DEF ClientPair, ClientPosted
  <2> QED BY <2>1, <2>2, Silent, ClientPairFacts
<1>5. Idle("client")' /\ Idle("proxy")'
  BY <1>1, <1>4, MailKept
<1>6. /\ Receives("proxy")' = 1 /\ AllPosted("proxy", "recv_mr")'
      /\ Receives("client")' = Receives("client") /\ rq'["client"] = rq["client"]
  <2>1. Receives("proxy")' = 1 /\ AllPosted("proxy", "recv_mr")'
        /\ Receives("client")' = Receives("client")
    BY <1>1, <1>4, ClientPairFacts, PostCounts, NoReceives
  <2> QED BY <1>1, <2>1, ClientPairFacts, PostRecvEffect
<1>7. \A k \in Node \ {"proxy"} : Same(k)
  BY <1>1, ClientPairFacts, PostRecvEffect DEF Same
<1>8. MailOf("client")'
  BY <1>5, <1>6, MailIdleKept, ClientPairFacts
<1>9. MailOf("proxy")'
  <2>1. RegionOf("proxy")' = "recv_mr"
    BY <1>1, ClientPairFacts
  <2> QED BY <1>5, <1>6, <2>1, MailIdle
<1>10. ClientPosted'
  BY <1>1, <1>6 DEF ClientPair, ClientPosted
<1>11. Asking'
  BY <1>1, <1>2 DEF Asking
<1>12. Returning'
  BY <1>1, <1>2, <1>3 DEF ClientPair, Returning
<1> QED BY <1>1, <1>7, <1>8, <1>9, <1>10, <1>11, <1>12 DEF ClientPair, Returns

\* A chunk is written to a client that has a receive for it or is about to post one.
LEMMA StepProxyWrite ==
  ASSUME TypeOK, ClientPair, ProxyWrite, UNCHANGED <<pcC, immC, dst, doneC, signals, size, short,
                                                     pool>>,
         \A i \in 1..Len(pool) : pool[i] = Block(i)
  PROVE  ClientPair' /\ pcP \in Returns /\ pcP' \in Returns /\ \A k \in Node \ {"proxy"} : Same(k)
<1>1. /\ pcP = "write" /\ sent' = sent + 1 /\ NoRecv /\ NoPoll
      /\ PostWrite("proxy", "file_mr", pool[sent'], IF sent' < Len(pool) THEN 1 ELSE 0)
      /\ pcP' = IF sent' < Len(pool) THEN "wait" ELSE "serve"
  BY DEF ProxyWrite, ProxyWrites, Moves
<1>2. /\ Len(pool) = size /\ sent = Len(dst) /\ sent < size /\ pcC \in {"prepost", "repost", "loop"}
      /\ \A i \in 1..Len(dst) : dst[i] = Block(i)
      /\ ~ doneC
  BY <1>1 DEF ClientPair, Returning
<1>3. /\ sent' = Len(dst) + 1 /\ sent' \in 1..size /\ pool[sent'] = Block(sent') /\ Len(dst) <= sent'
      /\ sent' # 0
  BY <1>1, <1>2, ClientPairFacts
<1>4. PICK i : i = IF sent' < size THEN 1 ELSE 0
  OBVIOUS
<1>5. PICK p : p = Block(sent')
  OBVIOUS
<1>6. PostWrite("proxy", "file_mr", p, i)
  BY <1>1, <1>2, <1>3, <1>4, <1>5
<1>7. Idle("client") /\ Idle("proxy")
  <2>1. (\A l : ~ Expected("client", l)) /\ (\A l : ~ Expected("proxy", l))
    BY <1>1, ExpectedAt DEF ForClient, ForProxy
  <2> QED BY <2>1, Silent, ClientPairFacts
<1>8. IsQueued("client", Written(p, i))' /\ Idle("proxy")'
  BY <1>1, <1>6, <1>7, ClientPairFacts, WriteAnswer
<1>9. \A k \in Node \ {"proxy"} : Same(k)
  BY <1>1, <1>6, ClientPairFacts, SendSame
<1>10. /\ Receives("proxy") = 1 /\ Receives("proxy")' = 1 /\ rq'["proxy"] = rq["proxy"]
       /\ Receives("client")' = Receives("client") /\ rq'["client"] = rq["client"]
       /\ Receives("client") = (IF pcC = "loop" THEN 1 ELSE 0)
  BY <1>1, <1>2 DEF NoRecv, NoPoll, Receives, ClientPair, ClientPosted
<1>11. pcP' \in {"wait", "serve"} /\ pcP' = IF sent' < size THEN "wait" ELSE "serve"
  BY <1>1, <1>2
<1>12. MailOf("proxy")'
  <2>1. RegionOf("proxy")' = RegionOf("proxy")
    BY <1>1, <1>11, ClientPairFacts
  <2> QED BY <1>8, <1>10, <2>1, ClientPairFacts, MailIdleKept
<1>13. MailOf("client")'
  <2>1. Expected("client", Written(p, i))'
    BY <1>2, <1>3, <1>4, <1>5, <1>11, ExpectedAt, PiecesKept DEF ForClient
  <2>2. AllPosted("client", RegionOf("client"))'
    BY <1>10, ClientPairFacts DEF MailOf, AllPosted
  <2>3. Idle(Peer["client"])'
    BY <1>8, ClientPairFacts
  <2>4. Receives("client")' = 1 \/ Unready("client")'
    BY <1>2, <1>10, ClientPairFacts
  <2> QED BY <1>8, <2>1, <2>2, <2>3, <2>4, MailQueued
<1>14. ClientPosted'
  BY <1>2, <1>10, <1>11 DEF ClientPosted
<1>15. Asking'
  BY <1>2, <1>11 DEF Asking
<1>16. Returning'
  <2>1. sent' < size \/ sent' = size
    BY <1>3, ClientPairFacts
  <2>2. (sent' > 1 => signals) /\ (pcC = "repost" => Len(dst) > 0)
    BY <1>1, ClientPairFacts DEF ClientPair, Returning
  <2>3. \A j : Block(j)' = Block(j)
    BY PiecesKept
  <2> QED BY <1>2, <1>3, <1>11, <2>1, <2>2, <2>3, ClientPairFacts DEF Returning
<1> QED BY <1>1, <1>9, <1>11, <1>12, <1>13, <1>14, <1>15, <1>16 DEF ClientPair, Returns

LEMMA StepProxyWaitRead ==
  ASSUME TypeOK, ClientPair, ProxyWaitRead, UNCHANGED <<pcC, immC, dst, doneC, signals, size,
                                                        short, sent, pool>>
  PROVE  ClientPair' /\ pcP \in Returns /\ pcP' \in Returns /\ \A k \in Node \ {"proxy"} : Same(k)
<1>1. pcP = "waitRead" /\ UNCHANGED <<sq, mem, up, scq, rcq, wire, lost>>
  BY DEF ProxyWaitRead, Moves, NoSend, NoPoll
<1>2. pcP' = "write" /\ PostRecv("proxy", "recv_mr")
  BY <1>1 DEF ProxyWaitRead, Moves, ClientPair, Returning
<1>3. Idle("client") /\ Idle("proxy") /\ Receives("proxy") = 0
  <2>1. (\A l : ~ Expected("client", l)) /\ (\A l : ~ Expected("proxy", l))
    BY <1>1, ExpectedAt DEF ForClient, ForProxy
  <2>2. Receives("proxy") = 0
    BY <1>1 DEF ClientPair, ClientPosted
  <2> QED BY <2>1, <2>2, Silent, ClientPairFacts
<1>4. Idle("client")' /\ Idle("proxy")'
  BY <1>1, <1>3, MailKept
<1>5. /\ Receives("proxy")' = 1 /\ AllPosted("proxy", "recv_mr")'
      /\ Receives("client")' = Receives("client") /\ rq'["client"] = rq["client"]
  <2>1. Receives("proxy")' = 1 /\ AllPosted("proxy", "recv_mr")'
        /\ Receives("client")' = Receives("client")
    BY <1>1, <1>2, <1>3, ClientPairFacts, PostCounts, NoReceives
  <2> QED BY <1>2, <2>1, ClientPairFacts, PostRecvEffect
<1>6. \A k \in Node \ {"proxy"} : Same(k)
  BY <1>1, <1>2, ClientPairFacts, PostRecvEffect DEF Same
<1>7. MailOf("client")'
  BY <1>4, <1>5, MailIdleKept, ClientPairFacts
<1>8. MailOf("proxy")'
  <2>1. RegionOf("proxy")' = "recv_mr"
    BY <1>2, ClientPairFacts
  <2> QED BY <1>4, <1>5, <2>1, MailIdle
<1>9. ClientPosted'
  BY <1>2, <1>5 DEF ClientPair, ClientPosted
<1>10. Asking'
  BY <1>1, <1>2 DEF ClientPair, Asking
<1>11. Returning'
  BY <1>1, <1>2, PiecesKept DEF ClientPair, Returning
<1> QED BY <1>1, <1>2, <1>6, <1>7, <1>8, <1>9, <1>10, <1>11 DEF ClientPair, Returns

LEMMA StepProxyClose ==
  ASSUME TypeOK, ClientPair, ProxyClose, UNCHANGED <<pcC, immC, dst, doneC, signals, size, short,
                                                     sent, pool>>
  PROVE  ClientPair' /\ \A k \in Node \ {"proxy"} : Same(k)
<1>1. /\ CloseNode("proxy") /\ pcP' = "closed"
      /\ pcP = "fail" \/ (pcP = "serve" /\ pcC = "closed")
  BY DEF ProxyClose, Moves
<1>2. Idle("client") /\ Idle("proxy")
  <2>1. pcP = "fail" => pcC # "begin" /\ pcC # "ask"
    BY DEF ClientPair, Asking
  <2>2. (\A l : ~ Expected("client", l)) /\ (\A l : ~ Expected("proxy", l))
    BY <1>1, <2>1, ExpectedAt DEF ForClient, ForProxy
  <2> QED BY <2>2, Silent, ClientPairFacts
<1>3. /\ Idle("client")' /\ Idle("proxy")' /\ Receives("proxy")' = 0
      /\ (\A s : AllPosted("proxy", s)') /\ mem' = mem
  BY <1>1, <1>2, CloseEffect, ClientPairFacts
<1>4. \A k \in Node \ {"proxy"} : Same(k)
  BY <1>1, CloseEffect, ClientPairFacts DEF Same
<1>5. /\ Receives("client")' = Receives("client") /\ rq'["client"] = rq["client"]
  BY <1>4, ClientPairFacts DEF Same, Receives
<1>6. MailOf("proxy")'
  BY <1>3, MailEmpty
<1>7. MailOf("client")'
  <2>1. RegionOf("client")' = RegionOf("client")
    BY ClientPairFacts
  <2> QED BY <1>3, <1>5, <2>1, ClientPairFacts, MailIdleKept
<1>8. ClientPosted'
  BY <1>1, <1>3, <1>5 DEF ClientPair, ClientPosted
<1>9. Asking'
  BY <1>1, <1>3 DEF ClientPair, Asking
<1>10. Returning'
  BY <1>1, <1>3, PiecesKept DEF ClientPair, Returning
<1> QED BY <1>4, <1>6, <1>7, <1>8, <1>9, <1>10 DEF ClientPair

-----------------------------------------------------------------------------
(* The request is read: both servers' end points get a receive for BEGIN, and *)
(* the metadata server is sent its command.                                   *)

LEMMA StepFetch ==
  ASSUME IInv, ProxyFetch({"up1", "up2"}, "meta", "metaBegin"),
         UNCHANGED <<signals, size, short, canOpen, pcC, immC, dst, doneC, pcF, pos, immP, pool,
                     sent, pcM>>
  PROVE  ClientPair' /\ MetaPair' /\ FilePair'
<1>1. /\ TypeOK /\ ClientPair /\ MetaPair /\ FilePair /\ VerbsTypeOK
      /\ pcP = "fetch" /\ pcP' = "metaBegin" /\ content' = mem["proxy"]["file_mr"]
      /\ asked' = asked \union {"meta"} /\ UNCHANGED <<up, sq, scq, rcq, mem, wire, lost>>
      /\ rq' = [n \in Node |-> IF n \in {"up1", "up2"} THEN Append(rq[n], "recv_mr") ELSE rq[n]]
  BY DEF ProxyFetch, Moves, NoSend, NoPoll, IInv, TypeOK, HandlerTypeOK, EndsTypeOK
<1>2. /\ asked = {} /\ content' = Text("request") /\ pcM = "idle" /\ pcF = "idle"
      /\ Receives("up1") = 0 /\ Receives("up2") = 0 /\ Receives("meta") = 0 /\ Receives("file") = 0
      /\ Sends("file") = 0
  BY <1>1 DEF ClientPair, MetaPair, FilePair, Asking, Looking, Fetching, Starting, MetaPosted,
     FilePosted
<1>3. \A k \in Node \ {"up1", "up2"} : Same(k)
  BY <1>1 DEF Same
<1>4. ClientPair'
  <2>1. Same("client") /\ Same("proxy")
    BY <1>3, Constants
  <2>2. sent \in Nat /\ Len(dst) \in Nat
    BY <1>1, ClientPairFacts
  <2> QED BY <1>1, <2>1, <2>2, ClientPairFar DEF Upstream
<1>5. /\ Idle("up1")' /\ Idle("meta")' /\ Idle("up2")' /\ Idle("file")'
  <2>1. /\ \A l : ~ Expected("up1", l)
        /\ \A l : ~ Expected("meta", l)
        /\ \A l : ~ Expected("up2", l)
        /\ \A l : ~ Expected("file", l)
    BY <1>1, <1>2, ExpectedAt DEF ForUp1, ForMeta, ForUp2, ForFile
  <2>2. Idle("up1") /\ Idle("meta") /\ Idle("up2") /\ Idle("file")
    BY <1>1, <2>1, Silent DEF MetaPair, FilePair
  <2> QED BY <1>1, <2>2, MailKept
<1>6. /\ Receives("meta")' = 0 /\ Receives("file")' = 0 /\ Sends("file")' = 0
      /\ rq'["meta"] = rq["meta"] /\ rq'["file"] = rq["file"]
  BY <1>2, <1>3, Constants DEF Same, Receives, Sends
<1>7. ASSUME NEW n \in {"up1", "up2"}
      PROVE  Receives(n)' = 1 /\ AllPosted(n, "recv_mr")'
  <2>1. rq[n] = <<>> /\ rcq[n] = <<>>
    BY <1>1, <1>2, NoReceives, Constants
  <2>2. rq'[n] = Append(rq[n], "recv_mr")
    BY <1>1, Constants
  <2>3. rq'[n] = <<"recv_mr">> /\ rcq'[n] = <<>>
    BY <1>1, <2>1, <2>2, AppendToEmpty
  <2> QED BY <2>3 DEF Receives, AllPosted
<1>8. /\ RegionOf("up1")' = "recv_mr" /\ RegionOf("up2")' = "recv_mr"
      /\ RegionOf("meta")' = RegionOf("meta") /\ RegionOf("file")' = RegionOf("file")
  BY <1>1 DEF RegionOf
<1>9. MailOf("up1")' /\ MailOf("up2")'
  BY <1>5, <1>7, <1>8, MailIdle
<1>10. MailOf("meta")' /\ MailOf("file")'
  BY <1>1, <1>5, <1>6, <1>8, MailIdleKept DEF MetaPair, FilePair
<1>11. MetaPosted' /\ FilePosted'
  BY <1>1, <1>2, <1>6, <1>7 DEF MetaPosted, FilePosted
<1>12. Looking'
  BY <1>1, <1>2, <1>6 DEF Looking, Starting
<1>13. Fetching'
  BY <1>1, <1>2, <1>6 DEF FilePair, Fetching, Starting
<1> QED BY <1>4, <1>9, <1>10, <1>11, <1>12, <1>13 DEF MetaPair, FilePair

-----------------------------------------------------------------------------
(* The steps of the file server. *)

LEMMA FilePairFacts ==
  ASSUME TypeOK, FilePair
  PROVE  /\ VerbsTypeOK /\ Paired
         /\ "up2" \in Node \ {"file"} /\ "file" \in Node \ {"up2"}
         /\ Peer["up2"] = "file" /\ Peer["file"] = "up2"
         /\ "msg_mr" \in Region /\ "file_mr" \in Region /\ "recv_mr" \in Region
         /\ MailOf("up2") /\ MailOf("file") /\ ~ Unready("up2") /\ ~ Unready("up2")'
         /\ (Unready("file") <=> pcF = "closed") /\ (Unready("file")' <=> pcF' = "closed")
         /\ RegionOf("up2") = (IF pcP \in {"metaBegin", "metaAsk", "metaSent", "metaLoop",
                                           "metaGot", "fileBegin"}
                                 THEN "recv_mr" ELSE "file_mr")
         /\ RegionOf("up2")' = (IF pcP' \in {"metaBegin", "metaAsk", "metaSent", "metaLoop",
                                             "metaGot", "fileBegin"}
                                  THEN "recv_mr" ELSE "file_mr")
         /\ RegionOf("file") = (IF pcF \in {"idle", "pollA", "pollB"} THEN "file_mr" ELSE "recv_mr")
         /\ RegionOf("file")' = (IF pcF' \in {"idle", "pollA", "pollB"} THEN "file_mr" ELSE "recv_mr")
         /\ size \in Nat /\ pos \in Nat /\ pos \in 0..size /\ pool \in Seq(Payload) /\ Len(pool) \in Nat
BY Constants DEF TypeOK, HandlerTypeOK, EndsTypeOK, FilePair, Unready, RegionOf

\* The completion of a send that neither end counts.
LEMMA FilePairSendPolled ==
  ASSUME TypeOK, FilePair, NEW n \in {"up2", "file"}, PollSend(n),
         UNCHANGED <<signals, size, short, canOpen, pcP, pcF, pos, immP, pool, asked>>,
         n = "file" => pcF = "wait"
  PROVE  FilePair' /\ \A k \in Node \ {n} : Same(k)
<1>1. /\ VerbsTypeOK /\ n \in Node /\ "up2" \in Node /\ "file" \in Node
      /\ MailOf("up2") /\ MailOf("file")
      /\ RegionOf("up2")' = RegionOf("up2") /\ RegionOf("file")' = RegionOf("file")
  BY FilePairFacts
<1>2. /\ UNCHANGED <<up, sq, rq, rcq, mem, wire, lost>>
      /\ \A k \in Node : Receives(k)' = Receives(k)
      /\ \A k \in Node \ {n} : Sends(k)' = Sends(k)
  BY <1>1, PollSendCounts
<1>3. MailOf("up2")'
  <2>1. \A l : Expected("up2", l) => Expected("up2", l)'
    BY ExpectedAt, PiecesKept DEF ForUp2
  <2>2. AllPosted("up2", RegionOf("up2"))' /\ (Unready("up2") <=> Unready("up2")')
    BY <1>1, <1>2 DEF MailOf, AllPosted, Unready
  <2> QED BY <1>1, <1>2, <2>1, <2>2, MailKeeps
<1>4. MailOf("file")'
  <2>1. \A l : Expected("file", l) => Expected("file", l)'
    BY ExpectedAt DEF ForFile
  <2>2. AllPosted("file", RegionOf("file"))' /\ (Unready("file") <=> Unready("file")')
    BY <1>1, <1>2 DEF MailOf, AllPosted, Unready
  <2> QED BY <1>1, <1>2, <2>1, <2>2, MailKeeps
<1>5. FilePosted'
  BY <1>1, <1>2 DEF FilePair, FilePosted
<1>6. Fetching'
  BY <1>1, <1>2, PiecesKept DEF FilePair, Fetching, Starting
<1>7. \A k \in Node \ {n} : Same(k)
  BY <1>1, PollSame DEF PollAny
<1> QED BY <1>3, <1>4, <1>5, <1>6, <1>7 DEF FilePair

LEMMA StepFileBegin ==
  ASSUME TypeOK, FilePair, "file" \in asked, FileBegin,
         UNCHANGED <<signals, size, short, canOpen, pcP, immP, pool, asked>>
  PROVE  FilePair' /\ \A k \in Node \ {"file"} : Same(k)
<1>1. /\ pcF = "idle" /\ pcF' = "pollA" /\ Welcome("file") /\ pos' = pos
  BY DEF FileBegin, Moves
<1>2. /\ pcP = "fileBegin" /\ Receives("file") = 0 /\ Receives("up2") = 1 /\ Sends("file") = 0
  BY <1>1 DEF FilePair, Fetching, FilePosted
<1>3. Idle("up2") /\ Idle("file")
  <2>1. (\A l : ~ Expected("up2", l)) /\ (\A l : ~ Expected("file", l))
    BY <1>1, <1>2, ExpectedAt DEF ForUp2, ForFile
  <2> QED BY <2>1, Silent, FilePairFacts
<1>4. /\ IsQueued("up2", Sent("begin"))' /\ Idle("file")'
      /\ Receives("file")' = 1 /\ AllPosted("file", "file_mr")' /\ Sends("file")' = 1
      /\ \A k \in Node \ {"file"} : Same(k)
  BY <1>1, <1>2, <1>3, FilePairFacts, WelcomeEffect
<1>5. Receives("up2")' = 1 /\ rq'["up2"] = rq["up2"] /\ mem'["up2"] = mem["up2"]
  BY <1>2, <1>4, FilePairFacts DEF Same, Receives
<1>6. MailOf("file")'
  <2>1. RegionOf("file")' = "file_mr"
    BY <1>1, FilePairFacts
  <2> QED BY <1>4, <2>1, MailIdle
<1>7. MailOf("up2")'
  <2>1. Expected("up2", Sent("begin"))'
    BY <1>1, <1>2, ExpectedAt DEF ForUp2
  <2>2. AllPosted("up2", RegionOf("up2"))'
    BY <1>5, FilePairFacts DEF MailOf, AllPosted
  <2>3. Idle(Peer["up2"])'
    BY <1>4, FilePairFacts
  <2> QED BY <1>4, <1>5, <2>1, <2>2, <2>3, MailQueued
<1>8. FilePosted'
  BY <1>1, <1>2, <1>4, <1>5 DEF FilePosted
<1>9. Fetching'
  BY <1>1, <1>2, <1>4, <1>5 DEF FilePair, Fetching, Starting
<1> QED BY <1>4, <1>6, <1>7, <1>8, <1>9 DEF FilePair

\* Of the two polls after BEGIN one returns its completion, the other the request.
LEMMA StepFileSendPolled ==
  ASSUME TypeOK, FilePair, PollSend("file"),
         UNCHANGED <<signals, size, short, canOpen, pcP, pos, immP, pool, asked>>,
         \/ pcF = "pollA" /\ pcF' = "pollB"
         \/ pcF = "pollB" /\ pcF' = "return"
  PROVE  FilePair' /\ \A k \in Node \ {"file"} : Same(k)
<1>1. /\ UNCHANGED <<up, sq, rq, rcq, mem, wire, lost>>
      /\ \A k \in Node : Receives(k)' = Receives(k)
      /\ Sends("file") \in Nat /\ Sends("file") > 0 /\ Sends("file")' = Sends("file") - 1
  BY PollSendCounts, FilePairFacts
<1>2. \A k \in Node \ {"file"} : Same(k)
  BY PollSame, FilePairFacts DEF PollAny
<1>3. /\ Receives("up2")' = Receives("up2") /\ Receives("file")' = Receives("file")
      /\ (pcF = "pollA" => Receives("file") = 1 /\ Sends("file") = 1 /\ Sends("file")' = 0)
  BY <1>1, FilePairFacts DEF FilePair, FilePosted, Fetching
<1>4. pcF = "pollB" => Receives("file") = 0
  <2>1. PICK s \in Nat : s = Sends("file") /\ s > 0
    BY <1>1
  <2>2. pcF = "pollB" => /\ Receives("file") = 0 \/ Receives("file") = 1
                         /\ s + Receives("file") = 1
    BY <2>1 DEF FilePair, FilePosted, Fetching
  <2> QED BY <2>1, <2>2
<1>5. CASE pcF = "pollA" /\ pcF' = "pollB"
  <2>1. MailOf("up2")'
    <3>1. \A l : Expected("up2", l) => Expected("up2", l)'
      BY <1>5, ExpectedAt DEF ForUp2
    <3>2. AllPosted("up2", RegionOf("up2"))'
      BY <1>1, FilePairFacts DEF MailOf, AllPosted
    <3> QED BY <1>1, <3>1, <3>2, MailKeeps, FilePairFacts
  <2>2. MailOf("file")'
    <3>1. \A l : Expected("file", l) => Expected("file", l)'
      BY <1>5, ExpectedAt DEF ForFile
    <3>2. RegionOf("file")' = RegionOf("file") /\ ~ Unready("file")
      BY <1>5, FilePairFacts
    <3>3. AllPosted("file", RegionOf("file"))'
      BY <1>1, <3>2, FilePairFacts DEF MailOf, AllPosted
    <3> QED BY <1>1, <3>1, <3>2, <3>3, MailKeeps, FilePairFacts
  <2>3. FilePosted'
    BY <1>3, <1>5 DEF FilePair, FilePosted
  <2>4. Fetching'
    BY <1>1, <1>3, <1>5 DEF FilePair, Fetching, Starting
  <2> QED BY <1>2, <2>1, <2>2, <2>3, <2>4 DEF FilePair
<1>6. CASE pcF = "pollB" /\ pcF' = "return"
  <2>1. pcP # "fileBegin" /\ pcP # "fileAsk"
    BY <1>4, <1>6 DEF FilePair, Fetching
  <2>2. Idle("up2") /\ Idle("file")
    <3>1. \A l : ~ Expected("up2", l)
      BY <1>6, <2>1, ExpectedAt DEF ForUp2
    <3>2. Idle("file")
      BY <1>4, <1>6, FilePairFacts DEF MailOf
    <3> QED BY <3>1, <3>2, Silent, FilePairFacts
  <2>3. Idle("up2")' /\ Idle("file")'
    BY <1>1, <2>2, MailKept
  <2>4. MailOf("up2")'
    BY <1>1, <2>3, MailIdleKept, FilePairFacts
  <2>5. MailOf("file")'
    <3>1. \A s : AllPosted("file", s)'
      BY <1>1, <1>4, <1>6, FilePairFacts, NoReceives DEF AllPosted
    <3> QED BY <2>3, <3>1, MailEmpty
  <2>6. FilePosted'
    BY <1>3, <1>4, <1>6 DEF FilePair, FilePosted
  <2>7. Fetching'
    <3>1. /\ "file" \in asked
      BY <1>6 DEF FilePair, Fetching
    <3> QED BY <1>1, <1>3, <1>6, <2>1, <3>1 DEF FilePair, Fetching, Starting
  <2> QED BY <1>2, <2>4, <2>5, <2>6, <2>7 DEF FilePair
<1> QED BY <1>5, <1>6

\* What the file server receives: the request, which the first of its two polls can
\* already return, and then NEXT.
LEMMA StepFileRecv ==
  ASSUME TypeOK, FilePair, PollRecv("file"),
         UNCHANGED <<signals, size, short, canOpen, pcP, pos, immP, pool, asked>>,
         \/ pcF = "pollA" /\ pcF' = "pollB"
         \/ pcF = "pollB" /\ pcF' = "open"
         \/ pcF = "wait" /\ pcF' = "next"
  PROVE  FilePair' /\ \A k \in Node \ {"file"} : Same(k)
<1>0. ~ Unready("file")
  BY FilePairFacts
<1>1. /\ Idle("file")' /\ Idle("up2")' /\ mem' = mem /\ up' = up
      /\ Receives("file") = 1 /\ Receives("file")' = 0 /\ Sends("file")' = Sends("file")
      /\ (\A s : AllPosted("file", s)')
      /\ \A k \in Node \ {"file"} : Same(k)
  BY <1>0, FilePairFacts, Takes
<1>2. PICK l : /\ Expected("file", l)
               /\ l.len = 1 => mem["file"][Filled(RegionOf("file"), l)] = l.data
  BY <1>0, FilePairFacts, Takes
<1>3. \/ l = Sent("request") /\ pcP = "fileLoop" /\ pcF \in {"pollA", "pollB"}
      \/ l = Sent("next") /\ pcP = "fileLoop" /\ pcF = "wait" /\ pos = Len(pool)
  BY <1>2, ExpectedAt DEF ForFile
<1>4. pcF = "wait" => mem["file"]["recv_mr"] = Text("next")
  BY <1>2, <1>3, LettersApart, FilePairFacts DEF Filled
<1>5. Receives("up2")' = Receives("up2") /\ rq'["up2"] = rq["up2"]
  BY <1>1, FilePairFacts DEF Same, Receives
<1>6. MailOf("file")'
  BY <1>1, MailEmpty
<1>7. MailOf("up2")'
  BY <1>1, <1>5, FilePairFacts, MailIdleKept
<1>8. FilePosted'
  BY <1>1, <1>5 DEF FilePair, FilePosted
<1>9. /\ pcF \in {"pollA", "pollB"} => pos = 0 /\ pool = <<>> /\ Len(pool) = 0
      /\ pcF = "pollA" => Sends("file") = 1
  BY DEF FilePair, Fetching
<1>10. Fetching'
  BY <1>1, <1>3, <1>4, <1>5, <1>9, PiecesKept DEF FilePair, Fetching, Starting
<1> QED BY <1>1, <1>6, <1>7, <1>8, <1>10 DEF FilePair

\* The places of the file server at which nothing is between it and the proxy.
LEMMA FileQuiet ==
  ASSUME TypeOK, FilePair, pcF \in {"open", "read", "next"}
  PROVE  /\ Idle("up2") /\ Idle("file") /\ Receives("up2") = 1
         /\ pcP = "fileLoop" /\ pos = Len(pool) /\ AllPosted("up2", "file_mr")
         /\ Receives("file") = IF pcF = "read" THEN 1 ELSE 0
<1>1. pcP = "fileLoop" /\ pos = Len(pool) /\ Receives("up2") = 1
  BY DEF FilePair, Fetching, FilePosted
<1>2. (\A l : ~ Expected("up2", l)) /\ (\A l : ~ Expected("file", l))
  BY <1>1, ExpectedAt DEF ForUp2, ForFile
<1>3. Idle("up2") /\ Idle("file")
  BY <1>2, Silent, FilePairFacts
<1>4. AllPosted("up2", "file_mr")
  BY <1>1, FilePairFacts DEF MailOf
<1>5. Receives("file") = IF pcF = "read" THEN 1 ELSE 0
  BY DEF FilePair, FilePosted
<1> QED BY <1>1, <1>3, <1>4, <1>5

LEMMA StepFileOpen ==
  ASSUME TypeOK, FilePair, FileOpen, UNCHANGED <<signals, size, short, canOpen, pcP, pos, immP,
                                                 pool, asked>>
  PROVE  FilePair' /\ \A k \in Node \ {"file"} : Same(k)
<1>1. /\ pcF = "open" /\ pcP = "fileLoop" /\ pos = Len(pool) /\ "file" \in asked
      /\ Idle("up2") /\ Idle("file") /\ Receives("up2") = 1 /\ Receives("file") = 0
      /\ rcq' = rcq /\ NoPoll
  BY FileQuiet DEF FileOpen, FileOpens, Moves, NoPoll, FilePair, Fetching
<1>2. /\ pcF' = "read" /\ PostRecv("file", "recv_mr") /\ NoSend
      \/ /\ pcF' = "return" /\ ~ canOpen /\ NoRecv /\ PostSend("file", "msg_mr", Text("err"))
  BY <1>1 DEF FileOpen, FileOpens, Moves
<1>3. \A k \in Node \ {"file"} : Same(k)
  BY <1>1, <1>2, FilePairFacts, SendSame
<1>4. /\ Receives("up2")' = 1 /\ rq'["up2"] = rq["up2"] /\ mem'["up2"] = mem["up2"] /\ up' = up
      /\ RegionOf("up2")' = RegionOf("up2") /\ RegionOf("file")' = "recv_mr"
  BY <1>1, <1>2, <1>3, FilePairFacts DEF Same, Receives, NoPoll
<1>5. CASE pcF' = "read" /\ PostRecv("file", "recv_mr") /\ NoSend
  <2>1. Idle("up2")' /\ Idle("file")'
    BY <1>1, <1>5, IdleKept DEF NoSend, NoPoll
  <2>2. Receives("file")' = 1 /\ AllPosted("file", "recv_mr")'
    BY <1>1, <1>5, FilePairFacts, PostCounts, NoReceives
  <2>3. MailOf("up2")'
    BY <1>4, <2>1, FilePairFacts, MailIdleKept
  <2>4. MailOf("file")'
    BY <1>4, <2>1, <2>2, MailIdle
  <2>5. FilePosted'
    BY <1>1, <1>4, <1>5, <2>2 DEF FilePosted
  <2>6. Fetching'
    BY <1>1, <1>4, <1>5, <2>2 DEF FilePair, Fetching, Starting
  <2> QED BY <1>3, <2>3, <2>4, <2>5, <2>6 DEF FilePair
<1>6. CASE /\ pcF' = "return" /\ ~ canOpen /\ NoRecv /\ PostSend("file", "msg_mr", Text("err"))
  <2>1. IsQueued("up2", Sent("err"))' /\ Idle("file")'
    BY <1>1, <1>6, FilePairFacts, SendAnswer
  <2>2. Receives("file")' = 0 /\ \A s : AllPosted("file", s)'
    <3>1. \A s : AllPosted("file", s)
      BY <1>1, FilePairFacts, NoReceives
    <3> QED BY <1>1, <1>6, <3>1 DEF NoRecv, Receives, AllPosted
  <2>3. MailOf("up2")'
    <3>1. Expected("up2", Sent("err"))'
      BY <1>1, <1>6, ExpectedAt DEF ForUp2
    <3>2. AllPosted("up2", RegionOf("up2"))'
      BY <1>4, FilePairFacts DEF MailOf, AllPosted
    <3>3. Idle(Peer["up2"])'
      BY <2>1, FilePairFacts
    <3> QED BY <1>4, <2>1, <3>1, <3>2, <3>3, MailQueued
  <2>4. MailOf("file")'
    BY <2>1, <2>2, MailEmpty
  <2>5. FilePosted'
    BY <1>1, <1>4, <1>6, <2>2 DEF FilePosted
  <2>6. Fetching'
    BY <1>1, <1>4, <1>6, <2>2 DEF FilePair, Fetching, Starting
  <2> QED BY <1>3, <2>3, <2>4, <2>5, <2>6 DEF FilePair
<1> QED BY <1>2, <1>5, <1>6

\* A chunk, or the empty write that ends the file, is written to a proxy that has a
\* receive for it.
LEMMA StepFileWrite ==
  ASSUME TypeOK, FilePair, FileWrite, UNCHANGED <<signals, size, short, canOpen, pcP, immP, pool,
                                                  asked>>
  PROVE  FilePair' /\ \A k \in Node \ {"file"} : Same(k)
<1>1. /\ pcF = "read" /\ pos < size /\ pos' = pos + 1 /\ NoRecv /\ NoPoll
      /\ pcF' = AfterWrite /\ PostWrite("file", "file_mr", Piece(pos + 1), 1)
  BY DEF FileWrite, FileWrites, Moves
<1>2. /\ pcP = "fileLoop" /\ pos' = Len(pool) + 1 /\ Idle("up2") /\ Idle("file")
      /\ Receives("up2") = 1 /\ Receives("file") = 1 /\ pcF' \in {"wait", "fail"}
      /\ "file" \in asked
  BY <1>1, FileQuiet DEF AfterWrite, FilePair, Fetching
<1>3. PICK p : p = Piece(pos')
  OBVIOUS
<1>4. PostWrite("file", "file_mr", p, 1)
  BY <1>1, <1>3
<1>5. IsQueued("up2", Written(p, 1))' /\ Idle("file")'
  BY <1>1, <1>2, <1>4, FilePairFacts, WriteAnswer
<1>6. \A k \in Node \ {"file"} : Same(k)
  BY <1>1, <1>4, FilePairFacts, SendSame
<1>7. /\ Receives("up2")' = 1 /\ rq'["up2"] = rq["up2"] /\ up' = up
      /\ Receives("file")' = 1 /\ rq'["file"] = rq["file"]
  BY <1>1, <1>2 DEF NoRecv, NoPoll, Receives
<1>8. MailOf("file")'
  <2>1. RegionOf("file")' = RegionOf("file")
    BY <1>1, <1>2, FilePairFacts
  <2> QED BY <1>5, <1>7, <2>1, FilePairFacts, MailIdleKept
<1>9. MailOf("up2")'
  <2>1. Expected("up2", Written(p, 1))'
    BY <1>2, <1>3, ExpectedAt, PiecesKept DEF ForUp2
  <2>2. AllPosted("up2", RegionOf("up2"))'
    BY <1>7, FilePairFacts DEF MailOf, AllPosted
  <2>3. Idle(Peer["up2"])'
    BY <1>5, FilePairFacts
  <2> QED BY <1>5, <1>7, <2>1, <2>2, <2>3, MailQueued
<1>10. FilePosted'
  BY <1>2, <1>7 DEF FilePosted
<1>11. Fetching'
  BY <1>2, <1>7, PiecesKept DEF FilePair, Fetching, Starting
<1> QED BY <1>6, <1>8, <1>9, <1>10, <1>11 DEF FilePair

LEMMA StepFileEnd ==
  ASSUME TypeOK, FilePair, FileEnd, UNCHANGED <<signals, size, short, canOpen, pcP, pos, immP,
                                                pool, asked>>
  PROVE  FilePair' /\ \A k \in Node \ {"file"} : Same(k)
<1>1. /\ pcF = "read" /\ pos = size /\ NoRecv /\ NoPoll
      /\ pcF' = "return" /\ PostEmptyWrite("file", "file_mr")
  BY DEF FileEnd, Moves
<1>2. /\ pcP = "fileLoop" /\ pos = Len(pool) /\ Idle("up2") /\ Idle("file")
      /\ Receives("up2") = 1 /\ Receives("file") = 1 /\ "file" \in asked
  BY <1>1, FileQuiet DEF FilePair, Fetching
<1>3. IsQueued("up2", EmptyWrite)' /\ Idle("file")'
  BY <1>1, <1>2, FilePairFacts, EmptyAnswer
<1>4. \A k \in Node \ {"file"} : Same(k)
  BY <1>1, FilePairFacts, SendSame, PayloadFacts
<1>5. /\ Receives("up2")' = 1 /\ rq'["up2"] = rq["up2"] /\ up' = up
      /\ Receives("file")' = 1 /\ rq'["file"] = rq["file"]
  BY <1>1, <1>2 DEF NoRecv, NoPoll, Receives
<1>6. MailOf("file")'
  <2>1. RegionOf("file")' = RegionOf("file")
    BY <1>1, FilePairFacts
  <2> QED BY <1>3, <1>5, <2>1, FilePairFacts, MailIdleKept
<1>7. MailOf("up2")'
  <2>1. Expected("up2", EmptyWrite)'
    BY <1>1, <1>2, ExpectedAt DEF ForUp2
  <2>2. AllPosted("up2", RegionOf("up2"))'
    BY <1>5, FilePairFacts DEF MailOf, AllPosted
  <2>3. Idle(Peer["up2"])'
    BY <1>3, FilePairFacts
  <2> QED BY <1>3, <1>5, <2>1, <2>2, <2>3, MailQueued
<1>8. FilePosted'
  BY <1>1, <1>2, <1>5 DEF FilePosted
<1>9. Fetching'
  BY <1>1, <1>2, <1>5, PiecesKept DEF FilePair, Fetching, Starting
<1> QED BY <1>4, <1>6, <1>7, <1>8, <1>9 DEF FilePair

LEMMA StepFileNext ==
  ASSUME TypeOK, FilePair, FileNext, UNCHANGED <<signals, size, short, canOpen, pcP, pos, immP,
                                                 pool, asked>>
  PROVE  FilePair' /\ \A k \in Node \ {"file"} : Same(k)
<1>1. /\ pcF = "next" /\ pcP = "fileLoop" /\ pos = Len(pool) /\ "file" \in asked
      /\ Idle("up2") /\ Idle("file") /\ Receives("up2") = 1 /\ Receives("file") = 0
      /\ UNCHANGED <<sq, mem, up, scq, rcq, wire, lost>>
  BY FileQuiet DEF FileNext, Moves, NoSend, NoPoll, FilePair, Fetching
<1>2. pcF' = "read" /\ PostRecv("file", "recv_mr")
  BY <1>1 DEF FileNext, Moves, FilePair, Fetching
<1>3. \A k \in Node \ {"file"} : Same(k)
  BY <1>1, <1>2, FilePairFacts, PostRecvEffect DEF Same
<1>4. Receives("up2")' = 1 /\ rq'["up2"] = rq["up2"]
  BY <1>1, <1>3, FilePairFacts DEF Same, Receives
<1>5. Idle("up2")' /\ Idle("file")'
  BY <1>1, MailKept
<1>6. Receives("file")' = 1 /\ AllPosted("file", "recv_mr")'
  BY <1>1, <1>2, FilePairFacts, PostCounts, NoReceives
<1>7. RegionOf("up2")' = RegionOf("up2") /\ RegionOf("file")' = "recv_mr"
  BY <1>2, FilePairFacts
<1>8. MailOf("up2")'
  BY <1>4, <1>5, <1>7, FilePairFacts, MailIdleKept
<1>9. MailOf("file")'
  BY <1>5, <1>6, <1>7, MailIdle
<1>10. FilePosted'
  BY <1>1, <1>2, <1>4, <1>6 DEF FilePosted
<1>11. Fetching'
  BY <1>1, <1>2, <1>4, <1>6, PiecesKept DEF FilePair, Fetching, Starting
<1> QED BY <1>3, <1>8, <1>9, <1>10, <1>11 DEF FilePair

\* A close flushes what is still queued; what has left is still to arrive.
LEMMA StepFileClose ==
  ASSUME TypeOK, FilePair, pcF \in {"return", "fail"}, FileClose,
         UNCHANGED <<signals, size, short, canOpen, pcP, immP, pool, asked>>
  PROVE  FilePair' /\ \A k \in Node \ {"file"} : Same(k)
<1>1. /\ CloseNode("file") /\ pos' = pos
      /\ pcF' = (IF sq["file"] = <<>> THEN "closed" ELSE "cut")
  BY DEF FileClose
<1>2. /\ ~ up'["file"] /\ sq'["file"] = <<>> /\ rcq'["file"] = <<>> /\ Receives("file")' = 0
      /\ (\A r : AllPosted("file", r)') /\ UNCHANGED <<mem, wire, lost>>
      /\ \A k \in Node \ {"file"} : Same(k)
      /\ (Idle("up2") => Idle("up2")') /\ (Idle("file") => Idle("file")')
      /\ \A r, l : InFlight("up2", r, l) => Idle("up2")' \/ InFlight("up2", r, l)'
  <2>1. \A k \in Node \ {"file"} : Same(k)
    BY <1>1, CloseEffect, FilePairFacts DEF Same
  <2> QED BY <1>1, <2>1, CloseEffect, FilePairFacts
<1>3. /\ sq'["up2"] = sq["up2"] /\ rq'["up2"] = rq["up2"] /\ rcq'["up2"] = rcq["up2"]
      /\ Receives("up2")' = Receives("up2") /\ RegionOf("up2")' = RegionOf("up2")
  <2>1. Same("up2")
    BY <1>2, FilePairFacts
  <2>2. sq'["up2"] = sq["up2"] /\ rq'["up2"] = rq["up2"] /\ rcq'["up2"] = rcq["up2"]
    BY <2>1 DEF Same
  <2>3. Receives("up2")' = Receives("up2")
    BY <2>2 DEF Receives
  <2>4. RegionOf("up2")' = RegionOf("up2")
    BY FilePairFacts
  <2> QED BY <2>2, <2>3, <2>4
<1>4. "file" \in asked /\ pcP # "fileBegin" /\ pcP # "fileAsk"
  BY DEF FilePair, Fetching
<1>5. MailOf("up2")'
  <2>1. CASE Idle("up2")
    BY <1>2, <1>3, <2>1, FilePairFacts, MailIdleKept
  <2>2. CASE ~ Idle("up2")
    <3>1. PICK r : r = RegionOf("up2")
      OBVIOUS
    <3>2. PICK l : Expected("up2", l) /\ InFlight("up2", r, l)
      BY <2>2, <3>1, FilePairFacts DEF MailOf
    <3>3. Idle("file") /\ Receives("up2") = 1 /\ AllPosted("up2", r)
      BY <2>2, <3>1, FilePairFacts DEF MailOf
    <3>4. AllPosted("up2", RegionOf("up2"))' /\ RegionOf("up2")' = r
      BY <1>3, <3>1, <3>3 DEF AllPosted
    <3>5. CASE sq["file"] = <<>>
      <4>1. Expected("up2", l)'
        BY <1>1, <3>2, <3>5, ExpectedAt, PiecesKept DEF ForUp2
      <4>2. l \in Letters'
        BY <4>1, ExpectedLetters
      <4>3. Idle("up2")' \/ InFlight("up2", r, l)'
        BY <1>2, <3>2
      <4>4. Idle("file")' /\ Receives("up2")' = 1
        BY <1>2, <1>3, <3>3
      <4> QED BY <3>4, <4>1, <4>2, <4>3, <4>4, FilePairFacts DEF MailOf
    <3>6. CASE sq["file"] # <<>>
      <4>1. wire["up2"] = <<>> /\ rcq["up2"] = <<>>
        BY <3>2, <3>6, FilePairFacts DEF InFlight, IsQueued, IsOnWire, IsReceived
      <4>2. Idle("up2")'
        BY <1>2, <1>3, <4>1, FilePairFacts DEF Idle
      <4> QED BY <3>4, <4>2, MailIdle
    <3> QED BY <3>5, <3>6
  <2> QED BY <2>1, <2>2
<1>6. MailOf("file")'
  <2>1. CASE Idle("file")
    BY <1>2, <2>1, MailEmpty
  <2>2. CASE ~ Idle("file")
    <3>1. PICK r : r = RegionOf("file")
      OBVIOUS
    <3>2. PICK l : Expected("file", l) /\ InFlight("file", r, l)
      BY <2>2, <3>1, FilePairFacts DEF MailOf
    <3>3. Idle("up2") /\ sq["file"] = <<>> /\ pcF' = "closed"
      BY <1>1, <2>2, FilePairFacts DEF MailOf, Idle
    <3>4. CASE rcq["file"] = <<>>
      <4>1. InFlight("file", r, l)'
        BY <1>2, <1>3, <3>2, <3>4, FilePairFacts DEF InFlight, IsQueued, IsOnWire, IsReceived
      <4>2. Expected("file", l)'
        BY <1>1, <3>2, <3>3, ExpectedAt DEF ForFile
      <4>3. l \in Letters' /\ RegionOf("file")' = r
        <5>1. l \in Letters'
          BY <4>2, ExpectedLetters
        <5> QED BY <3>1, <3>3, <5>1, FilePairFacts
      <4>4. AllPosted("file", RegionOf("file"))' /\ Idle("up2")' /\ Unready("file")'
        BY <1>2, <3>3, FilePairFacts DEF AllPosted
      <4> QED BY <4>1, <4>2, <4>3, <4>4, FilePairFacts DEF MailOf
    <3>5. CASE rcq["file"] # <<>>
      <4>1. sq["up2"] = <<>> /\ wire["file"] = <<>>
        BY <3>2, <3>5, FilePairFacts DEF InFlight, IsQueued, IsOnWire, IsReceived
      <4>2. Idle("file")'
        BY <1>2, <1>3, <4>1, FilePairFacts DEF Idle
      <4> QED BY <1>2, <4>2, MailEmpty
    <3> QED BY <3>4, <3>5
  <2> QED BY <2>1, <2>2
<1>7. FilePosted'
  BY <1>1, <1>2, <1>3 DEF FilePair, FilePosted
<1>8. Fetching'
  <2>1. (pcP = "fileLoop" /\ Receives("up2") = 0) \/ pcP = "chunk" => Idle("up2")
    <3>1. pcP = "chunk" => \A l : ~ Expected("up2", l)
      BY ExpectedAt DEF ForUp2
    <3> QED BY <3>1, Silent, FilePairFacts DEF MailOf
  <2>2. (pcP = "fileLoop" /\ Receives("up2") = 0) \/ pcP = "chunk" => pcF' = "closed"
    BY <1>1, <2>1, FilePairFacts DEF Idle
  <2>3. pcF' \in {"closed", "cut"}
    BY <1>1
  <2> QED BY <1>1, <1>2, <1>3, <1>4, <2>2, <2>3, PiecesKept DEF FilePair, Fetching, Starting
<1> QED BY <1>2, <1>5, <1>6, <1>7, <1>8 DEF FilePair

LEMMA FileKeeps ==
  ASSUME IInv, FileNextStep
  PROVE  ClientPair' /\ MetaPair' /\ FilePair'
<1>1. /\ TypeOK /\ ClientPair /\ MetaPair /\ FilePair
      /\ UNCHANGED <<signals, size, short, canOpen, pcC, immC, dst, doneC, pcP, immP, content,
                     pool, asked, sent,
                     pcM>>
  BY DEF FileNextStep, IInv, runVars, clientVars, proxyVars, handlerVars
<1>2. FilePair' /\ \A k \in Node \ {"file"} : Same(k)
  <2>1. CASE "file" \in asked /\ FileBegin
    BY <1>1, <2>1, StepFileBegin
  <2>2. CASE FilePollA /\ UNCHANGED pos
    BY <1>1, <2>2, StepFileSendPolled, StepFileRecv DEF FilePollA, Moves, PollForSend
  <2>3. CASE FileWrite
    BY <1>1, <2>3, StepFileWrite
  <2>4. CASE FilePollB /\ UNCHANGED pos
    BY <1>1, <2>4, StepFileSendPolled, StepFileRecv DEF FilePollB, Moves
  <2>5. CASE FileOpen /\ UNCHANGED pos
    BY <1>1, <2>5, StepFileOpen
  <2>6. CASE FileEnd /\ UNCHANGED pos
    BY <1>1, <2>6, StepFileEnd
  <2>7. CASE FileWait /\ UNCHANGED pos
    <3>1. CASE Moves(pcF, "wait", "wait") /\ PollSend("file")
      BY <1>1, <2>7, <3>1, FilePairSendPolled DEF Moves
    <3>2. CASE Moves(pcF, "wait", "next") /\ PollRecv("file")
      BY <1>1, <2>7, <3>2, StepFileRecv DEF Moves
    <3> QED BY <2>7, <3>1, <3>2 DEF FileWait, AwaitRecv
  <2>8. CASE FileNext /\ UNCHANGED pos
    BY <1>1, <2>8, StepFileNext
  <2>9. CASE pcF \in {"return", "fail"} /\ FileClose
    BY <1>1, <2>9, StepFileClose
  <2> QED BY <2>1, <2>2, <2>3, <2>4, <2>5, <2>6, <2>7, <2>8, <2>9 DEF FileNextStep, FileStep
<1>3. Same("client") /\ Same("proxy") /\ Same("up1") /\ Same("meta")
  BY <1>2, Constants
<1>4. ClientPair'
  BY <1>1, <1>3, ClientPairSame
<1>5. MetaPair'
  BY <1>1, <1>3, MetaPairKept DEF PastMeta
<1> QED BY <1>2, <1>4, <1>5

-----------------------------------------------------------------------------
(* The steps of the proxy on its end point to the file server. *)

\* The metadata server has answered, and the file server is sent its command.
LEMMA StepMetaGot ==
  ASSUME IInv, ProxyMetaGot,
         UNCHANGED <<signals, size, short, canOpen, pcC, immC, dst, doneC, pcF, pos, immP, pool,
                     sent, pcM>>
  PROVE  ClientPair' /\ MetaPair' /\ FilePair'
<1>1. /\ TypeOK /\ ClientPair /\ MetaPair /\ FilePair
      /\ pcP = "metaGot" /\ pcP' = "fileBegin" /\ content' = mem["up1"]["file_mr"]
      /\ asked' = asked \union {"file"}
      /\ UNCHANGED <<rq, sq, mem, up, scq, rcq, wire, lost>>
  BY DEF ProxyMetaGot, Moves, NoRecv, NoSend, NoPoll, IInv
<1>2. \A k \in Node : Same(k)
  BY <1>1 DEF Same
<1>3. ClientPair'
  <2>1. Same("client") /\ Same("proxy")
    BY <1>2, Constants
  <2>2. sent \in Nat /\ Len(dst) \in Nat
    BY <1>1, ClientPairFacts
  <2> QED BY <1>1, <2>1, <2>2, ClientPairFar DEF Upstream
<1>4. /\ "file" \notin asked /\ content' = Text("request") /\ pcM = "done" /\ pcF = "idle"
  <2>1. "file" \notin asked /\ content' = Text("request") /\ pcM = "done"
    BY <1>1 DEF MetaPair, Looking, Starting
  <2> QED BY <1>1, <2>1 DEF FilePair, Fetching
<1>5. /\ Idle("up1") /\ Idle("meta") /\ Idle("up2") /\ Idle("file")
  <2>1. /\ \A l : ~ Expected("up1", l)
        /\ \A l : ~ Expected("meta", l)
        /\ \A l : ~ Expected("up2", l)
        /\ \A l : ~ Expected("file", l)
    BY <1>1, <1>4, ExpectedAt DEF ForUp1, ForMeta, ForUp2, ForFile
  <2> QED BY <1>1, <2>1, Silent DEF MetaPair, FilePair
<1>6. /\ Idle("up1")' /\ Idle("meta")' /\ Idle("up2")' /\ Idle("file")'
  BY <1>1, <1>5, MailKept
<1>7. \A k \in Node : Receives(k)' = Receives(k) /\ Sends(k)' = Sends(k) /\ rq'[k] = rq[k]
  BY <1>1 DEF Receives, Sends
<1>8. /\ RegionOf("up1")' = RegionOf("up1") /\ RegionOf("meta")' = RegionOf("meta")
      /\ RegionOf("up2")' = RegionOf("up2") /\ RegionOf("file")' = RegionOf("file")
  BY <1>1 DEF RegionOf
<1>9. MailOf("up1")' /\ MailOf("meta")' /\ MailOf("up2")' /\ MailOf("file")'
  BY <1>1, <1>6, <1>8, MailIdleKept DEF MetaPair, FilePair
<1>10. /\ Receives("up1")' = Receives("up1") /\ Receives("meta")' = Receives("meta")
       /\ Receives("up2")' = Receives("up2") /\ Receives("file")' = Receives("file")
       /\ Sends("file")' = Sends("file")
  BY <1>7, Constants
<1>11. MetaPosted' /\ FilePosted'
  BY <1>1, <1>10 DEF MetaPair, FilePair, MetaPosted, FilePosted
<1>12. Looking'
  BY <1>1, <1>4, <1>10 DEF MetaPair, Looking, Starting
<1>13. Fetching'
  BY <1>1, <1>4, <1>10 DEF FilePair, Fetching, Starting
<1> QED BY <1>3, <1>9, <1>11, <1>12, <1>13 DEF MetaPair, FilePair

LEMMA StepUp2Begin ==
  ASSUME TypeOK, FilePair, ProxyAwaitBegin("up2", "fileBegin", "fileAsk"),
         UNCHANGED <<signals, size, short, canOpen, pcF, pos, immP, pool, asked>>
  PROVE  FilePair' /\ pcP = "fileBegin" /\ pcP' = "fileAsk" /\ \A k \in Node \ {"up2"} : Same(k)
<1>1. pcP = "fileBegin" /\ pcP' = "fileAsk" /\ PollRecv("up2")
  BY DEF ProxyAwaitBegin, Moves
<1>2. /\ Idle("up2")' /\ Idle("file")' /\ Receives("up2")' = 0 /\ mem' = mem /\ up' = up
      /\ (\A s : AllPosted("up2", s)')
      /\ \A k \in Node \ {"up2"} : Same(k)
  BY <1>1, FilePairFacts, Takes
<1>3. PICK l : /\ Expected("up2", l)
               /\ l.len = 1 => mem["up2"][Filled(RegionOf("up2"), l)] = l.data
  BY <1>1, FilePairFacts, Takes
<1>4. l = Sent("begin") /\ pcF \in {"pollA", "pollB"}
  BY <1>1, <1>3, ExpectedAt DEF ForUp2
<1>5. mem["up2"]["recv_mr"] = Text("begin")
  BY <1>1, <1>3, <1>4, LettersApart, FilePairFacts DEF Filled
<1>6. Same("file")
  BY <1>2, FilePairFacts
<1>7. rq'["file"] = rq["file"] /\ Receives("file")' = Receives("file") /\ Sends("file")' = Sends("file")
  BY <1>6 DEF Same, Receives, Sends
<1>8. MailOf("up2")'
  BY <1>2, MailEmpty
<1>9. MailOf("file")'
  BY <1>2, <1>7, FilePairFacts, MailIdleKept
<1>10. FilePosted'
  BY <1>1, <1>2, <1>7 DEF FilePair, FilePosted
<1>11. Fetching'
  BY <1>1, <1>2, <1>4, <1>5, <1>7 DEF FilePair, Fetching, Starting
<1> QED BY <1>1, <1>2, <1>8, <1>9, <1>10, <1>11 DEF FilePair

LEMMA StepFileAsk ==
  ASSUME TypeOK, FilePair, ProxyAsk("up2", "fileAsk", "fileLoop"), content = Text("request"),
         UNCHANGED <<signals, size, short, canOpen, pcF, pos, immP, pool, asked>>
  PROVE  FilePair' /\ pcP = "fileAsk" /\ pcP' = "fileLoop" /\ \A k \in Node \ {"up2"} : Same(k)
<1>1. pcP = "fileAsk"
  BY DEF ProxyAsk, Moves
<1>2. /\ pcP' = "fileLoop" /\ PostRecv("up2", "file_mr") /\ NoPoll
      /\ PostSend("up2", "msg_mr", Text("request"))
  BY <1>1 DEF ProxyAsk, Moves, FilePair, Fetching
<1>3. /\ pcF \in {"pollA", "pollB"} /\ Receives("file") = 1 /\ Receives("up2") = 0
      /\ "file" \in asked
  BY <1>1 DEF FilePair, Fetching, FilePosted
<1>4. Idle("up2") /\ Idle("file")
  <2>1. (\A l : ~ Expected("up2", l)) /\ (\A l : ~ Expected("file", l))
    BY <1>1, ExpectedAt DEF ForUp2, ForFile
  <2> QED BY <2>1, Silent, FilePairFacts
<1>5. IsQueued("file", Sent("request"))' /\ Idle("up2")'
  BY <1>2, <1>4, FilePairFacts, SendAnswer
<1>6. \A k \in Node \ {"up2"} : Same(k)
  BY <1>2, FilePairFacts, SendSame
<1>7. Receives("up2")' = 1 /\ AllPosted("up2", "file_mr")'
  <2>1. rcq' = rcq /\ AllPosted("up2", "file_mr")
    BY <1>2, <1>3, FilePairFacts, NoReceives DEF NoPoll
  <2> QED BY <1>2, <1>3, <2>1, FilePairFacts, PostCounts
<1>8. /\ Receives("file")' = 1 /\ rq'["file"] = rq["file"] /\ mem'["file"] = mem["file"]
      /\ Sends("file")' = Sends("file")
  <2>1. Same("file")
    BY <1>6, FilePairFacts
  <2>2. Receives("file")' = Receives("file") /\ rq'["file"] = rq["file"]
        /\ mem'["file"] = mem["file"] /\ Sends("file")' = Sends("file")
    BY <2>1 DEF Same, Receives, Sends
  <2> QED BY <1>3, <2>2
<1>9. MailOf("up2")'
  <2>1. RegionOf("up2")' = "file_mr"
    BY <1>2, FilePairFacts
  <2> QED BY <1>5, <1>7, <2>1, MailIdle
<1>10. MailOf("file")'
  <2>1. Expected("file", Sent("request"))'
    BY <1>2, <1>3, ExpectedAt DEF ForFile
  <2>2. AllPosted("file", RegionOf("file"))'
    BY <1>8, FilePairFacts DEF MailOf, AllPosted
  <2>3. Idle(Peer["file"])'
    BY <1>5, FilePairFacts
  <2> QED BY <1>5, <1>8, <2>1, <2>2, <2>3, MailQueued
<1>11. FilePosted'
  BY <1>2, <1>3, <1>7, <1>8 DEF FilePosted
<1>12. up'["file"] = up["file"]
  BY <1>2 DEF NoPoll
<1>13. Fetching'
  BY <1>2, <1>3, <1>7, <1>8, <1>12 DEF FilePair, Fetching, Starting
<1> QED BY <1>1, <1>2, <1>6, <1>9, <1>10, <1>11, <1>13 DEF FilePair

\* What the proxy receives from the file server: an error, which it takes no notice of,
\* the next chunk, or the end.
LEMMA StepUp2Recv ==
  ASSUME TypeOK, FilePair, PollRecv("up2"), pcP = "fileLoop",
         immP' = Head(rcq["up2"]).imm,
         pcP' = (IF Head(rcq["up2"]).op = "RECV_IMM" THEN "chunk" ELSE "fileLoop"),
         UNCHANGED <<signals, size, short, canOpen, pcF, pos, pool, asked>>
  PROVE  FilePair' /\ \A k \in Node \ {"up2"} : Same(k)
<1>1. /\ Idle("up2")' /\ Idle("file")' /\ Receives("up2")' = 0 /\ mem' = mem /\ up' = up
      /\ (\A s : AllPosted("up2", s)')
      /\ \A k \in Node \ {"up2"} : Same(k)
  BY FilePairFacts, Takes
<1>2. PICK l : /\ Expected("up2", l)
               /\ Head(rcq["up2"]).op = (IF l.op = "SEND" THEN "RECV" ELSE "RECV_IMM")
               /\ Head(rcq["up2"]).imm = l.imm
               /\ l.len = 1 => mem["up2"][Filled(RegionOf("up2"), l)] = l.data
  BY FilePairFacts, Takes
<1>3. \/ l = Sent("err") /\ ~ canOpen /\ pcF \in {"return", "closed"}
      \/ /\ l = Written(Piece(pos), 1) /\ pos = Len(pool) + 1
         /\ pcF \in {"wait", "fail", "closed"}
      \/ l = EmptyWrite /\ Len(pool) = size /\ pcF \in {"return", "closed"}
  BY <1>2, ExpectedAt DEF ForUp2
<1>4. \/ pcP' = "fileLoop" /\ ~ canOpen /\ pcF \in {"return", "closed"}
      \/ /\ pcP' = "chunk" /\ immP' = 1 /\ mem["up2"]["file_mr"] = Piece(pos)
         /\ pos = Len(pool) + 1 /\ pcF \in {"wait", "fail", "closed"}
      \/ pcP' = "chunk" /\ immP' = 0 /\ Len(pool) = size /\ pcF \in {"return", "closed"}
  BY <1>2, <1>3, LettersApart DEF Filled
<1>5. pcP' \in {"fileLoop", "chunk"}
  OBVIOUS
<1>6. rq'["file"] = rq["file"] /\ Receives("file")' = Receives("file") /\ Sends("file")' = Sends("file")
  <2>1. Same("file")
    BY <1>1, FilePairFacts
  <2> QED BY <2>1 DEF Same, Receives, Sends
<1>7. MailOf("up2")'
  BY <1>1, MailEmpty
<1>8. MailOf("file")'
  BY <1>1, <1>6, FilePairFacts, MailIdleKept
<1>9. FilePosted'
  BY <1>1, <1>5, <1>6 DEF FilePair, FilePosted
<1>10. Fetching'
  <2>1. "file" \in asked
    BY <1>3 DEF FilePair, Fetching
  <2> QED BY <1>1, <1>4, <1>6, <2>1, PiecesKept DEF FilePair, Fetching, Starting
<1> QED BY <1>1, <1>7, <1>8, <1>9, <1>10 DEF FilePair

\* Of a file whose last chunk is short, the proxy finds at the end of its region, when it
\* comes to keep that chunk, the end of the one before.
LEMMA EndTail ==
  ASSUME TypeOK, Ended, short, Len(pool) + 1 = size
  PROVE  mem["up2"]["file_end"].tail = size - 1
<1>1. VerbsTypeOK /\ "up2" \in Node /\ size \in Nat /\ Len(pool) \in Nat
  BY Constants DEF TypeOK, HandlerTypeOK, EndsTypeOK
<1>2. mem["up2"]["file_end"].tail \in Nat
  BY <1>1 DEF VerbsTypeOK, Part, Payload
<1> QED BY <1>1, <1>2 DEF Ended, EndKept

\* A chunk is kept, and NEXT sent to a file server that waits for it, or has failed, or
\* has closed.
LEMMA StepChunk ==
  ASSUME TypeOK, FilePair, Ended, ProxyChunk("up2"), UNCHANGED <<signals, size, short, canOpen,
                                                                 pcF, pos, immP, asked>>
  PROVE  /\ FilePair' /\ pcP = "chunk" /\ pcP' = "fileLoop"
         /\ \A k \in Node \ {"up2"} : Same(k)
<1>1. /\ pcP = "chunk" /\ pcP' = "fileLoop" /\ immP # 0 /\ PostRecv("up2", "file_mr")
      /\ PostSend("up2", "msg_mr", Text("next")) /\ NoPoll
      /\ pool' = Append(pool, FileBlock("up2"))
  BY DEF ProxyChunk, ProxyKeeps, Moves
<1>2. /\ mem["up2"]["file_mr"] = Piece(pos) /\ pos = Len(pool) + 1
      /\ pcF \in {"wait", "fail", "closed"}
  BY <1>1 DEF FilePair, Fetching
<1>3. /\ Len(pool') = pos /\ \A i \in 1..Len(pool') : pool'[i] = Block(i)
  <2>1. \A i \in 1..Len(pool) : pool[i] = Block(i)
    BY DEF FilePair, Fetching
  <2>2. FileBlock("up2") = Block(pos) /\ Block(pos) \in Payload
    <3>1. short /\ pos = size => mem["up2"]["file_end"].tail = pos - 1
      BY <1>2, EndTail, FilePairFacts
    <3> QED BY <1>2, <3>1, BlockRead, FileBlockType, FilePairFacts
  <2> QED BY <1>1, <1>2, <2>1, <2>2, FilePairFacts, AppendFacts
<1>4. /\ Receives("up2") = 0 /\ (Receives("file") = 1 \/ pcF = "closed") /\ "file" \in asked
  BY <1>1, <1>2 DEF FilePair, FilePosted, Fetching
<1>5. Idle("up2") /\ Idle("file")
  <2>1. (\A l : ~ Expected("up2", l)) /\ (\A l : ~ Expected("file", l))
    BY <1>1, ExpectedAt DEF ForUp2, ForFile
  <2> QED BY <2>1, Silent, FilePairFacts
<1>6. IsQueued("file", Sent("next"))' /\ Idle("up2")'
  BY <1>1, <1>5, FilePairFacts, SendAnswer
<1>7. \A k \in Node \ {"up2"} : Same(k)
  BY <1>1, FilePairFacts, SendSame
<1>8. Receives("up2")' = 1 /\ AllPosted("up2", "file_mr")'
  <2>1. rcq' = rcq /\ AllPosted("up2", "file_mr")
    BY <1>1, <1>4, FilePairFacts, NoReceives DEF NoPoll
  <2> QED BY <1>1, <1>4, <2>1, FilePairFacts, PostCounts
<1>9. /\ Receives("file")' = Receives("file") /\ rq'["file"] = rq["file"] /\ up' = up
      /\ mem'["file"] = mem["file"] /\ Sends("file")' = Sends("file")
  <2>1. Same("file")
    BY <1>7, FilePairFacts
  <2> QED BY <1>1, <2>1 DEF Same, Receives, Sends, NoPoll
<1>10. MailOf("up2")'
  <2>1. RegionOf("up2")' = "file_mr"
    BY <1>1, FilePairFacts
  <2> QED BY <1>6, <1>8, <2>1, MailIdle
<1>11. MailOf("file")'
  <2>1. Expected("file", Sent("next"))'
    BY <1>1, <1>2, <1>3, ExpectedAt DEF ForFile
  <2>2. AllPosted("file", RegionOf("file"))'
    BY <1>9, FilePairFacts DEF MailOf, AllPosted
  <2>3. Idle(Peer["file"])'
    BY <1>6, FilePairFacts
  <2>4. Receives("file")' = 1 \/ Unready("file")'
    BY <1>4, <1>9, FilePairFacts
  <2> QED BY <1>6, <2>1, <2>2, <2>3, <2>4, MailQueued
<1>12. FilePosted'
  BY <1>1, <1>8, <1>9 DEF FilePair, FilePosted
<1>13. Fetching'
  BY <1>1, <1>2, <1>3, <1>4, <1>8, <1>9, PiecesKept DEF FilePair, Fetching, Starting
<1> QED BY <1>1, <1>7, <1>10, <1>11, <1>12, <1>13 DEF FilePair

LEMMA StepEnd ==
  ASSUME TypeOK, FilePair, ProxyEnd("return"),
         UNCHANGED <<signals, size, short, canOpen, pcF, pos, immP, pool, asked>>
  PROVE  /\ FilePair' /\ pcP = "chunk" /\ pcP' = "return" /\ Len(pool) = size
         /\ \A k \in Node : Same(k)
<1>1. /\ pcP = "chunk" /\ pcP' = "return" /\ immP = 0
      /\ UNCHANGED <<rq, sq, mem, up, scq, rcq, wire, lost>>
  BY DEF ProxyEnd, Moves, NoRecv, NoSend, NoPoll
<1>2. Len(pool) = size /\ pcF \in {"return", "closed"} /\ "file" \in asked
  BY <1>1 DEF FilePair, Fetching
<1>3. /\ Receives("up2")' = Receives("up2") /\ Receives("file")' = Receives("file")
      /\ Sends("file")' = Sends("file")
  BY <1>1 DEF Receives, Sends
<1>4. Idle("up2") /\ Idle("file")
  <2>1. (\A l : ~ Expected("up2", l)) /\ (\A l : ~ Expected("file", l))
    BY <1>1, ExpectedAt DEF ForUp2, ForFile
  <2> QED BY <2>1, Silent, FilePairFacts
<1>5. Idle("up2")' /\ Idle("file")'
  BY <1>1, <1>4, MailKept
<1>6. MailOf("up2")' /\ MailOf("file")'
  <2>1. rq'["up2"] = rq["up2"] /\ rq'["file"] = rq["file"]
    BY <1>1
  <2>2. RegionOf("up2")' = RegionOf("up2") /\ RegionOf("file")' = RegionOf("file")
    BY <1>1, FilePairFacts
  <2> QED BY <1>5, <2>1, <2>2, FilePairFacts, MailIdleKept
<1>7. FilePosted'
  BY <1>1, <1>3 DEF FilePair, FilePosted
<1>8. Fetching'
  BY <1>1, <1>2, <1>3, PiecesKept DEF FilePair, Fetching, Starting
<1>9. \A k \in Node : Same(k)
  BY <1>1 DEF Same
<1> QED BY <1>1, <1>2, <1>6, <1>7, <1>8, <1>9 DEF FilePair

\* The steps of the proxy, by the pair they act on.
LEMMA ProxyOfClient ==
  ASSUME IInv, ClientPair', \A k \in Node \ {"proxy"} : Same(k), PastMeta, PastFile,
         UNCHANGED <<signals, size, short, canOpen, pcF, pos, pcM, immP, content, pool, asked>>
  PROVE  ClientPair' /\ MetaPair' /\ FilePair'
<1>1. Same("up1") /\ Same("meta") /\ Same("up2") /\ Same("file")
  BY Constants
<1>2. MetaPair /\ FilePair
  BY DEF IInv
<1> QED BY <1>1, <1>2, MetaPairKept, FilePairKept

LEMMA ProxyOfMeta ==
  ASSUME IInv, MetaPair', \A k \in Node \ {"up1"} : Same(k), PastFile,
         pcP \in {"metaBegin", "metaAsk", "metaSent", "metaLoop"},
         pcP' \in {"metaAsk", "metaSent", "metaLoop", "metaGot"},
         UNCHANGED <<signals, size, short, canOpen, pcC, immC, dst, doneC, pcF, pos, immP, pool,
                     asked, sent>>
  PROVE  ClientPair' /\ MetaPair' /\ FilePair'
<1>1. Same("client") /\ Same("proxy") /\ Same("up2") /\ Same("file")
  BY Constants
<1>2. TypeOK /\ ClientPair /\ FilePair
  BY DEF IInv
<1>3. sent \in Nat /\ Len(dst) \in Nat
  BY <1>2, ClientPairFacts
<1>4. ClientPair'
  BY <1>1, <1>2, <1>3, ClientPairFar DEF Upstream
<1> QED BY <1>1, <1>2, <1>4, FilePairKept

LEMMA ProxyOfFile ==
  ASSUME IInv, FilePair', \A k \in Node \ {"up2"} : Same(k), PastMeta,
         pcP \in {"fileBegin", "fileAsk", "fileLoop", "chunk"},
         pcP' \in {"fileAsk", "fileLoop", "chunk", "return"},
         pcP' = "return" => Len(pool') = size,
         UNCHANGED <<signals, size, short, pcC, immC, dst, doneC, content, pcM, asked, sent>>
  PROVE  ClientPair' /\ MetaPair' /\ FilePair'
<1>1. Same("client") /\ Same("proxy") /\ Same("up1") /\ Same("meta")
  BY Constants
<1>2. TypeOK /\ ClientPair /\ MetaPair
  BY DEF IInv
<1>3. sent \in Nat /\ Len(dst) \in Nat
  BY <1>2, ClientPairFacts
<1>4. ClientPair'
  BY <1>1, <1>2, <1>3, ClientPairFar DEF Upstream
<1> QED BY <1>1, <1>2, <1>4, MetaPairKept

LEMMA ProxyStepKeeps ==
  ASSUME IInv, ProxyNext
  PROVE  ClientPair' /\ MetaPair' /\ FilePair'
<1>1. /\ TypeOK /\ ClientPair /\ MetaPair /\ FilePair /\ Ended
      /\ UNCHANGED <<signals, size, short, canOpen, pcC, immC, dst, doneC, pcF, pos, pcM>>
  BY DEF ProxyNext, IInv, runVars, clientVars, fileVars
<1>2. CASE /\ \/ ProxyPollA \/ ProxyMetaPoll \/ ProxyBegin \/ ProxyPollB \/ ProxyMetaLoop
              \/ ProxyAwaitBegin("up1", "metaBegin", "metaAsk")
              \/ ProxyAsk("up1", "metaAsk", "metaSent")
              \/ ProxyAwaitBegin("up2", "fileBegin", "fileAsk")
              \/ ProxyAsk("up2", "fileAsk", "fileLoop")
              \/ ProxyEnd("return") \/ ProxyReturn \/ ProxyWait \/ ProxyWaitRead \/ ProxyClose
           /\ UNCHANGED <<immP, content, pool, asked, sent>>
  <2>1. CASE ProxyPollA \/ ProxyPollB
    <3>1. /\ pcP \in {"pollA", "pollB"} /\ pcP' \in {"pollB", "fetch", "fail"}
          /\ \/ PollSend("proxy") /\ pcP = "pollA" /\ pcP' = "pollB"
             \/ PollSend("proxy") /\ pcP = "pollB" /\ pcP' = "fail"
             \/ PollRecv("proxy") /\ pcP = "pollA" /\ pcP' = "pollB"
             \/ PollRecv("proxy") /\ pcP = "pollB" /\ pcP' = "fetch"
      BY <2>1 DEF ProxyPollA, ProxyPollB, Moves, PollForSend
    <3>2. ClientPair' /\ \A k \in Node \ {"proxy"} : Same(k)
      BY <1>1, <1>2, <3>1, StepProxySendPolled, StepProxyRecv
    <3>3. PastMeta /\ PastFile
      BY <3>1 DEF PastMeta, PastFile
    <3> QED BY <1>1, <1>2, <3>2, <3>3, ProxyOfClient
  <2>2. CASE ProxyBegin
    <3>1. ClientPair' /\ \A k \in Node \ {"proxy"} : Same(k)
      BY <1>1, <1>2, <2>2, StepProxyBegin
    <3>2. PastMeta /\ PastFile
      BY <2>2 DEF ProxyBegin, Moves, PastMeta, PastFile
    <3> QED BY <1>1, <1>2, <3>1, <3>2, ProxyOfClient
  <2>3. CASE ProxyReturn \/ ProxyWaitRead
    <3>1. /\ ClientPair' /\ pcP \in Returns /\ pcP' \in Returns
          /\ \A k \in Node \ {"proxy"} : Same(k)
      BY <1>1, <1>2, <2>3, StepProxyReturn, StepProxyWaitRead
    <3>2. PastMeta /\ PastFile
      BY <3>1 DEF PastMeta, PastFile, AfterMeta, Returns
    <3> QED BY <1>1, <1>2, <3>1, <3>2, ProxyOfClient
  <2>4. CASE ProxyWait
    <3>1. CASE Moves(pcP, "wait", "wait") /\ PollSend("proxy")
      <4>1. ClientPair' /\ \A k \in Node \ {"proxy"} : Same(k)
        BY <1>1, <1>2, <3>1, ClientPairSendPolled DEF Moves
      <4>2. PastMeta /\ PastFile
        BY <3>1 DEF PastMeta, PastFile, Moves
      <4> QED BY <1>1, <1>2, <4>1, <4>2, ProxyOfClient
    <3>2. CASE Moves(pcP, "wait", "waitRead") /\ PollRecv("proxy")
      <4>1. ClientPair' /\ \A k \in Node \ {"proxy"} : Same(k)
        BY <1>1, <1>2, <3>2, StepProxyRecv DEF Moves
      <4>2. PastMeta /\ PastFile
        BY <3>2 DEF PastMeta, PastFile, Moves, AfterMeta, Returns
      <4> QED BY <1>1, <1>2, <4>1, <4>2, ProxyOfClient
    <3> QED BY <2>4, <3>1, <3>2 DEF ProxyWait, AwaitRecv
  <2>5. CASE ProxyClose
    <3>1. ClientPair' /\ \A k \in Node \ {"proxy"} : Same(k)
      BY <1>1, <1>2, <2>5, StepProxyClose
    <3>2. PastMeta /\ PastFile
      BY <2>5 DEF ProxyClose, Moves, PastMeta, PastFile, AfterMeta, Returns
    <3> QED BY <1>1, <1>2, <3>1, <3>2, ProxyOfClient
  <2>6. CASE \/ ProxyMetaPoll \/ ProxyMetaLoop \/ ProxyAwaitBegin("up1", "metaBegin", "metaAsk")
    <3>1. \/ /\ PollSend("up1") /\ pcP \in {"metaSent", "metaLoop"} /\ pcP' = "metaLoop"
          \/ /\ PollRecv("up1")
             /\ \/ pcP = "metaBegin" /\ pcP' = "metaAsk"
                \/ pcP = "metaSent" /\ pcP' = "metaLoop"
                \/ pcP = "metaLoop" /\ pcP' = "metaGot"
      BY <2>6 DEF ProxyMetaPoll, ProxyMetaLoop, ProxyAwaitBegin, AwaitRecv, PollForSend, Moves
    <3>2. MetaPair' /\ \A k \in Node \ {"up1"} : Same(k)
      BY <1>1, <1>2, <3>1, MetaPairSendPolled, StepUp1Recv
    <3>3. /\ pcP \in {"metaBegin", "metaSent", "metaLoop"}
          /\ pcP' \in {"metaAsk", "metaLoop", "metaGot"}
      BY <3>1
    <3>4. PastFile
      BY <3>3 DEF PastFile
    <3> QED BY <1>1, <1>2, <3>2, <3>3, <3>4, ProxyOfMeta
  <2>7. CASE ProxyAsk("up1", "metaAsk", "metaSent")
    <3>1. MetaPair' /\ pcP' = "metaSent" /\ \A k \in Node \ {"up1"} : Same(k)
      BY <1>1, <1>2, <2>7, StepMetaAsk
    <3>2. pcP = "metaAsk"
      BY <2>7 DEF ProxyAsk, Moves
    <3>3. PastFile
      BY <3>1, <3>2 DEF PastFile
    <3> QED BY <1>1, <1>2, <3>1, <3>2, <3>3, ProxyOfMeta
  <2>8. CASE ProxyAwaitBegin("up2", "fileBegin", "fileAsk")
    <3>1. FilePair' /\ pcP = "fileBegin" /\ pcP' = "fileAsk" /\ \A k \in Node \ {"up2"} : Same(k)
      BY <1>1, <1>2, <2>8, StepUp2Begin
    <3>2. PastMeta
      BY <3>1 DEF PastMeta
    <3> QED BY <1>1, <1>2, <3>1, <3>2, ProxyOfFile
  <2>9. CASE ProxyAsk("up2", "fileAsk", "fileLoop")
    <3>1. pcP = "fileAsk" /\ content = Text("request")
      BY <1>1, <2>9 DEF ProxyAsk, Moves, MetaPair, Looking
    <3>2. FilePair' /\ pcP' = "fileLoop" /\ \A k \in Node \ {"up2"} : Same(k)
      BY <1>1, <1>2, <2>9, <3>1, StepFileAsk
    <3>3. PastMeta
      BY <3>1, <3>2 DEF PastMeta, AfterMeta
    <3> QED BY <1>1, <1>2, <3>1, <3>2, <3>3, ProxyOfFile
  <2>10. CASE ProxyEnd("return")
    <3>1. /\ FilePair' /\ pcP = "chunk" /\ pcP' = "return" /\ Len(pool) = size
          /\ \A k \in Node : Same(k)
      BY <1>1, <1>2, <2>10, StepEnd
    <3>2. PastMeta /\ Len(pool') = size
      BY <1>2, <3>1 DEF PastMeta, AfterMeta
    <3> QED BY <1>1, <1>2, <3>1, <3>2, ProxyOfFile
  <2> QED BY <1>2, <2>1, <2>2, <2>3, <2>4, <2>5, <2>6, <2>7, <2>8, <2>9, <2>10
<1>3. CASE (ProxyFetch({"up1", "up2"}, "meta", "metaBegin") \/ ProxyMetaGot)
           /\ UNCHANGED <<immP, pool, sent>>
  BY <1>1, <1>3, StepFetch, StepMetaGot
<1>4. CASE ProxyLoop("up2") /\ UNCHANGED <<content, pool, asked, sent>>
  <2>1. pcP = "fileLoop" /\ pcP' \in {"fileLoop", "chunk"}
    BY <1>4 DEF ProxyLoop, Moves
  <2>2. FilePair' /\ \A k \in Node \ {"up2"} : Same(k)
    <3>1. CASE Moves(pcP, "fileLoop", "fileLoop") /\ PollSend("up2") /\ UNCHANGED immP
      BY <1>1, <1>4, <3>1, FilePairSendPolled DEF Moves
    <3>2. CASE /\ PollRecv("up2")
               /\ immP' = Head(rcq["up2"]).imm
               /\ Moves(pcP, "fileLoop",
                        IF Head(rcq["up2"]).op = "RECV_IMM" THEN "chunk" ELSE "fileLoop")
      BY <1>1, <1>4, <3>2, StepUp2Recv DEF Moves
    <3> QED BY <1>4, <3>1, <3>2 DEF ProxyLoop
  <2>3. PastMeta
    BY <2>1 DEF PastMeta, AfterMeta
  <2> QED BY <1>1, <1>4, <2>1, <2>2, <2>3, ProxyOfFile
<1>5. CASE ProxyChunk("up2") /\ UNCHANGED <<immP, content, asked, sent>>
  <2>1. FilePair' /\ pcP = "chunk" /\ pcP' = "fileLoop" /\ \A k \in Node \ {"up2"} : Same(k)
    BY <1>1, <1>5, StepChunk
  <2>2. PastMeta
    BY <2>1 DEF PastMeta, AfterMeta
  <2> QED BY <1>1, <1>5, <2>1, <2>2, ProxyOfFile
<1>6. CASE ProxyWrite /\ UNCHANGED <<immP, content, pool, asked>>
  <2>1. \A i \in 1..Len(pool) : pool[i] = Block(i)
    BY <1>1 DEF FilePair, Fetching
  <2>2. /\ ClientPair' /\ pcP \in Returns /\ pcP' \in Returns
        /\ \A k \in Node \ {"proxy"} : Same(k)
    BY <1>1, <1>6, <2>1, StepProxyWrite
  <2>3. PastMeta /\ PastFile
    BY <2>2 DEF PastMeta, PastFile, AfterMeta, Returns
  <2> QED BY <1>1, <1>6, <2>2, <2>3, ProxyOfClient
<1> QED BY <1>2, <1>3, <1>4, <1>5, <1>6 DEF ProxyNext

-----------------------------------------------------------------------------
(* The adapters, and the invariant as a whole. *)

\* While a process has a message in hand, nothing is on its way to it.
LEMMA ReaderIdle ==
  ASSUME ClientPair, MetaPair, FilePair
  PROVE  /\ pcC \in {"ask", "imm"} => Idle("client")
         /\ pcP \in {"fetch", "waitRead"} => Idle("proxy")
         /\ pcP \in {"metaAsk", "metaGot"} => Idle("up1")
         /\ pcM = "got" => Idle("meta")
         /\ pcP \in {"fileAsk", "chunk"} => Idle("up2")
         /\ pcF = "next" => Idle("file")
<1>1. ASSUME pcC \in {"ask", "imm"} PROVE Idle("client")
  BY <1>1, Silent, ExpectedAt DEF ForClient, ClientPair
<1>2. ASSUME pcP \in {"fetch", "waitRead"} PROVE Idle("proxy")
  BY <1>2, Silent, ExpectedAt DEF ForProxy, ClientPair
<1>3. ASSUME pcP \in {"metaAsk", "metaGot"} PROVE Idle("up1")
  BY <1>3, Silent, ExpectedAt DEF ForUp1, MetaPair
<1>4. ASSUME pcM = "got" PROVE Idle("meta")
  BY <1>4, Silent, ExpectedAt DEF ForMeta, MetaPair
<1>5. ASSUME pcP \in {"fileAsk", "chunk"} PROVE Idle("up2")
  BY <1>5, Silent, ExpectedAt DEF ForUp2, FilePair
<1>6. ASSUME pcF = "next" PROVE Idle("file")
  BY <1>6, Silent, ExpectedAt DEF ForFile, FilePair
<1> QED BY <1>1, <1>2, <1>3, <1>4, <1>5, <1>6

\* An adapter's step keeps what holds of the three pairs.
LEMMA NicKeepsPairs ==
  ASSUME IInv, NEW k \in Node, Nic(NicStep(k))
  PROVE  ClientPair' /\ MetaPair' /\ FilePair'
<1>1. /\ UNCHANGED <<signals, pause, size, short, canOpen, pcC, immC, dst, doneC, pcF, pos, pcP,
                     immP,
                     content, pool, asked, sent, pcM, swapped>>
      /\ NicStep(k) /\ TypeOK /\ VerbsTypeOK /\ Paired /\ ClientPair /\ MetaPair /\ FilePair
  BY Constants DEF Nic, runVars, clientVars, fileVars, proxyVars, handlerVars, IInv, TypeOK,
     HandlerTypeOK, EndsTypeOK
<1>2. \A n \in Node : /\ Receives(n)' = Receives(n) /\ Sends(n)' = Sends(n)
                      /\ Idle(n) => mem'[n] = mem[n]
  BY <1>1, NicKeeps DEF Idle
<1>3. up' = up
  BY <1>1, NicKeeps
<1>4. \A n \in Node : MailOf(n) => MailOf(n)'
  BY <1>1, MailNic
<1>5. ClientPair'
  <2>1. MailOf("client")' /\ MailOf("proxy")' /\ ClientPosted'
    BY <1>1, <1>2, <1>4, Constants DEF ClientPair, ClientPosted
  <2>2. Asking'
    <3>1. pcC = "ask" => mem'["client"] = mem["client"]
      BY <1>1, <1>2, ReaderIdle, Constants
    <3>2. pcP = "fetch" => mem'["proxy"] = mem["proxy"]
      BY <1>1, <1>2, ReaderIdle, Constants
    <3> QED BY <1>1, <1>2, <3>1, <3>2, Constants DEF ClientPair, Asking
  <2>3. Returning'
    <3>1. pcC = "imm" => mem'["client"] = mem["client"]
      BY <1>1, <1>2, ReaderIdle, Constants
    <3>2. pcP = "waitRead" => mem'["proxy"] = mem["proxy"]
      BY <1>1, <1>2, ReaderIdle, Constants
    <3> QED BY <1>1, <3>1, <3>2, PiecesKept DEF ClientPair, Returning
  <2> QED BY <2>1, <2>2, <2>3 DEF ClientPair
<1>6. MetaPair'
  <2>1. MailOf("up1")' /\ MailOf("meta")' /\ MetaPosted'
    BY <1>1, <1>2, <1>4, Constants DEF MetaPair, MetaPosted
  <2>2. pcP \in {"metaAsk", "metaGot"} => mem'["up1"] = mem["up1"]
    BY <1>1, <1>2, ReaderIdle, Constants
  <2>3. pcM = "got" => mem'["meta"] = mem["meta"]
    BY <1>1, <1>2, ReaderIdle, Constants
  <2>4. Looking'
    BY <1>1, <1>2, <2>2, <2>3, Constants DEF MetaPair, Looking, Starting
  <2> QED BY <2>1, <2>4 DEF MetaPair
<1>7. FilePair'
  <2>1. MailOf("up2")' /\ MailOf("file")' /\ FilePosted'
    BY <1>1, <1>2, <1>4, Constants DEF FilePair, FilePosted
  <2>2. pcP \in {"fileAsk", "chunk"} => mem'["up2"] = mem["up2"]
    BY <1>1, <1>2, ReaderIdle, Constants
  <2>3. pcF = "next" => mem'["file"] = mem["file"]
    BY <1>1, <1>2, ReaderIdle, Constants
  <2>4. Fetching'
    BY <1>1, <1>2, <1>3, <2>2, <2>3, Constants, PiecesKept DEF FilePair, Fetching, Starting
  <2> QED BY <2>1, <2>4 DEF FilePair
<1> QED BY <1>5, <1>6, <1>7

\* Which end points' regions a step can write to.
LEMMA ClientCalls ==
  ASSUME ClientNext
  PROVE  Answers("client") /\ UNCHANGED <<pool, size, short>>
BY DEF ClientNext, ClientStep, ClientBegin, ClientAsk, ClientPrepost, ClientRepost, ClientClose,
   ClientPoll, ClientSave, ClientSaveLast, NoSend, PollSend, PollRecv, CloseNode, Answers, runVars,
   proxyVars, handlerVars

LEMMA MetaCalls ==
  ASSUME MetaNext
  PROVE  Calls("meta") /\ UNCHANGED <<pool, size, short>>
<1>1. "msg_mr" \in Region
  BY Constants
<1> QED BY <1>1 DEF MetaNext, MetaBegin, MetaPollA, MetaLoop, MetaReply, Welcome, PollForSend,
        AwaitRecv, PollSend, PollRecv, Calls, runVars, proxyVars, handlerVars

LEMMA FileCalls ==
  ASSUME FileNextStep
  PROVE  Calls("file") /\ UNCHANGED <<pool, size, short>>
<1> USE Constants
<1>1. UNCHANGED <<pool, size, short>>
  BY DEF FileNextStep, runVars, proxyVars, handlerVars
<1>2. CASE FileBegin
  BY <1>1, <1>2 DEF FileBegin, Welcome, Calls
<1>3. CASE FileWrite
  BY <1>1, <1>3 DEF FileWrite, FileWrites, Calls
<1>4. CASE FileEnd
  BY <1>1, <1>4 DEF FileEnd, Calls
<1>5. CASE FileOpen
  BY <1>1, <1>5 DEF FileOpen, FileOpens, NoSend, Calls
<1>6. CASE FilePollA \/ FilePollB \/ FileWait \/ FileNext \/ FileClose
  BY <1>1, <1>6 DEF FilePollA, PollForSend, FilePollB, FileWait, AwaitRecv, FileNext, FileClose,
     NoSend, PollSend, PollRecv, CloseNode, Calls
<1> QED BY <1>2, <1>3, <1>4, <1>5, <1>6 DEF FileNextStep, FileStep

LEMMA ProxyCalls ==
  ASSUME ProxyNext
  PROVE  /\ UNCHANGED <<size, short>>
         /\ Calls("proxy") \/ Calls("up1") \/ Answers("up2")
         /\ pool' = pool \/ ProxyChunk("up2")
<1> USE Constants
<1>0. UNCHANGED <<size, short>>
  BY DEF ProxyNext, runVars
<1>1. pool' = pool \/ ProxyChunk("up2")
  BY DEF ProxyNext
<1>2. CASE ProxyBegin
  BY <1>0, <1>1, <1>2 DEF ProxyBegin, Welcome, Calls
<1>3. CASE ProxyAsk("up1", "metaAsk", "metaSent")
  BY <1>0, <1>1, <1>3 DEF ProxyAsk, NoSend, Calls
<1>4. CASE ProxyAsk("up2", "fileAsk", "fileLoop")
  BY <1>0, <1>1, <1>4 DEF ProxyAsk, NoSend, Answers
<1>5. CASE ProxyChunk("up2")
  BY <1>0, <1>1, <1>5 DEF ProxyChunk, ProxyKeeps, Answers
<1>6. CASE ProxyWrite
  BY <1>0, <1>1, <1>6 DEF ProxyWrite, ProxyWrites, Calls
<1>7. CASE \/ ProxyPollA \/ ProxyMetaPoll \/ ProxyPollB \/ ProxyMetaLoop
           \/ ProxyAwaitBegin("up1", "metaBegin", "metaAsk")
           \/ ProxyAwaitBegin("up2", "fileBegin", "fileAsk") \/ ProxyWait \/ ProxyLoop("up2")
  BY <1>0, <1>1, <1>7 DEF ProxyPollA, ProxyMetaPoll, ProxyPollB, ProxyMetaLoop, ProxyAwaitBegin,
     ProxyWait, ProxyLoop, PollForSend, AwaitRecv, PollSend, PollRecv, Calls
<1>8. CASE \/ ProxyEnd("return") \/ ProxyReturn \/ ProxyWaitRead \/ ProxyClose \/ ProxyMetaGot
           \/ ProxyFetch({"up1", "up2"}, "meta", "metaBegin")
  BY <1>0, <1>1, <1>8 DEF ProxyEnd, ProxyReturn, ProxyWaitRead, ProxyClose, ProxyMetaGot,
     ProxyFetch, NoSend, CloseNode, Calls
<1> QED BY <1>2, <1>3, <1>4, <1>5, <1>6, <1>7, <1>8 DEF ProxyNext

LEMMA EndedStep ==
  ASSUME IInv, [Next]_vars
  PROVE  Ended'
<1>0. /\ TypeOK /\ VerbsTypeOK /\ Paired /\ FilePair /\ EndsHeld
      /\ short => EndKept("up2", Len(pool), size)
      /\ "client" \in Node \ {"up2"} /\ "proxy" \in Node \ {"up2"} /\ "up1" \in Node \ {"up2"}
      /\ "meta" \in Node \ {"up2"} /\ "file" \in Node \ {"up2"} /\ "up2" \in Node
  BY FilePairFacts, Constants DEF IInv, Ended
<1>1. ASSUME UNCHANGED <<pool, size, short>>, EndsHeld',
             mem'["up2"]["file_end"] = mem["up2"]["file_end"]
      PROVE  Ended'
  BY <1>0, <1>1 DEF Ended, EndKept
<1>2. CASE ClientNext \/ MetaNext \/ FileNextStep
  <2>1. UNCHANGED <<pool, size, short>> /\ (Answers("client") \/ Calls("meta") \/ Calls("file"))
    BY <1>2, ClientCalls, MetaCalls, FileCalls
  <2>2. EndsHeld' /\ mem'["up2"] = mem["up2"]
    BY <1>0, <2>1, CallsMem, AnswersMem
  <2> QED BY <1>1, <2>1, <2>2
<1>3. CASE ProxyNext
  <2>1. /\ UNCHANGED <<size, short>>
        /\ EndsHeld' /\ mem'["up2"]["file_end"] = mem["up2"]["file_end"]
    BY <1>0, <1>3, ProxyCalls, CallsMem, AnswersMem
  <2>2. CASE pool' = pool
    BY <1>1, <2>1, <2>2
  <2>3. CASE ProxyChunk("up2")
    <3>1. /\ pcP = "chunk" /\ immP # 0 /\ pool' = Append(pool, FileBlock("up2"))
          /\ mem["up2"]["file_mr"] = Piece(pos) /\ pos = Len(pool) + 1
      BY <1>0, <2>3 DEF ProxyChunk, ProxyKeeps, Moves, FilePair, Fetching
    <3>2. Len(pool') = Len(pool) + 1 /\ Len(pool) \in Nat /\ size \in Nat /\ pos <= size
      BY <1>0, <3>1, FilePairFacts, FileBlockType, AppendFacts
    <3>3. ASSUME short, pos # size
          PROVE  mem["up2"]["file_end"].tail = pos
      <4>1. Piece(pos) = Chunk(pos)
        BY <3>3 DEF Piece
      <4>2. mem["up2"]["file_end"] = Chunk(pos)
        BY <1>0, <3>1, <4>1 DEF EndsHeld, Chunk
      <4> QED BY <4>2 DEF Chunk
    <3>4. ASSUME short, pos = size
          PROVE  mem["up2"]["file_end"].tail = size - 1
      BY <1>0, <3>1, <3>4, EndTail DEF IInv
    <3>5. short => EndKept("up2", Len(pool'), size)
      BY <3>1, <3>2, <3>3, <3>4 DEF EndKept
    <3> QED BY <2>1, <3>5 DEF Ended, EndKept
  <2> QED BY <1>3, <2>2, <2>3, ProxyCalls
<1>4. ASSUME NEW k \in Node, Nic(NicStep(k)) PROVE Ended'
  <2>1. NicStep(k) /\ UNCHANGED <<pool, size, short>>
    BY <1>4 DEF Nic, runVars, proxyVars, handlerVars
  <2>2. EndsHeld'
    BY <1>0, <2>1, NicEnds
  <2>3. CASE Idle("up2")
    <3>1. mem'["up2"] = mem["up2"]
      BY <1>0, <2>1, <2>3, NicKeeps DEF Idle
    <3> QED BY <1>1, <2>1, <2>2, <3>1
  <2>4. CASE ~ Idle("up2")
    <3>1. PICK r : r = RegionOf("up2")
      OBVIOUS
    <3>2. PICK l \in Letters : Expected("up2", l) /\ InFlight("up2", r, l)
      BY <1>0, <2>4, <3>1 DEF FilePair, MailOf
    <3>3. l \in Message
      BY <1>0, <3>2, LettersTyped
    <3>4. CASE mem'["up2"]["file_end"] = mem["up2"]["file_end"]
      BY <1>1, <2>1, <2>2, <3>4
    <3>5. CASE l.data.kind = "chunk" /\ mem'["up2"]["file_end"] = l.data
      <4>1. l = Written(Piece(pos), 1) /\ pos = Len(pool) + 1
        BY <3>2, <3>5, ExpectedAt DEF ForUp2, Sent, EmptyWrite, Nothing, Text
      <4>2. Piece(pos).kind = "chunk" /\ mem'["up2"]["file_end"] = Piece(pos)
        BY <3>5, <4>1 DEF Written
      <4>3. ASSUME short PROVE mem'["up2"]["file_end"].tail = pos /\ pos < size
        <5>1. pos # size
          BY <4>2, <4>3 DEF Piece, Short
        <5> QED BY <1>0, <4>2, <5>1, FilePairFacts DEF Piece, Chunk
      <4>4. ASSUME short PROVE EndKept("up2", Len(pool), size)'
        BY <1>0, <2>1, <4>1, <4>3, <4>4, FilePairFacts DEF EndKept
      <4> QED BY <2>1, <2>2, <4>4 DEF Ended
    <3> QED BY <1>0, <2>1, <3>2, <3>3, <3>4, <3>5, NicEnd
  <2> QED BY <2>3, <2>4
<1>5. CASE UNCHANGED vars
  BY <1>0, <1>5 DEF vars, endsVars, runVars, proxyVars, handlerVars, verbsVars, Ended, EndsHeld,
     EndKept
<1> QED BY <1>2, <1>3, <1>4, <1>5 DEF Next

LEMMA InitIInv == Init => IInv
<1> SUFFICES ASSUME Init PROVE IInv
  OBVIOUS
<1>1. TypeOK
  BY TypeInit
<1>2. /\ \A n \in Node : sq[n] = <<>> /\ wire[n] = <<>> /\ rcq[n] = <<>> /\ scq[n] = 0
      /\ rq["client"] = <<"recv_mr">> /\ \A n \in Node \ {"client"} : rq[n] = <<>>
      /\ pcC = "begin" /\ dst = <<>> /\ doneC = FALSE /\ pcF = "idle" /\ pos = 0
      /\ pcP = "begin" /\ pool = <<>> /\ asked = {} /\ sent = 0 /\ pcM = "idle"
      /\ size \in Nat /\ (short => size > 0)
  BY Constants DEF Init, HandlerInit, EndsInit, VerbsInit
<1>11. Ended
  <2>1. (\A n \in Node : mem[n]["file_mr"] = Nothing) /\ mem["up2"]["file_end"].tail = 0
    BY Constants DEF Init, HandlerInit, EndsInit, VerbsInit, Part, Region, Nothing, Text
  <2>2. EndsHeld
    BY <2>1 DEF EndsHeld, Nothing, Text
  <2> QED BY <1>2, <2>1, <2>2 DEF Ended, EndKept
<1>3. \A n \in Node : Idle(n) /\ Sends(n) = 0
  BY <1>2, Constants DEF Idle, Sends, Paired
<1>4. /\ Receives("client") = 1 /\ AllPosted("client", "recv_mr")
      /\ \A n \in Node \ {"client"} : Receives(n) = 0 /\ \A r : AllPosted(n, r)
  <2>1. Receives("client") = 1 /\ AllPosted("client", "recv_mr")
    <3>1. /\ rq["client"][1] = "recv_mr" /\ Len(rq["client"]) = 1 /\ Len(rcq["client"]) = 0
      BY <1>2, Constants
    <3> QED BY <3>1 DEF Receives, AllPosted
  <2>2. ASSUME NEW n \in Node \ {"client"} PROVE Receives(n) = 0 /\ \A r : AllPosted(n, r)
    <3>1. rq[n] = <<>> /\ rcq[n] = <<>>
      BY <1>2
    <3>2. Len(rq[n]) = 0 /\ Len(rcq[n]) = 0
      BY <3>1
    <3> QED BY <3>2 DEF Receives, AllPosted
  <2> QED BY <2>1, <2>2
<1>5. RegionOf("client") = "recv_mr"
  BY <1>2 DEF RegionOf
<1>6. \A n \in Node : MailOf(n)
  <2> SUFFICES ASSUME NEW n \in Node PROVE MailOf(n)
    OBVIOUS
  <2>1. AllPosted(n, RegionOf(n))
    <3>1. CASE n = "client"
      BY <1>4, <1>5, <3>1
    <3>2. CASE n # "client"
      BY <1>4, <3>2
    <3> QED BY <3>1, <3>2
  <2> QED BY <1>3, <2>1 DEF MailOf
<1>7. ClientPosted /\ MetaPosted /\ FilePosted
  BY <1>2, <1>4, Constants DEF ClientPosted, MetaPosted, FilePosted
<1>8. Asking /\ Looking
  BY <1>2, <1>3, <1>4, Constants DEF Asking, Looking, Starting
<1>9. Returning
  BY <1>2 DEF Returning
<1>10. Fetching
  BY <1>2, <1>3, Constants DEF Fetching, Starting
<1> QED BY <1>1, <1>6, <1>7, <1>8, <1>9, <1>10, <1>11, Constants DEF IInv, ClientPair, MetaPair,
       FilePair

LEMMA IInvStep ==
  ASSUME IInv, [Next]_vars
  PROVE  IInv'
<1>1. TypeOK /\ ClientPair /\ MetaPair /\ FilePair
  BY DEF IInv
<1>2. TypeOK' /\ Ended'
  <2>1. pcP = "write" => sent < Len(pool)
    BY <1>1 DEF ClientPair, Returning
  <2> QED BY <1>1, <2>1, TypeStep, EndedStep
<1>3. CASE ClientNext \/ ProxyNext \/ MetaNext \/ FileNextStep
  <2>1. ClientPair' /\ MetaPair' /\ FilePair'
    BY <1>1, <1>3, ClientKeeps, ProxyStepKeeps, MetaKeeps, FileKeeps DEF IInv
  <2> QED BY <1>2, <2>1 DEF IInv
<1>4. ASSUME NEW n \in Node, Nic(NicStep(n)) PROVE IInv'
  BY <1>2, <1>4, NicKeepsPairs DEF IInv
<1>5. CASE UNCHANGED vars
  <2>1. /\ UNCHANGED <<signals, pause, size, short, canOpen, pcC, immC, dst, doneC, pcF, pos, pcP,
                       immP,
                       content, pool, asked, sent, pcM, swapped>>
        /\ UNCHANGED <<up, sq, scq, rq, rcq, mem, wire>>
    BY <1>5 DEF vars, endsVars, verbsVars, runVars, clientVars, fileVars, proxyVars, handlerVars
  <2>2. \A n : Same(n)
    BY <2>1 DEF Same
  <2>3. ClientPair'
    BY <1>1, <2>1, <2>2, ClientPairSame
  <2>4. MetaPair'
    BY <1>1, <2>1, <2>2, MetaPairKept DEF PastMeta
  <2>5. FilePair'
    BY <1>1, <2>1, <2>2, FilePairKept DEF PastFile
  <2> QED BY <1>2, <2>3, <2>4, <2>5 DEF IInv
<1> QED BY <1>3, <1>4, <1>5 DEF Next

\* Every variable of the read keeps its type: in particular the file server never
\* reads past the end of its file, and the proxy never past the end of its pool.
THEOREM TypeCorrect == Spec => []TypeOK
<1>1. Init => IInv
  BY InitIInv
<1>2. IInv /\ [Next]_vars => IInv'
  BY IInvStep
<1>3. IInv => TypeOK
  BY DEF IInv
<1> QED BY <1>1, <1>2, <1>3, PTL DEF Spec

\* IInv is inductive, so every state of the read satisfies it.
THEOREM Invariance == Spec => []IInv
<1>1. Init => IInv
  BY InitIInv
<1>2. IInv /\ [Next]_vars => IInv'
  BY IInvStep
<1> QED BY <1>1, <1>2, PTL DEF Spec

-----------------------------------------------------------------------------
(* The safety properties and the refinement. *)

\* A message that arrives is the only one of its pair, and its receive is posted.
LEMMA ArrivesReady ==
  ASSUME NEW n, MailOf(n), ~ Unready(n)
  PROVE  Ready(n)
<1> SUFFICES ASSUME wire[n] # <<>> PROVE rq[n] # <<>>
  BY DEF Ready
<1>1. ~ Idle(n)
  BY DEF Idle
<1>2. Receives(n) = 1
  BY <1>1 DEF MailOf
<1>3. rcq[n] = <<>>
  BY <1>1 DEF MailOf, InFlight, IsQueued, IsOnWire, IsReceived
<1> QED BY <1>2, <1>3, StillPosted

\* A message of a read is dropped for want of a receive in two windows of the client
\* only: before it has posted the receive for the first block, and, if it sends NEXT,
\* between a NEXT and the receive for the block that the NEXT asks for.
THEOREM DropsCorrect == Spec => []DropsOnlyAtClient
<1>1. ASSUME IInv, NEW n \in Node
      PROVE  Ready(n) \/ (n = "client" /\ (pcC = "prepost" \/ (pcC = "repost" /\ signals)))
  <2>1. MailOf(n) /\ TypeOK
    BY <1>1, Constants DEF IInv, ClientPair, MetaPair, FilePair
  <2>2. CASE n = "file" /\ pcF = "closed"
    <3>1. ~ up["file"]
      BY <1>1, <2>2 DEF IInv, FilePair, Fetching
    <3> QED BY <2>2, <3>1 DEF Ready
  <2>3. CASE ~ Unready(n)
    BY <2>1, <2>3, ArrivesReady
  <2>4. CASE n = "client" /\ pcC = "repost" /\ ~ signals
    <3>1. ~ (sent > 1) /\ Len(dst) > 0 /\ sent \in Nat /\ Len(dst) \in Nat
      BY <1>1, <2>1, <2>4, ClientPairFacts DEF IInv, ClientPair, Returning
    <3>2. \A l : ~ Expected("client", l)
      BY <2>4, <3>1, ExpectedAt DEF ForClient
    <3>3. wire["client"] = <<>>
      BY <2>1, <2>4, <3>2, Silent DEF Idle
    <3> QED BY <2>4, <3>3 DEF Ready
  <2> QED BY <2>2, <2>3, <2>4 DEF Unready
<1>2. IInv => DropsOnlyAtClient
  BY <1>1 DEF DropsOnlyAtClient
<1> QED BY <1>2, Invariance, PTL

\* Nothing reaches the client's file before the proxy holds a block for each chunk of
\* the file, in the file's order: the chunk, but for a short last one, which the end of
\* the chunk before it follows.
THEOREM RelayedCorrect == Spec => []RelayedWhole
<1>1. IInv => RelayedWhole
  <2> SUFFICES ASSUME IInv, dst # <<>> PROVE pool = Blocks
    BY DEF RelayedWhole
  <2>1. dst \in Seq(Payload) /\ pool \in Seq(Payload) /\ sent \in Nat /\ Len(dst) <= sent
    BY Constants DEF IInv, TypeOK, HandlerTypeOK, EndsTypeOK, ClientPair, Returning
  <2>2. Len(dst) # 0
    BY <2>1, EmptyFacts
  <2>3. sent # 0
    BY <2>1, <2>2
  <2>4. Len(pool) = size /\ \A i \in 1..Len(pool) : pool[i] = Block(i)
    BY <2>3 DEF IInv, ClientPair, Returning, FilePair, Fetching
  <2> QED BY <2>1, <2>4 DEF Blocks
<1> QED BY <1>1, Invariance, PTL

\* The blocks that the copy is to consist of.
LEMMA WholeFile ==
  ASSUME TypeOK
  PROVE  /\ Len(Blocks) = size /\ \A i \in 1..size : Blocks[i] = Block(i)
         /\ UNCHANGED <<size, short>> => Blocks' = Blocks
BY Constants DEF TypeOK, HandlerTypeOK, EndsTypeOK, Blocks, Block

LEMMA TransferStep ==
  ASSUME IInv, [Next]_vars
  PROVE  [Transfer!Next]_(Transfer!vars)
<1>0. /\ TypeOK /\ ClientPair /\ sent \in Nat /\ size \in Nat /\ Len(dst) \in Nat
      /\ Len(Blocks) = size /\ \A i \in 1..size : Blocks[i] = Block(i)
      /\ UNCHANGED <<size, short>> => Blocks' = Blocks
  BY WholeFile, ClientPairFacts DEF IInv
<1>1. CASE (ClientSave \/ ClientSaveLast) /\ UNCHANGED runVars
  <2>1. /\ pcC = "imm" /\ pcC' # "closed" /\ SaveChunk /\ UNCHANGED <<size, short>>
        /\ Len(dst) + 1 = sent /\ sent <= size
    BY <1>0, <1>1 DEF ClientSave, ClientSaveLast, Moves, ClientPair, Returning, runVars
  <2>2. dst' = Append(dst, Block(sent))
    BY <1>0, <2>1, ChunkSaved
  <2>3. dst' = Append(dst, Blocks[Len(dst) + 1]) /\ Len(dst) < size
    BY <1>0, <2>1, <2>2
  <2>4. ~ (doneC /\ pcC = "closed") /\ ~ (doneC /\ pcC = "closed")'
    BY <2>1
  <2> QED BY <1>0, <2>1, <2>3, <2>4 DEF Transfer!Next, Transfer!Save
<1>2. CASE ClientClose /\ UNCHANGED <<dst, doneC, size, short>>
  <2>1. pcC = "close" /\ pcC' = "closed"
    BY <1>2 DEF ClientClose, Moves
  <2>2. doneC /\ Len(dst) = size
    BY <1>0, <2>1 DEF ClientPair, Returning
  <2> QED BY <1>0, <1>2, <2>1, <2>2 DEF Transfer!Next, Transfer!Acknowledge
<1>3. CASE UNCHANGED <<dst, doneC, size, short>> /\ pcC # "closed" /\ pcC' # "closed"
  BY <1>0, <1>3 DEF Transfer!vars
<1>4. CASE UNCHANGED <<dst, doneC, size, short, pcC>>
  BY <1>0, <1>4 DEF Transfer!vars
<1>5. CASE ClientNext
  <2>1. CASE ClientBegin \/ ClientAsk \/ ClientPrepost \/ ClientRepost \/ ClientPoll
    BY <1>3, <1>5, <2>1 DEF ClientNext, ClientStep, ClientBegin, ClientAsk, ClientPrepost,
       ClientRepost, ClientPoll, ClientSave, ClientSaveLast, ClientClose, Moves, runVars
  <2> QED BY <1>1, <1>2, <1>5, <2>1 DEF ClientNext, ClientStep, ClientSave, ClientSaveLast,
          ClientClose, Moves, runVars
<1>6. CASE ProxyNext \/ MetaNext \/ FileNextStep
  BY <1>4, <1>6 DEF ProxyNext, MetaNext, FileNextStep, runVars, clientVars
<1>7. ASSUME NEW n \in Node, Nic(NicStep(n)) PROVE UNCHANGED <<dst, doneC, size, short, pcC>>
  BY <1>7 DEF Nic, runVars, clientVars
<1>8. CASE UNCHANGED vars
  BY <1>4, <1>8 DEF vars, endsVars, runVars, clientVars
<1> QED BY <1>4, <1>5, <1>6, <1>7, <1>8 DEF Next

\* The read through the proxy implements the abstract transfer of the file's blocks:
\* the client saves them in order, each once, and reports the file done only when its
\* copy has them all, whatever is lost.  They are the chunks of the file, but that a
\* short last one is followed by the end of the one before.
THEOREM Implements == Spec => TransferSpec
<1>1. Init => Transfer!Init
  BY Constants DEF Init, HandlerInit, EndsInit, Transfer!Init
<1>2. IInv /\ [Next]_vars => [Transfer!Next]_(Transfer!vars)
  BY TransferStep
<1> QED BY <1>1, <1>2, Invariance, PTL DEF Spec, TransferSpec, Transfer!Spec

\* When a process is about to post a message, nothing is on its way to its peer, and
\* so none of its own sends is still queued.
LEMMA PosterIdle ==
  ASSUME ClientPair, MetaPair, FilePair
  PROVE  /\ pcC \in {"ask", "imm"} => Idle("proxy")
         /\ pcP \in {"begin", "write"} => Idle("client")
         /\ pcP = "metaAsk" => Idle("meta")
         /\ pcP \in {"fileAsk", "chunk"} => Idle("file")
         /\ pcM \in {"idle", "got"} => Idle("up1")
         /\ pcF \in {"idle", "open", "read"} => Idle("up2")
<1>1. ASSUME pcC \in {"ask", "imm"} PROVE Idle("proxy")
  BY <1>1, Silent, ExpectedAt DEF ForProxy, ClientPair
<1>2. ASSUME pcP \in {"begin", "write"} PROVE Idle("client")
  BY <1>2, Silent, ExpectedAt DEF ForClient, ClientPair
<1>3. ASSUME pcP = "metaAsk" PROVE Idle("meta")
  BY <1>3, Silent, ExpectedAt DEF ForMeta, MetaPair
<1>4. ASSUME pcP \in {"fileAsk", "chunk"} PROVE Idle("file")
  <2>1. pcP = "fileAsk" => pcF # "wait" /\ pcF # "fail" /\ pcF # "closed"
    BY <1>4 DEF FilePair, Fetching
  <2> QED BY <1>4, <2>1, Silent, ExpectedAt DEF ForFile, FilePair
<1>5. ASSUME pcM \in {"idle", "got"} PROVE Idle("up1")
  BY <1>5, Silent, ExpectedAt DEF ForUp1, MetaPair
<1>6. ASSUME pcF \in {"idle", "open", "read"} PROVE Idle("up2")
  BY <1>6, Silent, ExpectedAt DEF ForUp2, FilePair
<1> QED BY <1>1, <1>2, <1>3, <1>4, <1>5, <1>6

\* What the step of a process can do to memory: it may post one message, from an end
\* point none of whose sends is queued; and the region is msg_mr or, for a chunk, the
\* file_mr of the end point that sends it.
Posts(n, r) == sq[n] = <<>> /\ \E p, w : Post(n, r, p, w)

LEMMA ProcessMemory ==
  ASSUME IInv, ClientNext \/ ProxyNext \/ MetaNext \/ FileNextStep
  PROVE  \/ mem' = mem
         \/ \E n \in Node : Posts(n, "msg_mr")
         \/ Posts("proxy", "file_mr") /\ pcP = "write"
         \/ Posts("file", "file_mr")
<1> DEFINE Still == mem' = mem
           Noted == \E n \in Node : Posts(n, "msg_mr")
<1>0. /\ ClientPair /\ MetaPair /\ FilePair
      /\ "client" \in Node /\ "proxy" \in Node /\ "up1" \in Node
      /\ "meta" \in Node /\ "up2" \in Node /\ "file" \in Node
  BY Constants DEF IInv
<1>1. /\ pcC \in {"ask", "imm"} => sq["client"] = <<>>
      /\ pcP \in {"begin", "write"} => sq["proxy"] = <<>>
      /\ pcP = "metaAsk" => sq["up1"] = <<>>
      /\ pcP \in {"fileAsk", "chunk"} => sq["up2"] = <<>>
      /\ pcM \in {"idle", "got"} => sq["meta"] = <<>>
      /\ pcF \in {"idle", "open", "read"} => sq["file"] = <<>>
  BY <1>0, PosterIdle, Constants DEF Idle
<1>2. CASE ClientNext
  <2>1. CASE ClientAsk
    BY <1>0, <1>1, <2>1 DEF ClientAsk, Moves, NoSend, PostSend, Posts
  <2>2. CASE ClientSave
    BY <1>0, <1>1, <2>2 DEF ClientSave, Moves, NoSend, PostSend, Posts
  <2>3. CASE \/ ClientBegin \/ ClientPrepost \/ ClientRepost \/ ClientClose \/ ClientPoll
             \/ ClientSaveLast
    BY <2>3 DEF ClientBegin, ClientPrepost, ClientRepost, ClientClose, ClientPoll, ClientSaveLast,
       NoSend,
                PollSend, PollRecv, CloseNode
  <2> QED BY <1>2, <2>1, <2>2, <2>3 DEF ClientNext, ClientStep
<1>3. CASE MetaNext
  <2>1. CASE MetaBegin
    BY <1>0, <1>1, <2>1 DEF MetaBegin, Moves, Welcome, PostSend, Posts
  <2>2. CASE MetaReply
    BY <1>0, <1>1, <2>2 DEF MetaReply, Moves, PostSend, Posts
  <2>3. CASE MetaPollA \/ MetaLoop
    BY <2>3 DEF MetaPollA, MetaLoop, PollForSend, AwaitRecv, PollSend, PollRecv
  <2> QED BY <1>3, <2>1, <2>2, <2>3 DEF MetaNext
<1>4. CASE FileNextStep
  <2>1. CASE FileBegin
    BY <1>0, <1>1, <2>1 DEF FileBegin, Moves, Welcome, PostSend, Posts
  <2>2. CASE FileOpen
    BY <1>0, <1>1, <2>2 DEF FileOpen, FileOpens, Moves, NoSend, PostSend, Posts
  <2>3. CASE FileWrite
    BY <1>0, <1>1, <2>3 DEF FileWrite, FileWrites, Moves, PostWrite, Posts
  <2>4. CASE FileEnd
    BY <1>0, <1>1, <2>4 DEF FileEnd, Moves, PostEmptyWrite, Posts
  <2>5. CASE FilePollA \/ FilePollB \/ FileWait \/ FileNext \/ FileClose
    BY <2>5 DEF FilePollA, FilePollB, FileWait, FileNext, FileClose, PollForSend, AwaitRecv,
                PollSend, PollRecv, CloseNode, NoSend
  <2> QED BY <1>4, <2>1, <2>2, <2>3, <2>4, <2>5 DEF FileNextStep, FileStep
<1>5. CASE ProxyNext
  <2>1. CASE ProxyBegin
    BY <1>0, <1>1, <2>1 DEF ProxyBegin, Moves, Welcome, PostSend, Posts
  <2>2. CASE ProxyAsk("up1", "metaAsk", "metaSent")
    BY <1>0, <1>1, <2>2 DEF ProxyAsk, Moves, NoSend, PostSend, Posts
  <2>3. CASE ProxyAsk("up2", "fileAsk", "fileLoop")
    BY <1>0, <1>1, <2>3 DEF ProxyAsk, Moves, NoSend, PostSend, Posts
  <2>4. CASE ProxyChunk("up2")
    BY <1>0, <1>1, <2>4 DEF ProxyChunk, ProxyKeeps, Moves, PostSend, Posts
  <2>5. CASE ProxyWrite
    BY <1>0, <1>1, <2>5 DEF ProxyWrite, ProxyWrites, Moves, PostWrite, Posts
  <2>6. CASE \/ ProxyPollA \/ ProxyMetaPoll \/ ProxyPollB \/ ProxyMetaLoop
             \/ ProxyAwaitBegin("up1", "metaBegin", "metaAsk")
             \/ ProxyAwaitBegin("up2", "fileBegin", "fileAsk") \/ ProxyWait \/ ProxyLoop("up2")
    BY <2>6 DEF ProxyPollA, ProxyMetaPoll, ProxyPollB, ProxyMetaLoop, ProxyAwaitBegin, ProxyWait,
                ProxyLoop, PollForSend, AwaitRecv, PollSend, PollRecv
  <2>7. CASE \/ ProxyEnd("return") \/ ProxyReturn \/ ProxyWaitRead \/ ProxyClose \/ ProxyMetaGot
             \/ ProxyFetch({"up1", "up2"}, "meta", "metaBegin")
    BY <2>7 DEF ProxyEnd, ProxyReturn, ProxyWaitRead, ProxyClose, ProxyMetaGot, ProxyFetch,
                NoSend, CloseNode
  <2> QED BY <1>5, <2>1, <2>2, <2>3, <2>4, <2>5, <2>6, <2>7 DEF ProxyNext
<1> QED BY <1>2, <1>3, <1>4, <1>5

\* A region of the peer's message that a process is about to read, or has just read.
Steady ==
  /\ pcC = "imm" => mem'["client"]["file_mr"] = mem["client"]["file_mr"]
  /\ pcC = "imm" => mem'["client"]["file_end"] = mem["client"]["file_end"]
  /\ pcP = "fetch" => (mem'["proxy"]["file_mr"] = mem["proxy"]["file_mr"])
  /\ pcP = "waitRead" => (mem'["proxy"]["recv_mr"] = mem["proxy"]["recv_mr"])
  /\ pcP = "metaGot" => (mem'["up1"]["file_mr"] = mem["up1"]["file_mr"])
  /\ pcP = "chunk" => (mem'["up2"]["file_mr"] = mem["up2"]["file_mr"])
  /\ pcP = "chunk" => (mem'["up2"]["file_end"] = mem["up2"]["file_end"])
  /\ pcM = "got" => (mem'["meta"]["file_mr"] = mem["meta"]["file_mr"])
  /\ pcF = "next" => (mem'["file"]["recv_mr"] = mem["file"]["recv_mr"])
  /\ \A n \in Node : SendBufferHeld(n)

LEMMA BufferStep ==
  ASSUME IInv, [Next]_vars
  PROVE  Steady
<1>0. /\ TypeOK /\ VerbsTypeOK /\ ClientPair /\ MetaPair /\ FilePair
      /\ Region = {"msg_mr", "recv_mr", "file_mr"}
  BY DEF IInv, TypeOK, HandlerTypeOK, EndsTypeOK, Region
<1>1. ASSUME mem' = mem PROVE Steady
  BY <1>1 DEF SendBufferHeld, Steady
<1>2. ASSUME NEW n \in Node, NEW r \in Region, Posts(n, r),
             r = "msg_mr" \/ (n = "proxy" /\ r = "file_mr" /\ pcP = "write")
             \/ (n = "file" /\ r = "file_mr")
      PROVE  Steady
  <2>1. /\ \A k \in Node \ {n} : mem'[k] = mem[k]
        /\ \A x \in Region \ {r} : mem'[n][x] = mem[n][x]
        /\ r # "file_mr" => mem'[n]["file_end"] = mem[n]["file_end"]
    BY <1>0, <1>2, PostKeeps DEF Posts
  <2>2. \A k \in Node : SendBufferHeld(k)
    BY <1>2, <2>1 DEF SendBufferHeld, Posts
  <2>3. /\ \A k \in Node : mem'[k]["recv_mr"] = mem[k]["recv_mr"]
        /\ \A k \in Node : mem'[k]["file_mr"] # mem[k]["file_mr"] =>
             k = "file" \/ (k = "proxy" /\ pcP = "write")
    BY <1>0, <1>2, <2>1
  <2>4. /\ mem'["client"]["file_end"] = mem["client"]["file_end"]
        /\ mem'["up2"]["file_end"] = mem["up2"]["file_end"]
    BY <1>2, <2>1, Constants
  <2> QED BY <2>2, <2>3, <2>4, Constants DEF Steady
<1>3. CASE ClientNext \/ ProxyNext \/ MetaNext \/ FileNextStep
  BY <1>0, <1>1, <1>2, <1>3, ProcessMemory, Constants
<1>4. ASSUME NEW k \in Node, Nic(NicStep(k)) PROVE Steady
  <2>1. \A n \in Node : Idle(n) => mem'[n] = mem[n]
    BY <1>0, <1>4, NicKeeps, Constants DEF Nic, Idle
  <2>2. \A n \in Node : MailOf(n)
    BY <1>0, Constants DEF ClientPair, MetaPair, FilePair
  <2>3. ASSUME NEW n \in Node PROVE SendBufferHeld(n)
    <3>1. CASE Idle(n)
      BY <2>1, <3>1 DEF SendBufferHeld
    <3>2. CASE ~ Idle(n)
      <4>1. sq[n] = <<>>
        BY <2>2, <3>2, Constants DEF MailOf, Idle, Paired
      <4> QED BY <4>1 DEF SendBufferHeld
    <3> QED BY <3>1, <3>2
  <2> QED BY <1>0, <2>1, <2>3, ReaderIdle, Constants DEF Steady
<1>5. CASE UNCHANGED vars
  BY <1>1, <1>5 DEF vars, endsVars, verbsVars
<1> QED BY <1>3, <1>4, <1>5 DEF Next

\* No region changes under its reader, at any of the six end points: neither one
\* that a message has filled before it is read, nor one whose send is queued.
THEOREM BuffersCorrect == Spec => BuffersSafe
<1> DEFINE Reads == {<<"client", "file_mr", pcC = "imm">>, <<"client", "file_end", pcC = "imm">>,
                     <<"proxy",  "file_mr", pcP = "fetch">>,
                     <<"proxy",  "recv_mr", pcP = "waitRead">>,
                     <<"up1",    "file_mr", pcP = "metaGot">>,
                     <<"up2",    "file_mr", pcP = "chunk">>, <<"up2", "file_end", pcP = "chunk">>,
                     <<"meta",   "file_mr", pcM = "got">>,
                     <<"file",   "recv_mr", pcF = "next">>}
<1>1. Steady => /\ \A h \in Reads : h[3] => mem'[h[1]][h[2]] = mem[h[1]][h[2]]
                /\ \A n \in Node : SendBufferHeld(n)
  <2> SUFFICES ASSUME Steady, NEW h \in Reads, h[3] PROVE mem'[h[1]][h[2]] = mem[h[1]][h[2]]
    BY DEF Steady
  <2>1. CASE h = <<"client", "file_mr", pcC = "imm">>
    <3>1. h[1] = "client" /\ h[2] = "file_mr" /\ pcC = "imm"
      BY <2>1
    <3> QED BY <3>1 DEF Steady
  <2>2. CASE h = <<"proxy", "file_mr", pcP = "fetch">>
    <3>1. h[1] = "proxy" /\ h[2] = "file_mr" /\ pcP = "fetch"
      BY <2>2
    <3> QED BY <3>1 DEF Steady
  <2>3. CASE h = <<"proxy", "recv_mr", pcP = "waitRead">>
    <3>1. h[1] = "proxy" /\ h[2] = "recv_mr" /\ pcP = "waitRead"
      BY <2>3
    <3> QED BY <3>1 DEF Steady
  <2>4. CASE h = <<"up1", "file_mr", pcP = "metaGot">>
    <3>1. h[1] = "up1" /\ h[2] = "file_mr" /\ pcP = "metaGot"
      BY <2>4
    <3> QED BY <3>1 DEF Steady
  <2>5. CASE h = <<"up2", "file_mr", pcP = "chunk">>
    <3>1. h[1] = "up2" /\ h[2] = "file_mr" /\ pcP = "chunk"
      BY <2>5
    <3> QED BY <3>1 DEF Steady
  <2>6. CASE h = <<"meta", "file_mr", pcM = "got">>
    <3>1. h[1] = "meta" /\ h[2] = "file_mr" /\ pcM = "got"
      BY <2>6
    <3> QED BY <3>1 DEF Steady
  <2>7. CASE h = <<"file", "recv_mr", pcF = "next">>
    <3>1. h[1] = "file" /\ h[2] = "recv_mr" /\ pcF = "next"
      BY <2>7
    <3> QED BY <3>1 DEF Steady
  <2>8. CASE h = <<"client", "file_end", pcC = "imm">>
    <3>1. h[1] = "client" /\ h[2] = "file_end" /\ pcC = "imm"
      BY <2>8
    <3> QED BY <3>1 DEF Steady
  <2>9. CASE h = <<"up2", "file_end", pcP = "chunk">>
    <3>1. h[1] = "up2" /\ h[2] = "file_end" /\ pcP = "chunk"
      BY <2>9
    <3> QED BY <3>1 DEF Steady
  <2> QED BY <2>1, <2>2, <2>3, <2>4, <2>5, <2>6, <2>7, <2>8, <2>9
<1>2. IInv /\ [Next]_vars =>
        [/\ \A h \in Reads : h[3] => mem'[h[1]][h[2]] = mem[h[1]][h[2]]
         /\ \A n \in Node : SendBufferHeld(n)]_vars
  BY <1>1, BufferStep
<1> QED BY <1>2, Invariance, PTL DEF Spec, BuffersSafe

-----------------------------------------------------------------------------
(* The places in the queues. *)

\* The most sends of each end point whose completion can be left, at the place where
\* its process is: a message that is polled leaves one, and every post adds one.
ClientPlaces ==
  /\ Sends("client") <= 2
  /\ pcC \in {"prepost", "imm"} => Sends("client") <= 1
  /\ pcC \in {"begin", "ask", "closed"} => Sends("client") = 0

FilePlaces ==
  /\ Sends("file") <= 2
  /\ pcF \in {"pollA", "pollB", "open", "read", "next"} => Sends("file") <= 1
  /\ pcF \in {"idle", "closed", "cut"} => Sends("file") = 0

MetaPlaces ==
  /\ Sends("meta") <= 2
  /\ pcM \in {"pollA", "loop", "got"} => Sends("meta") <= 1
  /\ pcM = "idle" => Sends("meta") = 0

\* The places before the proxy has passed the request on to a server.
BeforeMeta == {"begin", "pollA", "pollB", "fetch", "metaBegin", "metaAsk"}
BeforeFile == BeforeMeta \union {"metaSent", "metaLoop", "metaGot", "fileBegin", "fileAsk"}

ProxyPlaces ==
  /\ Sends("proxy") <= 2
  /\ pcP \notin {"wait", "serve"} => Sends("proxy") <= 1
  /\ pcP \in {"begin", "closed"} => Sends("proxy") = 0
  /\ Sends("up1") <= 1
  /\ pcP \in BeforeMeta => Sends("up1") = 0
  /\ Sends("up2") <= 2
  /\ pcP = "chunk" => Sends("up2") <= 1
  /\ pcP \in BeforeFile => Sends("up2") = 0

LEMMA ReadAnswered == ASSUME IInv PROVE Answered
<1>1. ASSUME NEW n \in Node, rcq[n] # <<>> PROVE sq[n] = <<>>
  <2>1. Idle(Peer[n]) /\ Peer[Peer[n]] = n
    BY <1>1, Constants DEF IInv, ClientPair, MetaPair, FilePair, MailOf, Idle
  <2> QED BY <2>1 DEF Idle
<1> QED BY <1>1 DEF Answered

LEMMA ClientPlacesStep ==
  ASSUME EndsTypeOK, Answered, ClientPlaces, ClientStep, InTurn
  PROVE  ClientPlaces' /\ OthersKeep("client")
<1>0. VerbsTypeOK /\ "client" \in Node /\ Sends("client") \in Nat /\ "msg_mr" \in Region
  BY SendsType, Constants DEF EndsTypeOK
<1>1. CASE PollRecv("client") /\ (\/ pcC = "begin" /\ pcC' = "ask"
                                  \/ pcC = "loop" /\ pcC' \in {"imm", "loop"})
  <2>1. /\ Sends("client")' <= Sends("client") /\ Sends("client")' <= 1
        /\ Sends("client")' \in Nat /\ OthersKeep("client")
    BY <1>0, <1>1, AwaitSends DEF PollAny
  <2> QED BY <1>0, <1>1, <2>1 DEF ClientPlaces
<1>2. CASE PollSend("client") /\ pcC = "loop" /\ pcC' = "loop"
  <2>1. Sends("client")' <= Sends("client") /\ Sends("client")' \in Nat /\ OthersKeep("client")
    BY <1>0, <1>2, AwaitSends DEF PollAny
  <2> QED BY <1>0, <1>2, <2>1 DEF ClientPlaces
<1>3. CASE ClientAsk \/ ClientPrepost \/ ClientRepost \/ ClientSave \/ ClientSaveLast
  <2>1. (NoSend \/ \E p : PostSend("client", "msg_mr", p)) /\ NoPoll
    BY <1>3 DEF ClientAsk, ClientPrepost, ClientRepost, ClientSave, ClientSaveLast
  <2>2. /\ Sends("client")' = Sends("client") \/ Sends("client")' = Sends("client") + 1
        /\ OthersKeep("client")
    BY <1>0, <2>1, CallSends
  <2>3. ~ NoSend => pcC \in {"ask", "imm"}
    BY <1>3 DEF ClientAsk, ClientPrepost, ClientRepost, ClientSave, ClientSaveLast, Moves
  <2>4. NoSend => Sends("client")' = Sends("client")
    BY <2>1, NoSendSends DEF NoPoll
  <2>5. \/ pcC = "ask" /\ pcC' \in {"prepost", "close"}
        \/ pcC \in {"prepost", "repost"} /\ pcC' = "loop"
        \/ pcC = "imm" /\ pcC' \in {"repost", "close"}
    BY <1>3 DEF ClientAsk, ClientPrepost, ClientRepost, ClientSave, ClientSaveLast, Moves
  <2> QED BY <1>0, <2>2, <2>3, <2>4, <2>5 DEF ClientPlaces
<1>4. CASE ClientClose
  <2>1. Sends("client")' = 0 /\ OthersKeep("client")
    BY <1>0, <1>4, CloseSends DEF ClientClose
  <2> QED BY <2>1 DEF ClientPlaces
<1> QED BY <1>1, <1>2, <1>3, <1>4 DEF ClientStep, ClientBegin, ClientPoll, Moves

LEMMA FilePlacesStep ==
  ASSUME EndsTypeOK, Answered, FilePlaces, FileBegin \/ FileStep \/ FileClose, InTurn
  PROVE  FilePlaces' /\ OthersKeep("file")
<1>0. /\ VerbsTypeOK /\ "file" \in Node /\ Sends("file") \in Nat
      /\ "msg_mr" \in Region /\ "file_mr" \in Region
  BY SendsType, Constants DEF EndsTypeOK
<1>1. CASE PollRecv("file") /\ pcF \in {"pollA", "pollB", "wait"}
                            /\ pcF' \in {"pollB", "open", "next"}
  <2>1. Sends("file")' <= 1 /\ Sends("file")' \in Nat /\ OthersKeep("file")
    BY <1>0, <1>1, AwaitSends DEF PollAny
  <2> QED BY <1>1, <2>1 DEF FilePlaces
<1>2. CASE PollSend("file") /\ (\/ pcF = "pollA" /\ pcF' = "pollB"
                                \/ pcF = "pollB" /\ pcF' = "return"
                                \/ pcF = "wait" /\ pcF' = "wait")
  <2>1. Sends("file")' <= Sends("file") /\ Sends("file")' \in Nat /\ OthersKeep("file")
    BY <1>0, <1>2, AwaitSends DEF PollAny
  <2> QED BY <1>0, <1>2, <2>1 DEF FilePlaces
<1>3. CASE FileBegin \/ FileWrite \/ FileEnd \/ FileOpen \/ FileNext
  <2>1. /\ \/ NoSend
           \/ \E r \in Region : \E p : \/ PostSend("file", r, p)
                                       \/ (\E i : PostWrite("file", r, p, i))
                                       \/ PostEmptyWrite("file", r)
        /\ NoPoll
    BY <1>0, <1>3 DEF FileBegin, Welcome, FileWrite, FileWrites, FileEnd, FileOpen, FileOpens,
       FileNext
  <2>2. /\ Sends("file")' = Sends("file") \/ Sends("file")' = Sends("file") + 1
        /\ OthersKeep("file")
    <3>1. CASE NoSend
      BY <1>0, <2>1, <3>1, CallSends
    <3>2. CASE ~ NoSend
      BY <1>0, <2>1, <3>2, CallSends
    <3> QED BY <3>1, <3>2
  <2>3. NoSend => Sends("file")' = Sends("file")
    BY <2>1, NoSendSends DEF NoPoll
  <2>4. \/ pcF = "idle" /\ pcF' = "pollA"
        \/ pcF = "read" /\ pcF' \in {"fail", "wait", "return"}
        \/ pcF = "open" /\ pcF' = "return"
        \/ pcF \in {"open", "next"} /\ pcF' \in {"read", "wait"} /\ NoSend
    BY <1>3 DEF FileBegin, FileWrite, FileWrites, AfterWrite, FileEnd, FileOpen, FileOpens,
       FileNext, Moves
  <2> QED BY <1>0, <2>2, <2>3, <2>4 DEF FilePlaces
<1>4. CASE FileClose
  <2>1. Sends("file")' = 0 /\ OthersKeep("file")
    BY <1>0, <1>4, CloseSends DEF FileClose
  <2> QED BY <2>1 DEF FilePlaces
<1> QED BY <1>1, <1>2, <1>3, <1>4
        DEF FileStep, FilePollA, PollForSend, FilePollB, FileWait, AwaitRecv, Moves

LEMMA MetaPlacesStep ==
  ASSUME TypeOK, Answered, MetaPlaces, MetaNext, InTurn
  PROVE  MetaPlaces' /\ OthersKeep("meta")
<1>0. VerbsTypeOK /\ "meta" \in Node /\ Sends("meta") \in Nat /\ "msg_mr" \in Region
  BY SendsType, Constants DEF TypeOK, HandlerTypeOK, EndsTypeOK
<1>1. CASE PollRecv("meta") /\ pcM \in {"pollA", "loop"} /\ pcM' \in {"loop", "got"}
  <2>1. Sends("meta")' <= 1 /\ Sends("meta")' \in Nat /\ OthersKeep("meta")
    BY <1>0, <1>1, AwaitSends DEF PollAny
  <2> QED BY <1>1, <2>1 DEF MetaPlaces
<1>2. CASE PollSend("meta") /\ pcM \in {"pollA", "loop"} /\ pcM' = "loop"
  <2>1. Sends("meta")' <= Sends("meta") /\ Sends("meta")' \in Nat /\ OthersKeep("meta")
    BY <1>0, <1>2, AwaitSends DEF PollAny
  <2> QED BY <1>0, <1>2, <2>1 DEF MetaPlaces
<1>3. CASE MetaBegin \/ MetaReply
  <2>1. (\E p : PostSend("meta", "msg_mr", p)) /\ NoPoll
    BY <1>3 DEF MetaBegin, MetaReply, Welcome
  <2>2. /\ Sends("meta")' = Sends("meta") \/ Sends("meta")' = Sends("meta") + 1
        /\ OthersKeep("meta")
    BY <1>0, <2>1, CallSends
  <2>3. \/ pcM = "idle" /\ pcM' = "pollA"
        \/ pcM = "got" /\ pcM' = "done"
    BY <1>3 DEF MetaBegin, MetaReply, Moves
  <2> QED BY <1>0, <2>2, <2>3 DEF MetaPlaces
<1> QED BY <1>1, <1>2, <1>3
        DEF MetaNext, MetaPollA, PollForSend, MetaLoop, AwaitRecv, Moves

LEMMA ProxyPlacesStep ==
  ASSUME TypeOK, Answered, ProxyPlaces, ProxyNext, InTurn
  PROVE  ProxyPlaces' /\ \A k \in {"client", "meta", "file"} : Sends(k)' = Sends(k)
<1> DEFINE Others == \A k \in {"client", "meta", "file"} : Sends(k)' = Sends(k)
<1>0. /\ VerbsTypeOK /\ "proxy" \in Node /\ "up1" \in Node /\ "up2" \in Node
      /\ Sends("proxy") \in Nat /\ Sends("up1") \in Nat /\ Sends("up2") \in Nat
      /\ "msg_mr" \in Region /\ "file_mr" \in Region
  BY SendsType, Constants DEF TypeOK, HandlerTypeOK, EndsTypeOK
<1>1. /\ OthersKeep("proxy") => /\ Others /\ Sends("up1")' = Sends("up1")
                                /\ Sends("up2")' = Sends("up2")
      /\ OthersKeep("up1")   => /\ Others /\ Sends("proxy")' = Sends("proxy")
                                /\ Sends("up2")' = Sends("up2")
      /\ OthersKeep("up2")   => /\ Others /\ Sends("proxy")' = Sends("proxy")
                                /\ Sends("up1")' = Sends("up1")
  BY Constants DEF OthersKeep
<1>2. CASE PollRecv("proxy") /\ (\/ pcP = "pollA" /\ pcP' = "pollB"
                                 \/ pcP = "pollB" /\ pcP' = "fetch"
                                 \/ pcP = "wait" /\ pcP' = "waitRead")
  <2>1. Sends("proxy")' <= 1 /\ Sends("proxy")' \in Nat /\ OthersKeep("proxy")
    BY <1>0, <1>2, AwaitSends DEF PollAny
  <2> QED BY <1>1, <1>2, <2>1 DEF ProxyPlaces, BeforeMeta, BeforeFile
<1>3. CASE PollSend("proxy") /\ (\/ pcP = "pollA" /\ pcP' = "pollB"
                                 \/ pcP = "pollB" /\ pcP' = "fail"
                                 \/ pcP = "wait" /\ pcP' = "wait")
  <2>1. Sends("proxy")' <= Sends("proxy") /\ Sends("proxy")' \in Nat /\ OthersKeep("proxy")
    BY <1>0, <1>3, AwaitSends DEF PollAny
  <2> QED BY <1>0, <1>1, <1>3, <2>1 DEF ProxyPlaces, BeforeMeta, BeforeFile
<1>4. CASE PollAny("up1") /\ (\/ pcP = "metaBegin" /\ pcP' = "metaAsk"
                              \/ pcP = "metaSent" /\ pcP' = "metaLoop"
                              \/ pcP = "metaLoop" /\ pcP' \in {"metaLoop", "metaGot"})
  <2>1. Sends("up1")' <= Sends("up1") /\ Sends("up1")' \in Nat /\ OthersKeep("up1")
    BY <1>0, <1>4, AwaitSends
  <2> QED BY <1>0, <1>1, <1>4, <2>1 DEF ProxyPlaces, BeforeMeta, BeforeFile
<1>5. CASE PollAny("up2") /\ (\/ pcP = "fileBegin" /\ pcP' = "fileAsk"
                              \/ pcP = "fileLoop" /\ pcP' = "fileLoop"
                              \/ pcP = "fileLoop" /\ pcP' = "chunk" /\ PollRecv("up2"))
  <2>1. /\ Sends("up2")' <= Sends("up2") /\ Sends("up2")' \in Nat /\ OthersKeep("up2")
        /\ PollRecv("up2") => Sends("up2")' <= 1
    BY <1>0, <1>5, AwaitSends
  <2> QED BY <1>0, <1>1, <1>5, <2>1 DEF ProxyPlaces, BeforeMeta, BeforeFile
<1>6. CASE ProxyBegin \/ ProxyWrite
  <2>1. /\ \E r \in Region : \E p : \/ PostSend("proxy", r, p)
                                    \/ \E i : PostWrite("proxy", r, p, i)
        /\ NoPoll
    BY <1>0, <1>6 DEF ProxyBegin, Welcome, ProxyWrite, ProxyWrites
  <2>2. /\ Sends("proxy")' = Sends("proxy") \/ Sends("proxy")' = Sends("proxy") + 1
        /\ OthersKeep("proxy")
    BY <1>0, <2>1, CallSends
  <2>3. \/ pcP = "begin" /\ pcP' = "pollA"
        \/ pcP = "write" /\ pcP' \in {"wait", "serve"}
    BY <1>6 DEF ProxyBegin, ProxyWrite, ProxyWrites, Moves
  <2> QED BY <1>0, <1>1, <2>2, <2>3 DEF ProxyPlaces, BeforeMeta, BeforeFile
<1>7. CASE /\ NoSend /\ NoPoll
           /\ pcP' \in BeforeMeta => pcP \in BeforeMeta
           /\ pcP' \in BeforeFile => pcP \in BeforeFile
           /\ pcP \notin {"wait", "serve"} /\ pcP' \notin {"begin", "closed", "chunk"}
  <2>1. \A k : Sends(k)' = Sends(k)
    BY <1>7, NoSendSends DEF NoPoll
  <2> QED BY <1>0, <1>7, <2>1 DEF ProxyPlaces
<1>8. CASE /\ \E p : PostSend("up1", "msg_mr", p)
           /\ NoPoll /\ pcP = "metaAsk" /\ pcP' = "metaSent"
  <2>1. /\ Sends("up1")' = Sends("up1") \/ Sends("up1")' = Sends("up1") + 1
        /\ OthersKeep("up1")
    BY <1>0, <1>8, CallSends
  <2> QED BY <1>0, <1>1, <1>8, <2>1 DEF ProxyPlaces, BeforeMeta, BeforeFile
<1>9. CASE /\ \E p : PostSend("up2", "msg_mr", p)
           /\ NoPoll /\ pcP \in {"fileAsk", "chunk"} /\ pcP' = "fileLoop"
  <2>1. /\ Sends("up2")' = Sends("up2") \/ Sends("up2")' = Sends("up2") + 1
        /\ OthersKeep("up2")
    BY <1>0, <1>9, CallSends
  <2> QED BY <1>0, <1>1, <1>9, <2>1 DEF ProxyPlaces, BeforeMeta, BeforeFile
<1>10. CASE ProxyClose
  <2>1. Sends("proxy")' = 0 /\ OthersKeep("proxy") /\ pcP' = "closed"
    BY <1>0, <1>10, CloseSends DEF ProxyClose, Moves
  <2> QED BY <1>1, <2>1 DEF ProxyPlaces, BeforeMeta, BeforeFile
<1>11. CASE ProxyAsk("up1", "metaAsk", "metaSent") \/ ProxyAsk("up2", "fileAsk", "fileLoop")
  BY <1>7, <1>8, <1>9, <1>11 DEF ProxyAsk, Moves, BeforeMeta, BeforeFile
<1>12. CASE ProxyChunk("up2")
  BY <1>9, <1>12 DEF ProxyChunk, ProxyKeeps, Moves
<1>13. CASE ProxyEnd("return") \/ ProxyReturn \/ ProxyWaitRead \/ ProxyMetaGot
  <2>1. /\ NoSend /\ NoPoll
        /\ \/ pcP = "chunk" /\ pcP' = "return"
           \/ pcP = "return" /\ pcP' \in {"serve", "write"}
           \/ pcP = "waitRead" /\ pcP' \in {"write", "wait"}
           \/ pcP = "metaGot" /\ pcP' = "fileBegin"
    BY <1>13 DEF ProxyEnd, ProxyReturn, ProxyWaitRead, ProxyMetaGot, Moves
  <2> QED BY <1>7, <2>1 DEF BeforeMeta, BeforeFile
<1>14. CASE ProxyFetch({"up1", "up2"}, "meta", "metaBegin")
  BY <1>7, <1>14 DEF ProxyFetch, Moves, BeforeMeta, BeforeFile
<1>15. CASE ProxyPollA \/ ProxyPollB \/ ProxyWait
  BY <1>2, <1>3, <1>15 DEF ProxyPollA, PollForSend, ProxyPollB, ProxyWait, AwaitRecv, Moves
<1>16. CASE ProxyMetaPoll \/ ProxyMetaLoop \/ ProxyAwaitBegin("up1", "metaBegin", "metaAsk")
  BY <1>4, <1>16 DEF ProxyMetaPoll, PollForSend, ProxyMetaLoop, AwaitRecv, ProxyAwaitBegin,
     PollAny, Moves
<1>17. CASE ProxyLoop("up2") \/ ProxyAwaitBegin("up2", "fileBegin", "fileAsk")
  BY <1>5, <1>17 DEF ProxyLoop, ProxyAwaitBegin, PollAny, Moves
<1> QED BY <1>6, <1>10, <1>11, <1>12, <1>13, <1>14, <1>15, <1>16, <1>17 DEF ProxyNext

\* No queue of a relayed read, at any of its six end points, is ever asked to hold more
\* than it was made for, for a file of any length and any loss, if the completion
\* queues return what they hold in turn.
THEOREM QueuesFitCorrect == Spec /\ [][InTurn]_vars => []QueuesFit
<1> DEFINE Places == ClientPlaces /\ ProxyPlaces /\ MetaPlaces /\ FilePlaces
           QInv   == IInv /\ Places
<1>1. Init => QInv
  <2> SUFFICES ASSUME Init PROVE QInv
    OBVIOUS
  <2>1. /\ \A n \in Node : Len(sq[n]) = 0 /\ scq[n] = 0
        /\ pcC = "begin" /\ pcF = "idle" /\ pcP = "begin" /\ pcM = "idle"
    BY DEF Init, HandlerInit, EndsInit, VerbsInit
  <2>2. ASSUME NEW n \in Node PROVE Sends(n) = 0
    <3>1. Sends(n) = 0 + 0
      BY <2>1 DEF Sends
    <3> QED BY <3>1
  <2> QED BY <2>1, <2>2, InitIInv, Constants
          DEF ClientPlaces, FilePlaces, MetaPlaces, ProxyPlaces
<1>2. QInv /\ [Next]_vars /\ [InTurn]_vars => QInv'
  <2> SUFFICES ASSUME QInv, [Next]_vars, [InTurn]_vars PROVE QInv'
    OBVIOUS
  <2>0. TypeOK /\ EndsTypeOK /\ VerbsTypeOK /\ Answered
    BY ReadAnswered DEF IInv, TypeOK, HandlerTypeOK, EndsTypeOK
  <2>1. IInv'
    BY IInvStep
  <2>2. CASE UNCHANGED vars
    BY <2>1, <2>2 DEF vars, endsVars, verbsVars, clientVars, fileVars, proxyVars, handlerVars,
       ClientPlaces, FilePlaces, MetaPlaces, ProxyPlaces, Sends
  <2>3. CASE ClientNext /\ InTurn
    <3>1. ClientPlaces' /\ OthersKeep("client") /\ UNCHANGED <<pcF, pcP, pcM>>
      BY <2>0, <2>3, ClientPlacesStep DEF ClientNext, fileVars, proxyVars, handlerVars
    <3> QED BY <2>1, <3>1, Constants DEF OthersKeep, FilePlaces, MetaPlaces, ProxyPlaces
  <2>4. CASE FileNextStep /\ InTurn
    <3>1. FilePlaces' /\ OthersKeep("file") /\ UNCHANGED <<pcC, pcP, pcM>>
      BY <2>0, <2>4, FilePlacesStep DEF FileNextStep, clientVars, proxyVars, handlerVars
    <3> QED BY <2>1, <3>1, Constants DEF OthersKeep, ClientPlaces, MetaPlaces, ProxyPlaces
  <2>5. CASE MetaNext /\ InTurn
    <3>1. MetaPlaces' /\ OthersKeep("meta") /\ UNCHANGED <<pcC, pcP, pcF>>
      BY <2>0, <2>5, MetaPlacesStep
         DEF MetaNext, clientVars, fileVars, proxyVars, handlerVars
    <3> QED BY <2>1, <3>1, Constants DEF OthersKeep, ClientPlaces, FilePlaces, ProxyPlaces
  <2>6. CASE ProxyNext /\ InTurn
    <3>1. /\ ProxyPlaces' /\ \A k \in {"client", "meta", "file"} : Sends(k)' = Sends(k)
          /\ UNCHANGED <<pcC, pcF, pcM>>
      BY <2>0, <2>6, ProxyPlacesStep DEF ProxyNext, clientVars, fileVars
    <3> QED BY <2>1, <3>1 DEF ClientPlaces, FilePlaces, MetaPlaces
  <2>7. ASSUME NEW k \in Node, Nic(NicStep(k)) PROVE QInv'
    <3>1. \A n \in Node : Sends(n)' = Sends(n)
      BY <2>0, <2>7, NicKeeps, Constants DEF Nic
    <3> QED BY <2>1, <2>7, <3>1, Constants
            DEF Nic, clientVars, fileVars, proxyVars, handlerVars,
                ClientPlaces, FilePlaces, MetaPlaces, ProxyPlaces
  <2> QED BY <2>2, <2>3, <2>4, <2>5, <2>6, <2>7 DEF Next
<1>3. QInv => QueuesFit
  <2> SUFFICES ASSUME QInv PROVE QueuesFit
    OBVIOUS
  <2>1. VerbsTypeOK
    BY DEF IInv, TypeOK, HandlerTypeOK, EndsTypeOK
  <2>2. /\ Receives("client") \in {0, 1} /\ Receives("proxy") \in {0, 1}
        /\ Receives("up1") \in {0, 1} /\ Receives("meta") \in {0, 1}
        /\ Receives("up2") \in {0, 1} /\ Receives("file") \in {0, 1}
    BY DEF IInv, ClientPair, MetaPair, FilePair, ClientPosted, MetaPosted, FilePosted
  <2>3. ASSUME NEW n \in Node PROVE Sends(n) <= 3
    BY <2>1, SendsType, Constants DEF ClientPlaces, FilePlaces, MetaPlaces, ProxyPlaces
  <2> QED BY <2>1, <2>2, <2>3, WithinLimits, Constants
<1> QED BY <1>1, <1>2, <1>3, PTL DEF Spec
=============================================================================
