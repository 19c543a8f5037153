-------------------------- MODULE ReadDirect_proofs -------------------------
(***************************************************************************)
(* Proofs about the read of a file without a proxy, for a file of any      *)
(* length, for both clients and for any number of lost messages.           *)
(***************************************************************************)
EXTENDS ReadDirect, Verbs_proofs

-----------------------------------------------------------------------------
(* The inductive invariant behind the safety properties of a read without  *)
(* a proxy: which message can be on its way between the client and the     *)
(* file server, by where the two are, and what the client's file_mr holds, *)
(* which the empty write at the end makes it save once more.               *)

ForClient(l) ==
  \/ l = Sent("begin") /\ pcC = "begin" /\ pcF \in {"pollA", "pollB"}
  \/ l = Sent("err") /\ ~ canOpen /\ pcC \in {"prepost", "repost", "loop"} /\ pcF = "return"
  \/ /\ l = Written(Piece(pos), 1) /\ pos = Len(dst) + 1
     /\ pcC \in {"prepost", "repost", "loop"} /\ pcF \in {"wait", "fail", "closed"}
  \/ /\ l = EmptyWrite /\ pos = size /\ Len(dst) = size /\ canOpen
     /\ pcC \in {"prepost", "repost", "loop"} /\ pcF = "return"

ForFile(l) ==
  \/ l = Sent("request") /\ pcC \in {"prepost", "loop"} /\ pcF \in {"pollA", "pollB"}
  \/ /\ l = Sent("next") /\ pcC \in {"repost", "loop"} /\ pos = Len(dst)
     /\ pcF \in {"wait", "fail", "closed"}

\* The message l can be on its way to n, and r is the region that n posts to receive it.
Expected(n, l) == (n = "client" /\ ForClient(l)) \/ (n = "file" /\ ForFile(l))

RegionOf(n) == IF \/ n = "client" /\ pcC = "begin"
                  \/ n = "file" /\ pcF \notin {"idle", "pollA", "pollB"}
                 THEN "recv_mr" ELSE "file_mr"

Letters == {Sent("begin"), Sent("request"), Sent("next"), Sent("err"), EmptyWrite,
            Written(Piece(pos), 1)}

\* The receive for a message is posted before the message is sent, but for a write to a
\* client that is about to post it and for a file server that has closed.
Unready(n) == (n = "client" /\ pcC \in {"prepost", "repost"}) \/ (n = "file" /\ pcF = "closed")

MailOf(n) ==
  /\ AllPosted(n, RegionOf(n))
  /\ \/ Idle(n)
     \/ /\ Idle(Peer[n]) /\ (Receives(n) = 1 \/ Unready(n))
        /\ \E l \in Letters : Expected(n, l) /\ InFlight(n, RegionOf(n), l)

\* The receives of the two end points.  Where a poll may already have returned a
\* receive there are none or one.
Posted ==
  /\ \/ pcC = "loop" /\ (Receives("client") = 0 \/ Receives("client") = 1)
     \/ pcC # "loop" /\ Receives("client") = IF pcC = "begin" THEN 1 ELSE 0
  /\ \/ pcF \in {"pollB", "return"} /\ (Receives("file") = 0 \/ Receives("file") = 1)
     \/ pcF \notin {"pollB", "return"} /\ Receives("file") =
                             IF pcF \in {"pollA", "read", "wait", "fail"} THEN 1 ELSE 0

\* Until the request is read.
Asking ==
  /\ pcF = "idle"  => Sends("file") = 0 /\ pcC = "begin"
  /\ pcF = "pollA" => Sends("file") = 1
  /\ pcF = "pollB" => Sends("file") + Receives("file") = 1
  /\ pcC = "ask" => mem["client"]["recv_mr"] = Text("begin")
  /\ pcC \in {"begin", "ask"} =>
       pcF \in {"idle", "pollA"} \/ (pcF = "pollB" /\ Receives("file") = 1)
  /\ pcF \in {"idle", "pollA", "pollB", "open"} => pos = 0 /\ dst = <<>>

\* While the file is sent.
Serving ==
  /\ pcF \in {"open", "read", "next"} => pos = Len(dst) /\ pcC \in {"prepost", "repost", "loop"}
  /\ pcF \in {"read", "wait", "next"} => canOpen
  /\ pcF = "next" => mem["file"]["recv_mr"] = Text("next") /\ pcC \in {"repost", "loop"}
  /\ pcC = "loop" /\ Receives("client") = 0 => pcF = "return" /\ ~ canOpen
  /\ pcC = "imm" =>
       \/ /\ immC = 1 /\ mem["client"]["file_mr"] = Piece(pos) /\ pos = Len(dst) + 1
          /\ pcF \in {"wait", "fail", "closed"}
       \/ immC = 0 /\ pos = size /\ Len(dst) = size /\ canOpen /\ pcF = "return"
  /\ pcC \in {"close", "closed"} => doneC /\ pcF \in {"return", "closed"}

\* The block that a client saves that has kept so many, if nothing comes between.
Last(kept) == IF kept = 0 THEN Nothing ELSE Block(kept)

\* What has been saved.
Saved ==
  /\ \A i \in 1..Len(dst) : i <= size => dst[i] = Block(i)
  /\ ~ doneC => Len(dst) <= pos
  /\ doneC => Len(dst) = size + 1 /\ dst[size + 1] = Last(size) /\ pcC \in {"close", "closed"}

\* Between two writes, the client's region still holds the chunk it has saved last.
Fresh == pos = Len(dst) /\ (canOpen \/ pcF # "return") =>
           mem["client"]["file_mr"] = IF pos = 0 THEN Nothing ELSE Piece(pos)

\* At the end of the client's region is the end of the last whole chunk.
Ended == EndsHeld /\ (short => EndKept("client", Len(dst), size))

\* The strengthening of the direct read's safety property: inductive as it stands.
IInv == /\ EndsTypeOK /\ MailOf("client") /\ MailOf("file")
        /\ Posted /\ Asking /\ Serving /\ Saved /\ Fresh /\ Ended

-----------------------------------------------------------------------------
(* The proofs. *)

LEMMA Constants ==
  /\ Node = {"client", "file"} /\ "client" \in Node /\ "file" \in Node
  /\ Peer["client"] = "file" /\ Peer["file"] = "client"
  /\ MaxChunks \in Nat /\ MaxLoss \in Nat /\ Clients \subseteq BOOLEAN
  /\ Paired
  /\ "msg_mr" \in Region /\ "recv_mr" \in Region /\ "file_mr" \in Region
BY DirectAssumption, EndsAssumption, VerbsAssumption DEF Paired, Region

-----------------------------------------------------------------------------
(* Type correctness. *)

LEMMA TypeInit == Init => EndsTypeOK
<1> SUFFICES ASSUME Init PROVE EndsTypeOK
  OBVIOUS
<1>1. <<"recv_mr">> \in Seq(Region) /\ \A S : <<>> \in Seq(S)
  BY DEF Region
<1>2. rq \in [Node -> Seq(Region)]
  BY <1>1 DEF Init, EndsInit, VerbsInit
<1>3. mem \in [Node -> [Part -> Payload]]
  BY PayloadFacts DEF Init, EndsInit, VerbsInit, Nothing
<1>4. VerbsTypeOK
  BY <1>1, <1>2, <1>3, Constants DEF Init, EndsInit, VerbsInit, VerbsTypeOK
<1>5. /\ signals \in Clients /\ pause \in BOOLEAN /\ size \in 0..MaxChunks
      /\ short \in BOOLEAN /\ canOpen \in BOOLEAN /\ pcC = "begin"
      /\ immC \in 0..1 /\ dst \in Seq(Payload) /\ doneC \in BOOLEAN
      /\ pcF = "idle" /\ pos \in 0..size /\ swapped \in BOOLEAN
  <2>1. dst \in Seq(Payload)
    BY <1>1 DEF Init, EndsInit
  <2>2. size \in 0..MaxChunks /\ size \in Nat /\ pos = 0
    BY Constants DEF Init, EndsInit
  <2>3. immC \in 0..1 /\ pos \in 0..size
    BY <2>2 DEF Init, EndsInit
  <2>4. /\ signals \in Clients /\ pause \in BOOLEAN /\ short \in BOOLEAN /\ canOpen \in BOOLEAN
        /\ doneC = FALSE /\ swapped = FALSE /\ pcC = "begin" /\ pcF = "idle"
    BY DEF Init, EndsInit
  <2>5. doneC \in BOOLEAN /\ swapped \in BOOLEAN
    BY <2>4
  <2> QED BY <2>1, <2>2, <2>3, <2>4, <2>5
<1> QED BY <1>4, <1>5 DEF EndsTypeOK

LEMMA PollForSendType ==
  ASSUME VerbsTypeOK, swapped \in BOOLEAN, NEW n \in Node, PollForSend(n)
  PROVE  VerbsTypeOK' /\ swapped' \in BOOLEAN
BY PollType DEF PollForSend, PollAny

\* What the file server writes and what a reader finds then are payloads.
LEMMA PieceTyped == \A i \in Nat : Piece(i) \in Payload /\ (i > 0 => Block(i) \in Payload)
BY PayloadFacts, BlockFacts DEF Piece, Block

\* What a read of the whole region returns when the i-th chunk has been written to it.
LEMMA BlockRead ==
  ASSUME NEW n \in Node, NEW i, mem[n]["file_mr"] = Piece(i),
         short /\ i = size => mem[n]["file_end"].tail = i - 1
  PROVE  FileBlock(n) = Block(i)
<1>1. CASE short /\ i = size
  BY <1>1 DEF FileBlock, Block, Piece, Short
<1>2. CASE ~ (short /\ i = size)
  BY <1>2 DEF FileBlock, Block, Piece, Chunk
<1> QED BY <1>1, <1>2

LEMMA ClientTypeStep ==
  ASSUME EndsTypeOK, ClientNext
  PROVE  EndsTypeOK'
<1> USE Constants, PayloadFacts
<1>0. /\ VerbsTypeOK /\ UNCHANGED <<runVars, fileVars, swapped>>
      /\ "client" \in Node /\ dst \in Seq(Payload) /\ immC \in 0..1 /\ doneC \in BOOLEAN
  BY DEF ClientNext, EndsTypeOK
<1>1. ASSUME VerbsTypeOK', immC' \in 0..1, dst' \in Seq(Payload), doneC' \in BOOLEAN,
             pcC' \in {"begin", "ask", "prepost", "loop", "imm", "repost", "close", "closed"}
      PROVE  EndsTypeOK'
  BY <1>0, <1>1 DEF EndsTypeOK, runVars, fileVars
<1>2. CASE ClientBegin /\ UNCHANGED <<immC, dst, doneC>>
  BY <1>0, <1>1, <1>2, PollType DEF ClientBegin, PollAny, Moves
<1>3. CASE ClientAsk /\ UNCHANGED <<immC, dst, doneC>>
  <2>1. CASE PostSend("client", "msg_mr", Text("request")) /\ Moves(pcC, "ask", "prepost")
    BY <1>0, <1>1, <1>3, <2>1, SendType DEF ClientAsk, NoRecv, NoPoll, VerbsTypeOK, Moves
  <2>2. CASE NoSend /\ Moves(pcC, "ask", "close")
    BY <1>0, <1>1, <1>3, <2>2 DEF ClientAsk, NoSend, NoRecv, NoPoll, VerbsTypeOK, Moves
  <2> QED BY <1>3, <2>1, <2>2 DEF ClientAsk
<1>4. CASE ClientPrepost /\ UNCHANGED <<immC, dst, doneC>>
  BY <1>0, <1>1, <1>4, PostRecvType DEF ClientPrepost, NoSend, NoPoll, VerbsTypeOK, Moves
<1>5. CASE ClientClose /\ UNCHANGED <<immC, dst, doneC>>
  BY <1>0, <1>1, <1>5, CloseType DEF ClientClose, Moves
<1>8. CASE ClientRepost /\ UNCHANGED <<immC, dst, doneC>>
  BY <1>0, <1>1, <1>8, PostRecvType DEF ClientRepost, NoSend, NoPoll, VerbsTypeOK, Moves
<1>6. CASE ClientPoll /\ UNCHANGED <<dst, doneC>>
  <2>1. CASE PollSend("client") /\ Moves(pcC, "loop", "loop") /\ UNCHANGED immC
    BY <1>0, <1>1, <1>6, <2>1, PollType DEF PollAny, Moves
  <2>2. CASE PollRecv("client") /\ immC' = Head(rcq["client"]).imm /\ pcC' \in {"imm", "loop"}
    <3>1. Head(rcq["client"]) \in Completion
      BY <1>0, <2>2, TailFacts, NodeTypes DEF PollRecv
    <3>2. immC' \in 0..1
      BY <2>2, <3>1 DEF Completion
    <3> QED BY <1>0, <1>1, <1>6, <2>2, <3>2, PollType DEF PollAny
  <2> QED BY <1>6, <2>1, <2>2 DEF ClientPoll, Moves
<1>7. CASE (ClientSave \/ ClientSaveLast) /\ UNCHANGED immC
  <2>2. dst' \in Seq(Payload)
    <3>1. PICK x \in Payload : dst' = Append(dst, x)
      BY <1>0, <1>7, FileBlockType DEF ClientSave, ClientSaveLast, SaveChunk
    <3> QED BY <1>0, <3>1, AppendFacts
  <2>3. CASE ClientSave
    <3>1. mem' \in [Node -> [Part -> Payload]] /\ sq' \in [Node -> Seq(WorkRequest)]
      <4>1. CASE PostSend("client", "msg_mr", Text("next"))
        BY <1>0, <4>1, SendType
      <4>2. CASE NoSend
        BY <1>0, <4>2 DEF NoSend, VerbsTypeOK
      <4> QED BY <2>3, <4>1, <4>2 DEF ClientSave
    <3> QED BY <1>0, <1>1, <1>7, <2>2, <2>3, <3>1 DEF ClientSave, NoRecv, NoPoll, VerbsTypeOK, Moves
  <2>4. CASE ClientSaveLast
    BY <1>0, <1>1, <1>7, <2>2, <2>4 DEF ClientSaveLast, NoRecv, NoSend, NoPoll, VerbsTypeOK, Moves
  <2> QED BY <1>7, <2>3, <2>4
<1> QED BY <1>2, <1>3, <1>4, <1>5, <1>6, <1>7, <1>8 DEF ClientNext, ClientStep

LEMMA FileTypeStep ==
  ASSUME EndsTypeOK, FileNextStep
  PROVE  EndsTypeOK'
<1> USE Constants, PayloadFacts
<1>0. /\ VerbsTypeOK /\ UNCHANGED <<runVars, clientVars>>
      /\ "file" \in Node /\ swapped \in BOOLEAN /\ pos \in 0..size /\ size \in Nat
  BY DEF FileNextStep, EndsTypeOK
<1>1. ASSUME VerbsTypeOK', swapped' \in BOOLEAN, pos' \in 0..size,
             pcF' \in {"idle", "pollA", "pollB", "open", "read", "wait", "next", "return", "fail",
                       "closed", "cut"}
      PROVE  EndsTypeOK'
  BY <1>0, <1>1 DEF EndsTypeOK, runVars, clientVars
<1>2. CASE FileBegin
  BY <1>0, <1>1, <1>2, PostRecvType, SendType DEF FileBegin, Welcome, NoPoll, VerbsTypeOK, Moves
<1>3. CASE FilePollA /\ UNCHANGED pos
  BY <1>0, <1>1, <1>3, PollForSendType DEF FilePollA, Moves
<1>4. CASE FileWrite /\ UNCHANGED swapped
  <2>1. Piece(pos + 1) \in Payload /\ pos' \in 0..size
    BY <1>0, <1>4, PieceTyped DEF FileWrite, FileWrites
  <2>2. mem' \in [Node -> [Part -> Payload]] /\ sq' \in [Node -> Seq(WorkRequest)]
    BY <1>0, <1>4, <2>1, WriteType DEF FileWrite, FileWrites
  <2>3. VerbsTypeOK'
    BY <1>0, <1>4, <2>2 DEF FileWrite, FileWrites, NoRecv, NoPoll, VerbsTypeOK
  <2> QED BY <1>0, <1>1, <1>4, <2>1, <2>3 DEF FileWrite, FileWrites, AfterWrite, Moves
<1>5. CASE FilePollB /\ UNCHANGED <<pos, swapped>>
  BY <1>0, <1>1, <1>5, PollType DEF FilePollB, PollAny, Moves
<1>6. CASE FileOpen /\ UNCHANGED <<pos, swapped>>
  <2>1. CASE PostRecv("file", "recv_mr") /\ NoSend
    BY <1>0, <1>1, <1>6, <2>1, PostRecvType DEF FileOpen, FileOpens, NoSend, NoPoll, VerbsTypeOK,
       Moves
  <2>2. CASE NoRecv /\ PostSend("file", "msg_mr", Text("err"))
    BY <1>0, <1>1, <1>6, <2>2, SendType DEF FileOpen, FileOpens, NoRecv, NoPoll, VerbsTypeOK, Moves
  <2> QED BY <1>6, <2>1, <2>2 DEF FileOpen, FileOpens
<1>7. CASE FileEnd /\ UNCHANGED <<pos, swapped>>
  BY <1>0, <1>1, <1>7, EmptyWriteType DEF FileEnd, NoRecv, NoPoll, VerbsTypeOK, Moves
<1>8. CASE FileWait /\ UNCHANGED <<pos, swapped>>
  BY <1>0, <1>1, <1>8, PollType DEF FileWait, AwaitRecv, PollAny, Moves
<1>9. CASE FileNext /\ UNCHANGED <<pos, swapped>>
  <2>1. rq' \in [Node -> Seq(Region)]
    BY <1>0, <1>9, PostRecvType DEF FileNext, NoRecv, VerbsTypeOK
  <2> QED BY <1>0, <1>1, <1>9, <2>1 DEF FileNext, NoSend, NoPoll, VerbsTypeOK, Moves
<1>10. CASE FileClose
  <2>1. VerbsTypeOK'
    BY <1>0, <1>10, CloseType DEF FileClose
  <2> QED BY <1>0, <1>1, <1>10, <2>1 DEF FileClose
<1> QED BY <1>2, <1>3, <1>4, <1>5, <1>6, <1>7, <1>8, <1>9, <1>10 DEF FileNextStep, FileStep

LEMMA TypeStep ==
  ASSUME EndsTypeOK, [Next]_vars
  PROVE  EndsTypeOK'
<1>1. CASE ClientNext \/ FileNextStep
  BY <1>1, ClientTypeStep, FileTypeStep
<1>2. ASSUME NEW n \in Node, Nic(NicStep(n)) PROVE EndsTypeOK'
  <2>1. VerbsTypeOK'
    BY <1>2, NicType DEF Nic, EndsTypeOK
  <2> QED BY <1>2, <2>1 DEF Nic, EndsTypeOK, runVars, clientVars, fileVars
<1>3. CASE UNCHANGED vars
  BY <1>3 DEF vars, endsVars, verbsVars, runVars, clientVars, fileVars, EndsTypeOK, VerbsTypeOK
<1> QED BY <1>1, <1>2, <1>3 DEF Next

-----------------------------------------------------------------------------
(* What can be on its way, and how a step keeps it. *)

LEMMA ExpectedAt ==
  /\ \A l : /\ Expected("client", l) <=> ForClient(l)
            /\ Expected("file", l)   <=> ForFile(l)
  /\ \A l : /\ Expected("client", l)' <=> ForClient(l)'
            /\ Expected("file", l)'   <=> ForFile(l)'
BY DEF Expected

LEMMA ExpectedLetters ==
  /\ \A n, l : Expected(n, l) => l \in Letters
  /\ \A n, l : Expected(n, l)' => l \in Letters'
BY DEF Expected, Letters, ForClient, ForFile

LEMMA LettersTyped ==
  ASSUME EndsTypeOK, NEW l \in Letters
  PROVE  l \in Message
<1>1. pos \in Nat
  BY Constants DEF EndsTypeOK
<1>2. Piece(pos) \in Payload
  BY <1>1, PieceTyped
<1> QED BY <1>2, LetterFacts DEF Letters

LEMMA LettersApart ==
  /\ Sent("begin")   = [op |-> "SEND", data |-> Text("begin"), len |-> 1, imm |-> 0]
  /\ Sent("request") = [op |-> "SEND", data |-> Text("request"), len |-> 1, imm |-> 0]
  /\ Sent("next")    = [op |-> "SEND", data |-> Text("next"), len |-> 1, imm |-> 0]
  /\ Sent("err")     = [op |-> "SEND", data |-> Text("err"), len |-> 1, imm |-> 0]
  /\ EmptyWrite      = [op |-> "WRITE_IMM", data |-> Nothing, len |-> 0, imm |-> 0]
  /\ \A p, i : Written(p, i) = [op |-> "WRITE_IMM", data |-> p, len |-> 1, imm |-> i]
  /\ \A j, k : Text(j) = Text(k) => j = k
BY DEF Sent, EmptyWrite, Written, Text

LEMMA Silent ==
  ASSUME NEW n, MailOf(n), \A l : ~ Expected(n, l)
  PROVE  Idle(n)
BY DEF MailOf

LEMMA MailIdle ==
  ASSUME NEW n, AllPosted(n, RegionOf(n))', Idle(n)'
  PROVE  MailOf(n)'
BY DEF MailOf

LEMMA MailQueued ==
  ASSUME NEW n, NEW l, AllPosted(n, RegionOf(n))', Idle(Peer[n])', Receives(n)' = 1 \/ Unready(n)',
         Expected(n, l)', IsQueued(n, l)'
  PROVE  MailOf(n)'
<1>1. l \in Letters'
  BY ExpectedLetters
<1>2. InFlight(n, RegionOf(n), l)'
  BY DEF InFlight
<1> QED BY <1>1, <1>2 DEF MailOf

\* A step that changes only places, receives posted and sends completed.
LEMMA MailKeeps ==
  ASSUME NEW n \in Node, MailOf(n), AllPosted(n, RegionOf(n))', RegionOf(n)' = RegionOf(n),
         UNCHANGED <<sq, mem, wire, rcq>>,
         Receives(n) = 1 \/ Unready(n) => Receives(n)' = 1 \/ Unready(n)',
         \A l : Expected(n, l) => Expected(n, l)'
  PROVE  MailOf(n)'
<1>1. PICK r : r = RegionOf(n)
  OBVIOUS
<1>2. RegionOf(n)' = r
  BY <1>1
<1>3. CASE Idle(n)
  BY <1>3, MailKept, MailIdle
<1>4. CASE ~ Idle(n)
  <2>1. PICK l : Expected(n, l) /\ InFlight(n, r, l)
    BY <1>1, <1>4 DEF MailOf
  <2>2. Expected(n, l)' /\ InFlight(n, r, l)' /\ l \in Letters'
    BY <2>1, MailKept, ExpectedLetters
  <2>3. Idle(Peer[n])' /\ (Receives(n)' = 1 \/ Unready(n)')
    BY <1>4, MailKept DEF MailOf
  <2> QED BY <1>2, <2>2, <2>3 DEF MailOf
<1> QED BY <1>3, <1>4

LEMMA MailNic ==
  ASSUME EndsTypeOK, NEW n \in Node, MailOf(n), NEW k \in Node, Nic(NicStep(k))
  PROVE  MailOf(n)'
<1>1. /\ NicStep(k) /\ VerbsTypeOK /\ Paired /\ Peer[n] \in Node
      /\ UNCHANGED <<signals, pause, size, short, canOpen, pcC, immC, dst, doneC, pcF, pos,
                     swapped>>
  BY Constants DEF Nic, runVars, clientVars, fileVars, EndsTypeOK, Paired
<1>2. PICK r : r = RegionOf(n)
  OBVIOUS
<1>3. RegionOf(n)' = r /\ (Unready(n) => Unready(n)')
  BY <1>1, <1>2 DEF RegionOf, Unready
<1>4. AllPosted(n, RegionOf(n))'
  BY <1>1, <1>2, <1>3, NicKeeps DEF MailOf
<1>5. CASE Idle(n)'
  BY <1>4, <1>5, MailIdle
<1>6. CASE ~ Idle(n)'
  <2>1. ~ Idle(n)
    BY <1>1, <1>6, NicKeeps
  <2>2. PICK l \in Letters : Expected(n, l) /\ InFlight(n, r, l)
    BY <1>2, <2>1 DEF MailOf
  <2>3. Idle(Peer[n]) /\ (Receives(n) = 1 \/ Unready(n)) /\ AllPosted(n, r)
    BY <1>2, <2>1 DEF MailOf
  <2>4. Idle(Peer[n])' /\ Receives(n)' = Receives(n)
    BY <1>1, <2>3, NicKeeps
  <2>5. InFlight(n, r, l)'
    <3>1. l \in Message /\ wire[Peer[n]] = <<>>
      BY <2>2, <2>3, LettersTyped DEF Idle
    <3> QED BY <1>1, <1>6, <2>2, <2>3, <3>1, NicInFlight
  <2>6. Expected(n, l)'
    <3>1. Piece(pos)' = Piece(pos)
      BY <1>1 DEF Piece
    <3> QED BY <1>1, <2>2, <3>1 DEF Expected, ForClient, ForFile
  <2>7. l \in Letters'
    BY <2>6, ExpectedLetters
  <2> QED BY <1>3, <1>4, <2>3, <2>4, <2>5, <2>6, <2>7 DEF MailOf
<1> QED BY <1>5, <1>6

\* The completion of a receive is that of a message that was expected, and there is
\* nothing after it.
LEMMA Takes ==
  ASSUME VerbsTypeOK, NEW n \in Node, MailOf(n), PollRecv(n), ~ Unready(n)
  PROVE  /\ Idle(n)' /\ Idle(Peer[n])' /\ Receives(n) = 1 /\ Receives(n)' = 0
         /\ \A s : AllPosted(n, s)'
         /\ UNCHANGED <<up, sq, scq, rq, mem, wire, lost>>
         /\ Sends(n)' = Sends(n)
         /\ \E l : /\ Expected(n, l)
                   /\ Head(rcq[n]).op = (IF l.op = "SEND" THEN "RECV" ELSE "RECV_IMM")
                   /\ Head(rcq[n]).imm = l.imm
                   /\ l.len = 1 => mem[n][Filled(RegionOf(n), l)] = l.data
<1>1. rcq[n] # <<>> /\ UNCHANGED <<up, sq, scq, rq, mem, wire, lost>>
  BY DEF PollRecv
<1>2. PICK l : Expected(n, l) /\ InFlight(n, RegionOf(n), l)
  BY <1>1 DEF MailOf, Idle
<1>3. Idle(Peer[n]) /\ Receives(n) = 1
  BY <1>1 DEF MailOf, Idle
<1>4. IsReceived(n, RegionOf(n), l) /\ Idle(n)'
  <2>1. PICK r : r = RegionOf(n)
    OBVIOUS
  <2>2. IsReceived(n, r, l) /\ Idle(n)'
    BY <1>2, <2>1, PollRecvEffect
  <2> QED BY <2>1, <2>2
<1>5. /\ Receives(n)' = 0 /\ (\A s : AllPosted(n, s)') /\ Sends(n)' = Sends(n)
  BY <1>3, PollCounts
<1>6. Idle(Peer[n])'
  BY <1>3, PollCounts, Constants DEF Paired
<1> QED BY <1>1, <1>2, <1>3, <1>4, <1>5, <1>6 DEF IsReceived

LEMMA MailEmpty ==
  ASSUME NEW n, \A s : AllPosted(n, s)', Idle(n)'
  PROVE  MailOf(n)'
BY DEF MailOf, AllPosted

LEMMA MailIdleKept ==
  ASSUME NEW n, MailOf(n), rq'[n] = rq[n], RegionOf(n)' = RegionOf(n), Idle(n)'
  PROVE  MailOf(n)'
<1>1. AllPosted(n, RegionOf(n))'
  BY DEF MailOf, AllPosted
<1> QED BY <1>1, MailIdle

\* What every step of a process starts from.
LEMMA Facts ==
  ASSUME IInv
  PROVE  /\ EndsTypeOK /\ VerbsTypeOK /\ Paired
         /\ "client" \in Node \ {"file"} /\ "file" \in Node \ {"client"}
         /\ Peer["client"] = "file" /\ Peer["file"] = "client"
         /\ "msg_mr" \in Region /\ "file_mr" \in Region /\ "recv_mr" \in Region
         /\ MailOf("client") /\ MailOf("file")
         /\ (Unready("client") <=> pcC \in {"prepost", "repost"})
         /\ (Unready("client")' <=> pcC' \in {"prepost", "repost"})
         /\ (Unready("file") <=> pcF = "closed") /\ (Unready("file")' <=> pcF' = "closed")
         /\ RegionOf("client") = (IF pcC = "begin" THEN "recv_mr" ELSE "file_mr")
         /\ RegionOf("client")' = (IF pcC' = "begin" THEN "recv_mr" ELSE "file_mr")
         /\ RegionOf("file") = (IF pcF \in {"idle", "pollA", "pollB"} THEN "file_mr" ELSE "recv_mr")
         /\ RegionOf("file")' = (IF pcF' \in {"idle", "pollA", "pollB"} THEN "file_mr" ELSE "recv_mr")
         /\ size \in Nat /\ pos \in Nat /\ pos <= size /\ dst \in Seq(Payload) /\ Len(dst) \in Nat
<1>1. EndsTypeOK /\ MailOf("client") /\ MailOf("file")
  BY DEF IInv
<1>2. size \in Nat /\ pos \in Nat /\ pos <= size /\ dst \in Seq(Payload) /\ Len(dst) \in Nat
  BY <1>1, Constants DEF EndsTypeOK
<1> QED BY <1>1, <1>2, Constants DEF EndsTypeOK, Unready, RegionOf

\* The invariant after a step, in the parts that a step is shown to keep.
Rest == Posted /\ Asking /\ Serving /\ Saved /\ Fresh

LEMMA Kept ==
  ASSUME EndsTypeOK', Ended', MailOf("client")', MailOf("file")', Rest'
  PROVE  IInv'
BY DEF IInv, Rest

LEMMA RestOf ==
  ASSUME IInv
  PROVE  /\ Posted /\ Asking /\ Serving /\ Saved /\ Fresh
         /\ UNCHANGED <<size, short>> =>
              \A i : Piece(i)' = Piece(i) /\ Block(i)' = Block(i) /\ Last(i)' = Last(i)
BY DEF IInv, Piece, Block, Last

-----------------------------------------------------------------------------
(* The steps of the client. *)

LEMMA StepClientBegin ==
  ASSUME IInv, EndsTypeOK', Ended', ClientBegin,
         UNCHANGED <<immC, dst, doneC, size, short, canOpen, pcF, pos>>
  PROVE  IInv'
<1>1. /\ pcC = "begin" /\ pcC' = "ask" /\ PollRecv("client") /\ ~ Unready("client")
  BY Facts DEF ClientBegin, Moves
<1>2. /\ Idle("client")' /\ Idle("file")' /\ Receives("client")' = 0
      /\ (\A s : AllPosted("client", s)') /\ mem' = mem /\ sq' = sq /\ scq' = scq
  BY <1>1, Takes, Facts
<1>3. Same("file")
  BY <1>1, PollSame, Facts DEF PollAny
<1>4. PICK l : /\ Expected("client", l)
               /\ l.len = 1 => mem["client"][Filled(RegionOf("client"), l)] = l.data
  BY <1>1, Takes, Facts
<1>5. l = Sent("begin") /\ pcF \in {"pollA", "pollB"}
  BY <1>1, <1>4, ExpectedAt DEF ForClient
<1>6. mem["client"]["recv_mr"] = Text("begin")
  BY <1>1, <1>4, <1>5, LettersApart, Facts DEF Filled
<1>7. MailOf("client")'
  BY <1>2, MailEmpty
<1>8. /\ Receives("file")' = Receives("file") /\ Sends("file")' = Sends("file")
      /\ rq'["file"] = rq["file"]
  BY <1>3 DEF Same, Receives, Sends
<1>9. MailOf("file")'
  BY <1>2, <1>8, Facts, MailIdleKept
<1>10. Posted'
  BY <1>1, <1>2, <1>8, RestOf DEF Posted
<1>11. Asking'
  BY <1>1, <1>2, <1>5, <1>6, <1>8, RestOf DEF Asking
<1>12. Serving' /\ Saved' /\ Fresh'
  BY <1>1, <1>2, RestOf DEF Serving, Saved, Fresh
<1> QED BY <1>7, <1>9, <1>10, <1>11, <1>12, Kept DEF Rest

\* BEGIN has arrived: the request is sent, to a server that has a receive for it.
LEMMA StepClientAsk ==
  ASSUME IInv, EndsTypeOK', Ended', ClientAsk,
         UNCHANGED <<immC, dst, doneC, size, short, canOpen, pcF, pos>>
  PROVE  IInv'
<1>1. /\ pcC = "ask" /\ pcC' = "prepost" /\ PostSend("client", "msg_mr", Text("request"))
      /\ NoRecv /\ NoPoll
  BY RestOf DEF ClientAsk, Moves, Asking
<1>2. Idle("client") /\ Idle("file")
  <2>1. (\A l : ~ Expected("client", l)) /\ (\A l : ~ Expected("file", l))
    BY <1>1, ExpectedAt DEF ForClient, ForFile
  <2> QED BY <2>1, Silent, Facts
<1>3. /\ IsQueued("file", Sent("request"))' /\ Idle("client")'
      /\ Sends("file")' = Sends("file")
      /\ \A x \in Region \ {"msg_mr"} : mem'["client"][x] = mem["client"][x]
  BY <1>1, <1>2, SendAnswer, Facts
<1>4. Same("file")
  BY <1>1, SendSame, Facts
<1>5. /\ Receives("file")' = Receives("file") /\ Receives("client")' = Receives("client")
      /\ UNCHANGED rq
  BY <1>1 DEF NoRecv, NoPoll, Receives
<1>6. pcF \in {"pollA", "pollB"} /\ Receives("file") = 1 /\ Receives("client") = 0
  BY <1>1, RestOf DEF Asking, Posted
<1>7. MailOf("client")'
  <2>1. \A s : AllPosted("client", s)'
    BY <1>5, <1>6, NoReceives, Facts DEF AllPosted
  <2> QED BY <1>3, <2>1, MailEmpty
<1>8. MailOf("file")'
  <2>1. Expected("file", Sent("request"))'
    BY <1>1, <1>6, ExpectedAt DEF ForFile
  <2>2. AllPosted("file", RegionOf("file"))'
    BY <1>5, Facts DEF MailOf, AllPosted
  <2>3. Idle(Peer["file"])' /\ Receives("file")' = 1
    BY <1>3, <1>5, <1>6, Facts
  <2> QED BY <1>3, <2>1, <2>2, <2>3, MailQueued
<1>9. mem'["file"] = mem["file"] /\ mem'["client"]["file_mr"] = mem["client"]["file_mr"]
  BY <1>3, <1>4, Facts DEF Same
<1>10. Posted'
  BY <1>1, <1>5, <1>6 DEF Posted
<1>11. Asking'
  BY <1>1, <1>3, <1>5, <1>6, RestOf DEF Asking
<1>12. Serving' /\ Saved' /\ Fresh'
  BY <1>1, <1>6, <1>9, RestOf DEF Serving, Saved, Fresh
<1> QED BY <1>7, <1>8, <1>10, <1>11, <1>12, Kept DEF Rest

LEMMA StepClientPrepost ==
  ASSUME IInv, EndsTypeOK', Ended', ClientPrepost,
         UNCHANGED <<immC, dst, doneC, size, short, canOpen, pcF, pos>>
  PROVE  IInv'
<1>1. /\ pcC = "prepost" /\ pcC' = "loop"
      /\ PostRecv("client", "file_mr") /\ UNCHANGED <<up, sq, scq, rcq, mem, wire, lost>>
  BY DEF ClientPrepost, Moves, NoSend, NoPoll
<1>2. /\ Receives("client") = 0 /\ RegionOf("client") = "file_mr" /\ RegionOf("client")' = "file_mr"
      /\ RegionOf("file")' = RegionOf("file")
  BY <1>1, RestOf, Facts DEF Posted
<1>3. /\ Receives("client")' = 1 /\ Receives("file")' = Receives("file")
      /\ AllPosted("client", "file_mr")' /\ (\A s : AllPosted("file", s) => AllPosted("file", s)')
      /\ Sends("file")' = Sends("file")
  BY <1>1, <1>2, PostCounts, NoReceives, Facts DEF Sends
<1>4. MailOf("client")'
  <2>1. \A l : Expected("client", l) => Expected("client", l)'
    BY <1>1, RestOf, ExpectedAt DEF ForClient
  <2> QED BY <1>1, <1>2, <1>3, <2>1, MailKeeps, Facts
<1>5. MailOf("file")'
  <2>1. \A l : Expected("file", l) => Expected("file", l)'
    BY <1>1, ExpectedAt DEF ForFile
  <2>2. AllPosted("file", RegionOf("file"))'
    <3>1. PICK r : r = RegionOf("file")
      OBVIOUS
    <3>2. AllPosted("file", r)'
      BY <1>3, <3>1, Facts DEF MailOf
    <3> QED BY <1>2, <3>1, <3>2
  <2> QED BY <1>1, <1>2, <1>3, <2>1, <2>2, MailKeeps, Facts
<1>6. Posted'
  BY <1>1, <1>3, RestOf DEF Posted
<1>7. Asking'
  BY <1>1, <1>3, RestOf DEF Asking
<1>8. Serving' /\ Saved' /\ Fresh'
  BY <1>1, <1>3, RestOf DEF Serving, Saved, Fresh
<1> QED BY <1>4, <1>5, <1>6, <1>7, <1>8, Kept DEF Rest

\* The completion of a send changes only how many are left.
LEMMA SendPolled ==
  ASSUME IInv, EndsTypeOK', Ended', NEW n \in {"client", "file"}, PollSend(n),
         UNCHANGED <<pcC, immC, dst, doneC, size, short, canOpen, pcF, pos>>,
         n = "file" => pcF = "wait"
  PROVE  IInv'
<1>1. /\ UNCHANGED <<up, sq, rq, rcq, mem, wire, lost>> /\ n \in Node
      /\ RegionOf("client")' = RegionOf("client") /\ RegionOf("file")' = RegionOf("file")
  BY Facts, PollSendCounts
<1>2. /\ Receives("client")' = Receives("client") /\ Receives("file")' = Receives("file")
      /\ n = "client" => Sends("file")' = Sends("file")
  BY Facts, PollSendCounts
<1>3. MailOf("client")'
  <2>1. \A l : Expected("client", l) => Expected("client", l)'
    BY RestOf, ExpectedAt DEF ForClient
  <2>2. AllPosted("client", RegionOf("client"))'
    BY <1>1, Facts DEF MailOf, AllPosted
  <2> QED BY <1>1, <1>2, <2>1, <2>2, MailKeeps, Facts
<1>4. MailOf("file")'
  <2>1. \A l : Expected("file", l) => Expected("file", l)'
    BY ExpectedAt DEF ForFile
  <2>2. AllPosted("file", RegionOf("file"))'
    BY <1>1, Facts DEF MailOf, AllPosted
  <2> QED BY <1>1, <1>2, <2>1, <2>2, MailKeeps, Facts
<1>5. Posted'
  BY <1>2, RestOf DEF Posted
<1>6. Asking'
  BY <1>1, <1>2, RestOf DEF Asking
<1>7. Serving' /\ Saved' /\ Fresh'
  BY <1>1, <1>2, RestOf DEF Serving, Saved, Fresh
<1> QED BY <1>3, <1>4, <1>5, <1>6, <1>7, Kept DEF Rest

\* What a client that waits receives is the last chunk, the end of the file, or the
\* error, which it takes no notice of.
LEMMA StepClientPoll ==
  ASSUME IInv, EndsTypeOK', Ended', ClientPoll, UNCHANGED <<dst, doneC, size, short, canOpen, pcF,
                                                            pos>>
  PROVE  IInv'
<1>1. CASE PollSend("client") /\ pcC' = pcC /\ immC' = immC
  BY <1>1, SendPolled
<1>2. CASE /\ PollRecv("client") /\ immC' = Head(rcq["client"]).imm /\ pcC = "loop"
           /\ pcC' = IF Head(rcq["client"]).op = "RECV_IMM" THEN "imm" ELSE "loop"
  <2>0. ~ Unready("client")
    BY <1>2, Facts
  <2>1. /\ Idle("client")' /\ Idle("file")' /\ Receives("client")' = 0
        /\ (\A s : AllPosted("client", s)') /\ mem' = mem /\ sq' = sq /\ scq' = scq
    BY <1>2, <2>0, Takes, Facts
  <2>2. Same("file")
    BY <1>2, PollSame, Facts DEF PollAny
  <2>3. PICK l : /\ Expected("client", l)
                 /\ Head(rcq["client"]).op = (IF l.op = "SEND" THEN "RECV" ELSE "RECV_IMM")
                 /\ Head(rcq["client"]).imm = l.imm
                 /\ l.len = 1 => mem["client"][Filled(RegionOf("client"), l)] = l.data
    BY <1>2, <2>0, Takes, Facts
  <2>4. \/ l = Sent("err") /\ ~ canOpen /\ pcF = "return"
        \/ /\ l = Written(Piece(pos), 1) /\ pos = Len(dst) + 1
           /\ pcF \in {"wait", "fail", "closed"}
        \/ l = EmptyWrite /\ pos = size /\ Len(dst) = size /\ canOpen /\ pcF = "return"
    BY <1>2, <2>3, ExpectedAt DEF ForClient
  <2>5. \/ pcC' = "loop" /\ ~ canOpen /\ pcF = "return"
        \/ /\ pcC' = "imm" /\ immC' = 1 /\ mem["client"]["file_mr"] = Piece(pos)
           /\ pos = Len(dst) + 1 /\ pcF \in {"wait", "fail", "closed"}
        \/ /\ pcC' = "imm" /\ immC' = 0 /\ pos = size /\ Len(dst) = size /\ canOpen
           /\ pcF = "return"
    <3>1. CASE l = Sent("err") /\ ~ canOpen /\ pcF = "return"
      BY <1>2, <2>3, <3>1, LettersApart
    <3>2. CASE /\ l = Written(Piece(pos), 1) /\ pos = Len(dst) + 1
               /\ pcF \in {"wait", "fail", "closed"}
      BY <1>2, <2>3, <3>2, LettersApart DEF Filled
    <3>3. CASE l = EmptyWrite /\ pos = size /\ Len(dst) = size /\ canOpen /\ pcF = "return"
      BY <1>2, <2>3, <3>3, LettersApart
    <3> QED BY <2>4, <3>1, <3>2, <3>3
  <2>6. MailOf("client")'
    BY <2>1, MailEmpty
  <2>7. /\ Receives("file")' = Receives("file") /\ Sends("file")' = Sends("file")
        /\ rq'["file"] = rq["file"]
    BY <2>2 DEF Same, Receives, Sends
  <2>8. MailOf("file")'
    BY <2>1, <2>7, Facts, MailIdleKept
  <2>9. Posted'
    BY <1>2, <2>1, <2>5, <2>7, RestOf DEF Posted
  <2>10. Asking'
    BY <1>2, <2>1, <2>5, <2>7, RestOf DEF Asking
  <2>11. Serving'
    BY <1>2, <2>1, <2>5, RestOf DEF Serving
  <2>12. Saved' /\ Fresh'
    BY <1>2, <2>1, <2>5, RestOf DEF Saved, Fresh
  <2> QED BY <2>6, <2>8, <2>9, <2>10, <2>11, <2>12, Kept DEF Rest
<1> QED BY <1>1, <1>2 DEF ClientPoll, Moves

\* What the client saves: the chunk that it has received, followed by the end of the
\* one before if it is shorter than the region, or, at the empty write, the block that
\* it has saved last.
LEMMA EndTail ==
  ASSUME IInv, short, Len(dst) + 1 >= size
  PROVE  mem["client"]["file_end"].tail = size - 1
<1>1. mem["client"]["file_end"].tail \in Nat
  BY Facts DEF VerbsTypeOK, Part, Payload
<1> QED BY <1>1, Facts DEF IInv, Ended, EndKept

LEMMA ChunkSaved ==
  ASSUME IInv, pcC = "imm", SaveChunk
  PROVE  /\ ~ doneC /\ Len(dst') = Len(dst) + 1 /\ dst' = Append(dst, dst'[Len(dst) + 1])
         /\ dst'[Len(dst) + 1] \in Payload
         /\ \A i \in 1..Len(dst) : dst'[i] = dst[i]
         /\ \/ /\ immC = 1 /\ pos = Len(dst) + 1 /\ dst'[Len(dst) + 1] = Block(pos)
               /\ mem["client"]["file_mr"] = Piece(pos) /\ pcF \in {"wait", "fail", "closed"}
            \/ /\ immC = 0 /\ pos = size /\ Len(dst) = size /\ dst'[Len(dst) + 1] = Last(size)
               /\ canOpen /\ pcF = "return"
<1> DEFINE x == FileBlock("client")
<1>1. \/ /\ immC = 1 /\ mem["client"]["file_mr"] = Piece(pos) /\ pos = Len(dst) + 1
         /\ pcF \in {"wait", "fail", "closed"} /\ x = Block(pos)
      \/ /\ immC = 0 /\ pos = size /\ Len(dst) = size /\ canOpen /\ pcF = "return"
         /\ x = Last(size)
  <2>1. CASE /\ immC = 1 /\ mem["client"]["file_mr"] = Piece(pos) /\ pos = Len(dst) + 1
             /\ pcF \in {"wait", "fail", "closed"}
    <3>1. short /\ pos = size => mem["client"]["file_end"].tail = pos - 1
      BY <2>1, EndTail, Facts
    <3> QED BY <2>1, <3>1, BlockRead, Facts
  <2>2. CASE immC = 0 /\ pos = size /\ Len(dst) = size /\ canOpen /\ pcF = "return"
    <3>1. mem["client"]["file_mr"] = IF size = 0 THEN Nothing ELSE Piece(size)
      BY <2>2, RestOf DEF Fresh
    <3>2. CASE size = 0
      BY <2>2, <3>1, <3>2 DEF FileBlock, Nothing, Text, Last
    <3>3. CASE size # 0
      <4>1. short => mem["client"]["file_end"].tail = size - 1
        BY <2>2, EndTail, Facts
      <4> QED BY <2>2, <3>1, <3>3, <4>1, BlockRead, Facts DEF Last
    <3> QED BY <3>2, <3>3
  <2> QED BY <2>1, <2>2, RestOf DEF Serving
<1>2. x \in Payload
  BY FileBlockType, Facts
<1>3. dst' = Append(dst, x) /\ dst \in Seq(Payload)
  BY Facts DEF SaveChunk
<1> HIDE DEF x
<1>4. /\ Len(dst') = Len(dst) + 1 /\ dst'[Len(dst) + 1] = x
      /\ \A i \in 1..Len(dst) : dst'[i] = dst[i]
  BY <1>2, <1>3, AppendFacts
<1>5. ~ doneC
  BY RestOf DEF Saved
<1> QED BY <1>1, <1>2, <1>3, <1>4, <1>5

\* A block is saved, and NEXT sent by a client that signals, before the receive for the
\* next chunk is posted.
LEMMA StepClientSave ==
  ASSUME IInv, EndsTypeOK', Ended', ClientSave, UNCHANGED <<immC, size, short, canOpen, pcF, pos>>
  PROVE  IInv'
<1>1. /\ pcC = "imm" /\ immC # 0 /\ pcC' = "repost"
      /\ NoRecv /\ NoPoll /\ SaveChunk /\ doneC' = doneC /\ rcq' = rcq /\ rq' = rq
  BY DEF ClientSave, Moves, NoPoll, NoRecv
<1>2. /\ ~ doneC /\ pos = Len(dst) + 1 /\ Len(dst') = pos /\ dst'[pos] = Block(pos)
      /\ (\A i \in 1..Len(dst) : dst'[i] = dst[i])
      /\ mem["client"]["file_mr"] = Piece(pos) /\ pcF \in {"wait", "fail", "closed"}
  BY <1>1, ChunkSaved, Facts
<1>3. Idle("client") /\ Idle("file")
  <2>1. (\A l : ~ Expected("client", l)) /\ (\A l : ~ Expected("file", l))
    BY <1>1, ExpectedAt DEF ForClient, ForFile
  <2> QED BY <2>1, Silent, Facts
<1>4. Same("file")
  BY <1>1, SendSame, Facts DEF ClientSave
<1>5. /\ Receives("client") = 0 /\ Receives("file") = IF pcF = "closed" THEN 0 ELSE 1
  BY <1>1, <1>2, RestOf DEF Posted
<1>6. Receives("client")' = 0 /\ \A r : AllPosted("client", r)'
  <2>1. \A r : AllPosted("client", r)
    BY <1>5, Facts, NoReceives
  <2> QED BY <1>1, <1>5, <2>1 DEF Receives, AllPosted
<1>7. /\ Receives("file")' = Receives("file") /\ Sends("file")' = Sends("file")
      /\ rq'["file"] = rq["file"] /\ mem'["file"] = mem["file"]
  BY <1>4 DEF Same, Sends, Receives
<1>8. /\ mem'["client"]["file_mr"] = mem["client"]["file_mr"]
      /\ \/ Idle("client")' /\ Idle("file")'
         \/ Idle("client")' /\ IsQueued("file", Sent("next"))'
  <2>1. CASE PostSend("client", "msg_mr", Text("next"))
    <3>1. \A x \in Region \ {"msg_mr"} : mem'["client"][x] = mem["client"][x]
      BY <1>1, <1>3, <2>1, SendAnswer, Facts
    <3>2. Idle("client")' /\ IsQueued("file", Sent("next"))'
      BY <1>1, <1>3, <2>1, SendAnswer, Facts
    <3> QED BY <3>1, <3>2, Facts
  <2>2. CASE NoSend
    BY <1>1, <1>3, <2>2, MailKept DEF NoSend, NoPoll, Idle
  <2> QED BY <2>1, <2>2, <1>1 DEF ClientSave
<1>9. MailOf("client")'
  BY <1>6, <1>8, MailEmpty
<1>10. MailOf("file")'
  <2>1. AllPosted("file", RegionOf("file"))'
    BY <1>7, Facts DEF MailOf, AllPosted
  <2>2. CASE Idle("file")'
    BY <2>1, <2>2, MailIdle
  <2>3. CASE IsQueued("file", Sent("next"))'
    <3>1. Expected("file", Sent("next"))'
      BY <1>1, <1>2, ExpectedAt DEF ForFile
    <3>2. Idle(Peer["file"])' /\ (Receives("file")' = 1 \/ Unready("file")')
      BY <1>5, <1>7, <1>8, Facts
    <3> QED BY <2>1, <2>3, <3>1, <3>2, MailQueued
  <2> QED BY <1>8, <2>2, <2>3
<1>11. Posted'
  BY <1>1, <1>2, <1>6, <1>7, RestOf DEF Posted
<1>12. Asking'
  BY <1>1, <1>2, RestOf DEF Asking
<1>13. Serving' /\ Fresh'
  BY <1>1, <1>2, <1>6, <1>7, <1>8, RestOf, Facts DEF Serving, Fresh
<1>14. Saved'
  <2>1. \A i \in 1..Len(dst) : i <= size => dst[i] = Block(i)
    BY RestOf DEF Saved
  <2> QED BY <1>1, <1>2, <2>1, Facts, RestOf DEF Saved
<1> QED BY <1>9, <1>10, <1>11, <1>12, <1>13, <1>14, Kept DEF Rest

\* The receive for the next chunk, which may already be on its way.
LEMMA StepClientRepost ==
  ASSUME IInv, EndsTypeOK', Ended', ClientRepost,
         UNCHANGED <<immC, dst, doneC, size, short, canOpen, pcF, pos>>
  PROVE  IInv'
<1>1. /\ pcC = "repost" /\ pcC' = "loop"
      /\ PostRecv("client", "file_mr") /\ UNCHANGED <<up, sq, scq, rcq, mem, wire, lost>>
  BY DEF ClientRepost, Moves, NoSend, NoPoll
<1>2. /\ Receives("client") = 0 /\ RegionOf("client") = "file_mr" /\ RegionOf("client")' = "file_mr"
      /\ RegionOf("file")' = RegionOf("file")
  BY <1>1, RestOf, Facts DEF Posted
<1>3. /\ Receives("client")' = 1 /\ Receives("file")' = Receives("file")
      /\ AllPosted("client", "file_mr")' /\ (\A s : AllPosted("file", s) => AllPosted("file", s)')
      /\ Sends("file")' = Sends("file")
  BY <1>1, <1>2, PostCounts, NoReceives, Facts DEF Sends
<1>4. MailOf("client")'
  <2>1. \A l : Expected("client", l) => Expected("client", l)'
    BY <1>1, RestOf, ExpectedAt DEF ForClient
  <2> QED BY <1>1, <1>2, <1>3, <2>1, MailKeeps, Facts
<1>5. MailOf("file")'
  <2>1. \A l : Expected("file", l) => Expected("file", l)'
    BY <1>1, ExpectedAt DEF ForFile
  <2>2. AllPosted("file", RegionOf("file"))'
    <3>1. PICK r : r = RegionOf("file")
      OBVIOUS
    <3>2. AllPosted("file", r)'
      BY <1>3, <3>1, Facts DEF MailOf
    <3> QED BY <1>2, <3>1, <3>2
  <2> QED BY <1>1, <1>2, <1>3, <2>1, <2>2, MailKeeps, Facts
<1>6. Posted'
  BY <1>1, <1>3, RestOf DEF Posted
<1>7. Asking'
  BY <1>1, <1>3, RestOf DEF Asking
<1>8. Serving' /\ Saved' /\ Fresh'
  BY <1>1, <1>3, RestOf DEF Serving, Saved, Fresh
<1> QED BY <1>4, <1>5, <1>6, <1>7, <1>8, Kept DEF Rest

LEMMA StepClientSaveLast ==
  ASSUME IInv, EndsTypeOK', Ended', ClientSaveLast, UNCHANGED <<immC, size, short, canOpen, pcF,
                                                                pos>>
  PROVE  IInv'
<1>1. /\ pcC = "imm" /\ immC = 0 /\ pcC' = "close" /\ doneC' = TRUE /\ SaveChunk
      /\ UNCHANGED <<sq, mem, rq, up, scq, rcq, wire, lost>>
  BY DEF ClientSaveLast, Moves, NoPoll, NoSend, NoRecv
<1>2. /\ pos = size /\ Len(dst) = size /\ Len(dst') = size + 1 /\ dst'[size + 1] = Last(size)
      /\ (\A i \in 1..Len(dst) : dst'[i] = dst[i]) /\ pcF = "return" /\ canOpen
  BY <1>1, ChunkSaved, Facts
<1>3. Idle("client") /\ Idle("file")
  <2>1. (\A l : ~ Expected("client", l)) /\ (\A l : ~ Expected("file", l))
    BY <1>1, ExpectedAt DEF ForClient, ForFile
  <2> QED BY <2>1, Silent, Facts
<1>4. Idle("client")' /\ Idle("file")'
  BY <1>1, <1>3, MailKept
<1>5. Receives("client")' = Receives("client") /\ Receives("file")' = Receives("file")
  BY <1>1 DEF Receives
<1>6. MailOf("client")' /\ MailOf("file")'
  BY <1>1, <1>4, MailIdleKept, Facts
<1>7. Posted'
  BY <1>1, <1>5, RestOf DEF Posted
<1>8. Asking'
  BY <1>1, <1>2, RestOf DEF Asking
<1>9. Serving'
  BY <1>1, <1>2, RestOf DEF Serving
<1>10. Saved' /\ Fresh'
  <2>1. \A i \in 1..Len(dst) : i <= size => dst[i] = Block(i)
    BY RestOf DEF Saved
  <2> QED BY <1>1, <1>2, <2>1, Facts, RestOf DEF Saved, Fresh
<1> QED BY <1>6, <1>7, <1>8, <1>9, <1>10, Kept DEF Rest

LEMMA StepClientClose ==
  ASSUME IInv, EndsTypeOK', Ended', ClientClose,
         UNCHANGED <<immC, dst, doneC, size, short, canOpen, pcF, pos>>
  PROVE  IInv'
<1>1. pcC = "close" /\ pcC' = "closed" /\ CloseNode("client")
  BY DEF ClientClose, Moves
<1>2. Idle("client") /\ Idle("file")
  <2>1. (\A l : ~ Expected("client", l)) /\ (\A l : ~ Expected("file", l))
    BY <1>1, RestOf, ExpectedAt DEF ForClient, ForFile
  <2> QED BY <2>1, Silent, Facts
<1>3. /\ Idle("client")' /\ Idle("file")' /\ Receives("client")' = 0
      /\ (\A s : AllPosted("client", s)') /\ mem' = mem
  BY <1>1, <1>2, CloseEffect, Facts
<1>4. Same("file")
  BY <1>1, CloseEffect, Facts DEF Same
<1>5. /\ Receives("file")' = Receives("file") /\ rq'["file"] = rq["file"]
      /\ Sends("file")' = Sends("file")
  BY <1>4 DEF Same, Receives, Sends
<1>6. MailOf("client")'
  BY <1>3, MailEmpty
<1>7. MailOf("file")'
  BY <1>1, <1>3, <1>5, Facts, MailIdleKept
<1>8. Posted'
  BY <1>1, <1>3, <1>5, RestOf DEF Posted
<1>9. Asking'
  BY <1>1, <1>3, <1>5, RestOf DEF Asking
<1>10. Serving' /\ Saved' /\ Fresh'
  BY <1>1, <1>3, RestOf DEF Serving, Saved, Fresh
<1> QED BY <1>6, <1>7, <1>8, <1>9, <1>10, Kept DEF Rest

LEMMA ClientKeeps ==
  ASSUME IInv, EndsTypeOK', Ended', ClientNext
  PROVE  IInv'
<1>1. ClientStep /\ UNCHANGED <<size, short, canOpen, pcF, pos>>
  BY DEF ClientNext, runVars, fileVars
<1>2. CASE ClientBegin /\ UNCHANGED <<immC, dst, doneC>>
  BY <1>1, <1>2, StepClientBegin
<1>3. CASE ClientAsk /\ UNCHANGED <<immC, dst, doneC>>
  BY <1>1, <1>3, StepClientAsk
<1>4. CASE ClientPrepost /\ UNCHANGED <<immC, dst, doneC>>
  BY <1>1, <1>4, StepClientPrepost
<1>5. CASE ClientClose /\ UNCHANGED <<immC, dst, doneC>>
  BY <1>1, <1>5, StepClientClose
<1>9. CASE ClientRepost /\ UNCHANGED <<immC, dst, doneC>>
  BY <1>1, <1>9, StepClientRepost
<1>6. CASE ClientPoll /\ UNCHANGED <<dst, doneC>>
  BY <1>1, <1>6, StepClientPoll
<1>7. CASE ClientSave /\ UNCHANGED immC
  BY <1>1, <1>7, StepClientSave
<1>8. CASE ClientSaveLast /\ UNCHANGED immC
  BY <1>1, <1>8, StepClientSaveLast
<1> QED BY <1>1, <1>2, <1>3, <1>4, <1>5, <1>6, <1>7, <1>8, <1>9 DEF ClientStep

-----------------------------------------------------------------------------
(* The steps of the file server. *)

LEMMA StepFileBegin ==
  ASSUME IInv, EndsTypeOK', Ended', FileBegin, UNCHANGED <<size, short, canOpen, pcC, immC, dst,
                                                           doneC>>
  PROVE  IInv'
<1>1. /\ pcF = "idle" /\ pcF' = "pollA" /\ Welcome("file") /\ pos' = pos
  BY DEF FileBegin, Moves
<1>2. /\ pcC = "begin" /\ Receives("file") = 0 /\ Receives("client") = 1 /\ Sends("file") = 0
  BY <1>1, RestOf DEF Asking, Posted
<1>3. Idle("client") /\ Idle("file")
  <2>1. (\A l : ~ Expected("client", l)) /\ (\A l : ~ Expected("file", l))
    BY <1>1, <1>2, ExpectedAt DEF ForClient, ForFile
  <2> QED BY <2>1, Silent, Facts
<1>4. /\ IsQueued("client", Sent("begin"))' /\ Idle("file")'
      /\ Receives("file")' = 1 /\ AllPosted("file", "file_mr")' /\ Sends("file")' = 1
      /\ Same("client")
  BY <1>1, <1>2, <1>3, Facts, WelcomeEffect
<1>5. /\ Receives("client")' = 1 /\ rq'["client"] = rq["client"] /\ mem'["client"] = mem["client"]
  BY <1>2, <1>4 DEF Same, Receives
<1>6. MailOf("file")'
  <2>1. RegionOf("file")' = "file_mr"
    BY <1>1, Facts
  <2> QED BY <1>4, <2>1, MailIdle
<1>7. MailOf("client")'
  <2>1. Expected("client", Sent("begin"))'
    BY <1>1, <1>2, ExpectedAt DEF ForClient
  <2>2. AllPosted("client", RegionOf("client"))'
    BY <1>5, Facts DEF MailOf, AllPosted
  <2>3. Idle(Peer["client"])'
    BY <1>4, Facts
  <2> QED BY <1>4, <1>5, <2>1, <2>2, <2>3, MailQueued
<1>8. Posted'
  BY <1>1, <1>2, <1>4, <1>5 DEF Posted
<1>9. Asking'
  BY <1>1, <1>2, <1>4, <1>5, RestOf DEF Asking
<1>10. Serving' /\ Saved' /\ Fresh'
  BY <1>1, <1>2, <1>5, RestOf DEF Serving, Saved, Fresh
<1> QED BY <1>6, <1>7, <1>8, <1>9, <1>10, Kept DEF Rest

\* Of the two polls after BEGIN one returns its completion, the other the request.
LEMMA StepFileSendPolled ==
  ASSUME IInv, EndsTypeOK', Ended', PollSend("file"),
         UNCHANGED <<size, short, canOpen, pcC, immC, dst, doneC, pos>>,
         \/ pcF = "pollA" /\ pcF' = "pollB"
         \/ pcF = "pollB" /\ pcF' = "return"
  PROVE  IInv'
<1>1. /\ UNCHANGED <<up, sq, rq, rcq, mem, wire, lost>>
      /\ \A k \in Node : Receives(k)' = Receives(k)
      /\ Sends("file") \in Nat /\ Sends("file") > 0 /\ Sends("file")' = Sends("file") - 1
  BY PollSendCounts, Facts
<1>2. /\ Receives("client")' = Receives("client") /\ Receives("file")' = Receives("file")
      /\ (pcF = "pollA" => Receives("file") = 1 /\ Sends("file") = 1 /\ Sends("file")' = 0)
  BY <1>1, Facts, RestOf DEF Posted, Asking
<1>3. pcF = "pollB" => Receives("file") = 0
  <2>1. PICK s \in Nat : s = Sends("file") /\ s > 0
    BY <1>1
  <2>2. pcF = "pollB" => /\ Receives("file") = 0 \/ Receives("file") = 1
                         /\ s + Receives("file") = 1
    BY <2>1, RestOf DEF Posted, Asking
  <2> QED BY <2>1, <2>2
<1>4. CASE pcF = "pollA" /\ pcF' = "pollB"
  <2>1. MailOf("client")'
    <3>1. \A l : Expected("client", l) => Expected("client", l)'
      BY <1>4, ExpectedAt DEF ForClient
    <3>2. AllPosted("client", RegionOf("client"))'
      BY <1>1, Facts DEF MailOf, AllPosted
    <3> QED BY <1>1, <3>1, <3>2, MailKeeps, Facts
  <2>2. MailOf("file")'
    <3>1. \A l : Expected("file", l) => Expected("file", l)'
      BY <1>4, ExpectedAt DEF ForFile
    <3>2. RegionOf("file")' = RegionOf("file") /\ ~ Unready("file")
      BY <1>4, Facts
    <3>3. AllPosted("file", RegionOf("file"))'
      BY <1>1, <3>2, Facts DEF MailOf, AllPosted
    <3> QED BY <1>1, <3>1, <3>2, <3>3, MailKeeps, Facts
  <2>3. Posted'
    BY <1>2, <1>4, RestOf DEF Posted
  <2>4. Asking'
    BY <1>1, <1>2, <1>4, RestOf DEF Asking
  <2>5. Serving' /\ Saved' /\ Fresh'
    BY <1>1, <1>2, <1>4, RestOf DEF Serving, Saved, Fresh
  <2> QED BY <2>1, <2>2, <2>3, <2>4, <2>5, Kept DEF Rest
<1>5. CASE pcF = "pollB" /\ pcF' = "return"
  <2>1. pcC \notin {"begin", "ask"} /\ pos = 0 /\ dst = <<>>
    BY <1>3, <1>5, RestOf DEF Asking
  <2>2. Idle("client") /\ Idle("file")
    <3>1. \A l : ~ Expected("client", l)
      BY <1>5, <2>1, ExpectedAt DEF ForClient
    <3>2. Idle("file")
      BY <1>3, <1>5, Facts DEF MailOf
    <3> QED BY <3>1, <3>2, Silent, Facts
  <2>3. Idle("client")' /\ Idle("file")'
    BY <1>1, <2>2, MailKept
  <2>4. MailOf("client")'
    BY <1>1, <2>3, MailIdleKept, Facts
  <2>5. MailOf("file")'
    <3>1. \A s : AllPosted("file", s)'
      BY <1>1, <1>3, <1>5, Facts, NoReceives DEF AllPosted
    <3> QED BY <2>3, <3>1, MailEmpty
  <2>6. Posted'
    BY <1>2, <1>3, <1>5, RestOf DEF Posted
  <2>7. Asking'
    BY <1>1, <1>2, <1>5, <2>1, RestOf DEF Asking
  <2>8. Serving' /\ Saved' /\ Fresh'
    BY <1>1, <1>2, <1>5, RestOf DEF Serving, Saved, Fresh
  <2> QED BY <2>4, <2>5, <2>6, <2>7, <2>8, Kept DEF Rest
<1> QED BY <1>4, <1>5

\* What the file server receives: the request, which the first of its two polls can
\* already return, and then NEXT.
LEMMA StepFileRecv ==
  ASSUME IInv, EndsTypeOK', Ended', PollRecv("file"),
         UNCHANGED <<size, short, canOpen, pcC, immC, dst, doneC, pos>>,
         \/ pcF = "pollA" /\ pcF' = "pollB"
         \/ pcF = "pollB" /\ pcF' = "open"
         \/ pcF = "wait" /\ pcF' = "next"
  PROVE  IInv'
<1>0. ~ Unready("file")
  BY Facts
<1>1. /\ Idle("file")' /\ Idle("client")' /\ mem' = mem
      /\ Receives("file") = 1 /\ Receives("file")' = 0 /\ Sends("file")' = Sends("file")
      /\ (\A s : AllPosted("file", s)')
  BY <1>0, Facts, Takes
<1>2. Same("client")
  BY PollSame, Facts DEF PollAny
<1>3. PICK l : /\ Expected("file", l)
               /\ l.len = 1 => mem["file"][Filled(RegionOf("file"), l)] = l.data
  BY <1>0, Facts, Takes
<1>4. \/ l = Sent("request") /\ pcC \in {"prepost", "loop"} /\ pcF \in {"pollA", "pollB"}
      \/ l = Sent("next") /\ pcC \in {"repost", "loop"} /\ pcF = "wait" /\ pos = Len(dst)
  BY <1>3, ExpectedAt DEF ForFile
<1>5. pcF = "wait" => mem["file"]["recv_mr"] = Text("next")
  BY <1>3, <1>4, LettersApart, Facts DEF Filled
<1>6. Receives("client")' = Receives("client") /\ rq'["client"] = rq["client"]
  BY <1>2 DEF Same, Receives
<1>7. MailOf("file")'
  BY <1>1, MailEmpty
<1>8. MailOf("client")'
  BY <1>1, <1>6, Facts, MailIdleKept
<1>9. Posted'
  BY <1>1, <1>6, RestOf DEF Posted
<1>10. pcF = "pollA" => Sends("file") = 1
  BY RestOf DEF Asking
<1>11. pcF \in {"pollA", "pollB"} => pos = 0 /\ dst = <<>> /\ Len(dst) = 0
  BY RestOf DEF Asking
<1>12. Asking'
  BY <1>1, <1>4, <1>6, <1>10, <1>11, RestOf DEF Asking
<1>13. Serving'
  BY <1>1, <1>4, <1>5, <1>6, <1>11, RestOf DEF Serving
<1>14. Saved' /\ Fresh'
  BY <1>1, RestOf DEF Saved, Fresh
<1> QED BY <1>7, <1>8, <1>9, <1>12, <1>13, <1>14, Kept DEF Rest

\* The places of the file server at which nothing is between it and the client.
LEMMA FileQuiet ==
  ASSUME IInv, pcF \in {"open", "read", "next"}
  PROVE  /\ Idle("client") /\ Idle("file") /\ pcC \in {"prepost", "repost", "loop"} /\ pos = Len(dst)
         /\ Receives("client") = (IF pcC = "loop" THEN 1 ELSE 0)
         /\ Receives("file") = (IF pcF = "read" THEN 1 ELSE 0)
<1>1. pcC \in {"prepost", "repost", "loop"} /\ pos = Len(dst)
  BY RestOf DEF Serving
<1>2. (\A l : ~ Expected("client", l)) /\ (\A l : ~ Expected("file", l))
  BY <1>1, ExpectedAt DEF ForClient, ForFile
<1>3. Idle("client") /\ Idle("file")
  BY <1>2, Silent, Facts
<1>4. /\ Receives("client") = (IF pcC = "loop" THEN 1 ELSE 0)
      /\ Receives("file") = (IF pcF = "read" THEN 1 ELSE 0)
  BY <1>1, RestOf DEF Posted, Serving
<1> QED BY <1>1, <1>3, <1>4

LEMMA StepFileOpen ==
  ASSUME IInv, EndsTypeOK', Ended', FileOpen, UNCHANGED <<size, short, canOpen, pcC, immC, dst,
                                                          doneC, pos>>
  PROVE  IInv'
<1>1. pcF = "open" /\ rcq' = rcq /\ NoPoll
  BY DEF FileOpen, FileOpens, Moves, NoPoll
<1>2. /\ pcC \in {"prepost", "repost", "loop"} /\ pos = Len(dst) /\ Idle("client") /\ Idle("file")
      /\ Receives("file") = 0 /\ Receives("client") = IF pcC = "loop" THEN 1 ELSE 0
  BY <1>1, FileQuiet
<1>3. \/ pcF' = "read" /\ canOpen /\ PostRecv("file", "recv_mr") /\ NoSend
      \/ /\ pcF' = "return" /\ ~ canOpen /\ NoRecv /\ PostSend("file", "msg_mr", Text("err"))
  BY <1>1 DEF FileOpen, FileOpens, Moves
<1>4. Same("client")
  BY <1>1, <1>3, Facts, SendSame
<1>5. /\ Receives("client")' = Receives("client") /\ rq'["client"] = rq["client"]
      /\ mem'["client"] = mem["client"]
      /\ RegionOf("client")' = RegionOf("client") /\ RegionOf("file")' = "recv_mr"
  BY <1>3, <1>4, Facts DEF Same, Receives
<1>6. CASE pcF' = "read" /\ canOpen /\ PostRecv("file", "recv_mr") /\ NoSend
  <2>1. Idle("client")' /\ Idle("file")'
    BY <1>1, <1>2, <1>6, IdleKept DEF NoSend, NoPoll
  <2>2. Receives("file")' = 1 /\ AllPosted("file", "recv_mr")'
    BY <1>1, <1>2, <1>6, Facts, PostCounts, NoReceives
  <2>3. MailOf("client")'
    BY <1>5, <2>1, Facts, MailIdleKept
  <2>4. MailOf("file")'
    BY <1>5, <2>1, <2>2, MailIdle
  <2>5. Posted'
    BY <1>2, <1>5, <1>6, <2>2 DEF Posted
  <2>6. Asking'
    BY <1>2, <1>5, <1>6 DEF Asking
  <2>7. Serving' /\ Saved' /\ Fresh'
    BY <1>1, <1>2, <1>5, <1>6, RestOf DEF Serving, Saved, Fresh
  <2> QED BY <2>3, <2>4, <2>5, <2>6, <2>7, Kept DEF Rest
<1>7. CASE /\ pcF' = "return" /\ ~ canOpen /\ NoRecv /\ PostSend("file", "msg_mr", Text("err"))
  <2>1. IsQueued("client", Sent("err"))' /\ Idle("file")'
    BY <1>1, <1>2, <1>7, Facts, SendAnswer
  <2>2. Receives("file")' = 0 /\ \A s : AllPosted("file", s)'
    <3>1. \A s : AllPosted("file", s)
      BY <1>2, Facts, NoReceives
    <3> QED BY <1>1, <1>2, <1>7, <3>1 DEF NoRecv, Receives, AllPosted
  <2>3. MailOf("client")'
    <3>1. Expected("client", Sent("err"))'
      BY <1>2, <1>7, ExpectedAt DEF ForClient
    <3>2. AllPosted("client", RegionOf("client"))'
      BY <1>5, Facts DEF MailOf, AllPosted
    <3>3. Idle(Peer["client"])' /\ (Receives("client")' = 1 \/ Unready("client")')
      BY <1>2, <1>5, <2>1, Facts
    <3> QED BY <2>1, <3>1, <3>2, <3>3, MailQueued
  <2>4. MailOf("file")'
    BY <2>1, <2>2, MailEmpty
  <2>5. Posted'
    BY <1>2, <1>5, <1>7, <2>2 DEF Posted
  <2>6. Asking'
    BY <1>2, <1>5, <1>7 DEF Asking
  <2>7. Serving' /\ Saved' /\ Fresh'
    BY <1>1, <1>2, <1>5, <1>7, RestOf DEF Serving, Saved, Fresh
  <2> QED BY <2>3, <2>4, <2>5, <2>6, <2>7, Kept DEF Rest
<1> QED BY <1>3, <1>6, <1>7

\* A chunk is written to a client that has a receive for it, or is about to post it.
LEMMA StepFileWrite ==
  ASSUME IInv, EndsTypeOK', Ended', FileWrite, UNCHANGED <<size, short, canOpen, pcC, immC, dst,
                                                           doneC>>
  PROVE  IInv'
<1>1. /\ pcF = "read" /\ pos < size /\ pos' = pos + 1 /\ NoRecv /\ NoPoll
      /\ pcF' = AfterWrite /\ PostWrite("file", "file_mr", Piece(pos + 1), 1)
  BY DEF FileWrite, FileWrites, Moves
<1>2. /\ pcC \in {"prepost", "repost", "loop"} /\ pos = Len(dst) /\ pos' = Len(dst) + 1
      /\ Idle("client") /\ Idle("file") /\ pcF' \in {"wait", "fail"} /\ canOpen
      /\ Receives("file") = 1 /\ Receives("client") = IF pcC = "loop" THEN 1 ELSE 0
  BY <1>1, FileQuiet, RestOf DEF AfterWrite, Serving
<1>3. PICK p : p = Piece(pos + 1)
  OBVIOUS
<1>4. PostWrite("file", "file_mr", p, 1)
  BY <1>1, <1>3
<1>5. IsQueued("client", Written(p, 1))' /\ Idle("file")'
  BY <1>1, <1>2, <1>4, Facts, WriteAnswer
<1>6. Same("client")
  BY <1>1, <1>4, Facts, SendSame
<1>7. /\ Receives("client")' = Receives("client") /\ rq'["client"] = rq["client"]
      /\ mem'["client"] = mem["client"]
      /\ Receives("file")' = 1 /\ rq'["file"] = rq["file"]
  BY <1>1, <1>2, <1>6 DEF NoRecv, NoPoll, Receives, Same
<1>8. MailOf("file")'
  <2>1. RegionOf("file")' = RegionOf("file")
    BY <1>1, <1>2, Facts
  <2> QED BY <1>5, <1>7, <2>1, Facts, MailIdleKept
<1>9. MailOf("client")'
  <2>1. Expected("client", Written(p, 1))'
    BY <1>2, <1>3, RestOf, ExpectedAt DEF ForClient
  <2>2. AllPosted("client", RegionOf("client"))'
    BY <1>7, Facts DEF MailOf, AllPosted
  <2>3. Idle(Peer["client"])' /\ (Receives("client")' = 1 \/ Unready("client")')
    BY <1>2, <1>5, <1>7, Facts
  <2> QED BY <1>5, <2>1, <2>2, <2>3, MailQueued
<1>10. Posted'
  BY <1>2, <1>7 DEF Posted
<1>11. Asking'
  BY <1>2, <1>7 DEF Asking
<1>12. Serving' /\ Fresh'
  BY <1>2, <1>7, Facts DEF Serving, Fresh
<1>13. Saved'
  BY <1>2, Facts, RestOf DEF Saved
<1> QED BY <1>8, <1>9, <1>10, <1>11, <1>12, <1>13, Kept DEF Rest

\* The empty write is sent when the client has saved every chunk.
LEMMA StepFileEnd ==
  ASSUME IInv, EndsTypeOK', Ended', FileEnd, UNCHANGED <<size, short, canOpen, pcC, immC, dst,
                                                         doneC, pos>>
  PROVE  IInv'
<1>1. /\ pcF = "read" /\ pos = size /\ NoRecv /\ NoPoll
      /\ pcF' = "return" /\ PostEmptyWrite("file", "file_mr")
  BY DEF FileEnd, Moves
<1>2. /\ pcC \in {"prepost", "repost", "loop"} /\ pos = Len(dst) /\ Len(dst) = size /\ canOpen
      /\ Idle("client") /\ Idle("file")
      /\ Receives("file") = 1 /\ Receives("client") = IF pcC = "loop" THEN 1 ELSE 0
  BY <1>1, FileQuiet, RestOf DEF Serving
<1>3. IsQueued("client", EmptyWrite)' /\ Idle("file")'
  BY <1>1, <1>2, Facts, EmptyAnswer
<1>4. Same("client")
  BY <1>1, Facts, SendSame, PayloadFacts
<1>5. /\ Receives("client")' = Receives("client") /\ rq'["client"] = rq["client"]
      /\ mem'["client"] = mem["client"]
      /\ Receives("file")' = 1 /\ rq'["file"] = rq["file"]
  BY <1>1, <1>2, <1>4 DEF NoRecv, NoPoll, Receives, Same
<1>6. MailOf("file")'
  <2>1. RegionOf("file")' = RegionOf("file")
    BY <1>1, Facts
  <2> QED BY <1>3, <1>5, <2>1, Facts, MailIdleKept
<1>7. MailOf("client")'
  <2>1. Expected("client", EmptyWrite)'
    BY <1>1, <1>2, ExpectedAt DEF ForClient
  <2>2. AllPosted("client", RegionOf("client"))'
    BY <1>5, Facts DEF MailOf, AllPosted
  <2>3. Idle(Peer["client"])' /\ (Receives("client")' = 1 \/ Unready("client")')
    BY <1>2, <1>3, <1>5, Facts
  <2> QED BY <1>3, <2>1, <2>2, <2>3, MailQueued
<1>8. Posted'
  BY <1>1, <1>2, <1>5 DEF Posted
<1>9. Asking'
  BY <1>1, <1>2, <1>5 DEF Asking
<1>10. Serving' /\ Saved' /\ Fresh'
  BY <1>1, <1>2, <1>5, RestOf DEF Serving, Saved, Fresh
<1> QED BY <1>6, <1>7, <1>8, <1>9, <1>10, Kept DEF Rest

LEMMA StepFileNext ==
  ASSUME IInv, EndsTypeOK', Ended', FileNext, UNCHANGED <<size, short, canOpen, pcC, immC, dst,
                                                          doneC, pos>>
  PROVE  IInv'
<1>1. /\ pcF = "next" /\ pcF' = "read" /\ PostRecv("file", "recv_mr")
      /\ UNCHANGED <<sq, mem, up, scq, rcq, wire, lost>>
  BY RestOf DEF FileNext, Moves, NoSend, NoPoll, Serving
<1>2. /\ pcC \in {"repost", "loop"} /\ pos = Len(dst) /\ canOpen /\ Idle("client") /\ Idle("file")
      /\ Receives("client") = (IF pcC = "loop" THEN 1 ELSE 0) /\ Receives("file") = 0
  BY <1>1, FileQuiet, RestOf DEF Serving
<1>3. Same("client")
  BY <1>1, Facts, PostRecvEffect DEF Same
<1>4. Receives("client")' = Receives("client") /\ rq'["client"] = rq["client"]
  BY <1>2, <1>3 DEF Same, Receives
<1>5. Idle("client")' /\ Idle("file")'
  BY <1>1, <1>2, MailKept
<1>6. Receives("file")' = 1 /\ AllPosted("file", "recv_mr")'
  BY <1>1, <1>2, Facts, PostCounts, NoReceives
<1>7. RegionOf("client")' = RegionOf("client") /\ RegionOf("file")' = "recv_mr"
  BY <1>1, Facts
<1>8. MailOf("client")'
  BY <1>4, <1>5, <1>7, Facts, MailIdleKept
<1>9. MailOf("file")'
  BY <1>5, <1>6, <1>7, MailIdle
<1>10. Posted'
  BY <1>1, <1>2, <1>4, <1>6 DEF Posted
<1>11. Asking'
  BY <1>1, <1>2 DEF Asking
<1>12. Serving' /\ Saved' /\ Fresh'
  BY <1>1, <1>2, <1>4, RestOf DEF Serving, Saved, Fresh
<1> QED BY <1>8, <1>9, <1>10, <1>11, <1>12, Kept DEF Rest

\* A close flushes what is still queued; what has left is still to arrive.
LEMMA StepFileClose ==
  ASSUME IInv, EndsTypeOK', Ended', pcF = "fail" \/ (pcF = "return" /\ pcC = "closed"), FileClose,
         UNCHANGED <<size, short, canOpen, pcC, immC, dst, doneC>>
  PROVE  IInv'
<1>1. /\ CloseNode("file") /\ pos' = pos
      /\ pcF' = (IF sq["file"] = <<>> THEN "closed" ELSE "cut")
  BY DEF FileClose
<1>2. /\ sq'["file"] = <<>> /\ rcq'["file"] = <<>> /\ Receives("file")' = 0
      /\ (\A r : AllPosted("file", r)') /\ UNCHANGED <<mem, wire, lost>>
      /\ Same("client")
      /\ (Idle("client") => Idle("client")') /\ (Idle("file") => Idle("file")')
      /\ \A r, l : InFlight("client", r, l) => Idle("client")' \/ InFlight("client", r, l)'
  <2>1. Same("client")
    BY <1>1, CloseEffect, Facts DEF Same
  <2> QED BY <1>1, <2>1, CloseEffect, Facts
<1>3. /\ sq'["client"] = sq["client"] /\ rq'["client"] = rq["client"]
      /\ rcq'["client"] = rcq["client"]
      /\ Receives("client")' = Receives("client") /\ RegionOf("client")' = RegionOf("client")
  BY <1>2, Facts DEF Same, Receives
<1>4. pcC \in {"imm", "close", "closed"} => Idle("client") /\ pcF' = "closed"
  <2>1. pcC \in {"imm", "close", "closed"} => \A l : ~ Expected("client", l)
    BY RestOf, ExpectedAt DEF ForClient
  <2> QED BY <1>1, <2>1, Silent, Facts DEF Idle
<1>5. MailOf("client")'
  <2>1. CASE Idle("client")
    BY <1>2, <1>3, <2>1, Facts, MailIdleKept
  <2>2. CASE ~ Idle("client")
    <3>1. PICK r : r = RegionOf("client")
      OBVIOUS
    <3>2. PICK l : Expected("client", l) /\ InFlight("client", r, l)
      BY <2>2, <3>1, Facts DEF MailOf
    <3>3. /\ Idle("file") /\ (Receives("client") = 1 \/ Unready("client"))
          /\ AllPosted("client", r)
      BY <2>2, <3>1, Facts DEF MailOf
    <3>4. AllPosted("client", RegionOf("client"))' /\ RegionOf("client")' = r
      BY <1>3, <3>1, <3>3 DEF AllPosted
    <3>5. CASE sq["file"] = <<>>
      <4>1. Expected("client", l)'
        BY <1>1, <1>4, <2>2, <3>2, <3>5, RestOf, ExpectedAt DEF ForClient
      <4>2. l \in Letters'
        BY <4>1, ExpectedLetters
      <4>3. Idle("client")' \/ InFlight("client", r, l)'
        BY <1>2, <3>2
      <4>4. Idle("file")' /\ (Receives("client")' = 1 \/ Unready("client")')
        BY <1>2, <1>3, <3>3, Facts
      <4> QED BY <3>4, <4>1, <4>2, <4>3, <4>4, Facts DEF MailOf
    <3>6. CASE sq["file"] # <<>>
      <4>1. wire["client"] = <<>> /\ rcq["client"] = <<>>
        BY <3>2, <3>6, Facts DEF InFlight, IsQueued, IsOnWire, IsReceived
      <4>2. Idle("client")'
        BY <1>2, <1>3, <4>1, Facts DEF Idle
      <4> QED BY <3>4, <4>2, MailIdle
    <3> QED BY <3>5, <3>6
  <2> QED BY <2>1, <2>2
<1>6. MailOf("file")'
  <2>1. CASE Idle("file")
    BY <1>2, <2>1, MailEmpty
  <2>2. CASE ~ Idle("file")
    <3>1. PICK r : r = RegionOf("file")
      OBVIOUS
    <3>2. PICK l : Expected("file", l) /\ InFlight("file", r, l)
      BY <2>2, <3>1, Facts DEF MailOf
    <3>3. Idle("client") /\ sq["file"] = <<>> /\ pcF' = "closed"
      BY <1>1, <2>2, Facts DEF MailOf, Idle
    <3>4. CASE rcq["file"] = <<>>
      <4>1. InFlight("file", r, l)'
        BY <1>2, <1>3, <3>2, <3>4, Facts DEF InFlight, IsQueued, IsOnWire, IsReceived
      <4>2. Expected("file", l)'
        BY <1>1, <3>2, <3>3, ExpectedAt DEF ForFile
      <4>3. l \in Letters' /\ RegionOf("file")' = r
        <5>1. l \in Letters'
          BY <4>2, ExpectedLetters
        <5> QED BY <3>1, <3>3, <5>1, Facts
      <4>4. AllPosted("file", RegionOf("file"))' /\ Idle("client")' /\ Unready("file")'
        BY <1>2, <3>3, Facts DEF AllPosted
      <4> QED BY <4>1, <4>2, <4>3, <4>4, Facts DEF MailOf
    <3>5. CASE rcq["file"] # <<>>
      <4>1. sq["client"] = <<>> /\ wire["file"] = <<>>
        BY <3>2, <3>5, Facts DEF InFlight, IsQueued, IsOnWire, IsReceived
      <4>2. Idle("file")'
        BY <1>2, <1>3, <4>1, Facts DEF Idle
      <4> QED BY <1>2, <4>2, MailEmpty
    <3> QED BY <3>4, <3>5
  <2> QED BY <2>1, <2>2
<1>7. Posted'
  BY <1>1, <1>2, <1>3, RestOf DEF Posted
<1>8. Asking'
  BY <1>1, <1>2, RestOf DEF Asking
<1>9. Serving'
  <2>1. pcC = "loop" => Receives("client") = 0 \/ Receives("client") = 1
    BY RestOf DEF Posted
  <2> QED BY <1>1, <1>2, <1>3, <1>4, <2>1, RestOf DEF Serving
<1>10. Saved'
  BY <1>1, RestOf DEF Saved
<1>11. Fresh'
  <2>1. pcF = "return" => Len(dst) = size + 1
    BY RestOf DEF Serving, Saved
  <2> QED BY <1>1, <1>2, <2>1, Facts, RestOf DEF Fresh
<1> QED BY <1>5, <1>6, <1>7, <1>8, <1>9, <1>10, <1>11, Kept DEF Rest

LEMMA FileKeeps ==
  ASSUME IInv, EndsTypeOK', Ended', FileNextStep
  PROVE  IInv'
<1>1. UNCHANGED <<size, short, canOpen, pcC, immC, dst, doneC>>
  BY DEF FileNextStep, runVars, clientVars
<1>2. CASE FileBegin
  BY <1>1, <1>2, StepFileBegin
<1>3. CASE FilePollA /\ UNCHANGED pos
  BY <1>1, <1>3, StepFileSendPolled, StepFileRecv DEF FilePollA, Moves, PollForSend
<1>4. CASE FileWrite
  BY <1>1, <1>4, StepFileWrite
<1>5. CASE FilePollB /\ UNCHANGED pos
  BY <1>1, <1>5, StepFileSendPolled, StepFileRecv DEF FilePollB, Moves
<1>6. CASE FileOpen /\ UNCHANGED pos
  BY <1>1, <1>6, StepFileOpen
<1>7. CASE FileEnd /\ UNCHANGED pos
  BY <1>1, <1>7, StepFileEnd
<1>8. CASE FileWait /\ UNCHANGED pos
  <2>1. CASE Moves(pcF, "wait", "wait") /\ PollSend("file")
    BY <1>1, <1>8, <2>1, SendPolled DEF Moves
  <2>2. CASE Moves(pcF, "wait", "next") /\ PollRecv("file")
    BY <1>1, <1>8, <2>2, StepFileRecv DEF Moves
  <2> QED BY <1>8, <2>1, <2>2 DEF FileWait, AwaitRecv
<1>9. CASE FileNext /\ UNCHANGED pos
  BY <1>1, <1>9, StepFileNext
<1>10. CASE (pcF = "fail" \/ (pcF = "return" /\ pcC = "closed")) /\ FileClose
  BY <1>1, <1>10, StepFileClose
<1> QED BY <1>2, <1>3, <1>4, <1>5, <1>6, <1>7, <1>8, <1>9, <1>10 DEF FileNextStep, FileStep

-----------------------------------------------------------------------------
(* The steps of the adapters, and the invariant. *)

\* A SEND that finds a receive on recv_mr, and an empty write, leave file_mr alone,
\* whether they arrive or are discarded.
LEMMA FileRegionKept ==
  ASSUME VerbsTypeOK, NEW k \in Node, NicStep(k), NEW n \in Node,
         wire[n] # <<>> => \/ Head(wire[n]).op = "SEND" /\ AllPosted(n, "recv_mr")
                           \/ Head(wire[n]).len = 0
  PROVE  mem'[n]["file_mr"] = mem[n]["file_mr"]
<1>1. CASE Execute(k)
  BY <1>1 DEF Execute, Transmit
<1>2. CASE Deliver(k) /\ k # n
  BY <1>2, DeliverEffect
<1>3. CASE Deliver(k) /\ k = n
  <2>1. wire[n] # <<>> /\ rq[n] # <<>> /\ rq[n] \in Seq(Region)
    BY <1>3, NodeTypes DEF Deliver
  <2>2. CASE Head(wire[n]).op = "SEND" /\ AllPosted(n, "recv_mr")
    <3>1. Head(rq[n]) = "recv_mr"
      BY <2>1, <2>2, TailFacts DEF AllPosted
    <3>2. "recv_mr" = (IF Arriving(n).op = "SEND" THEN Head(rq[n]) ELSE "file_mr")
      BY <2>2, <3>1 DEF Arriving
    <3> DEFINE h == mem[n]
               d == Arriving(n).data
    <3>3. h \in [Part -> Payload] /\ (mem'[n] = h \/ mem'[n] = Holding(h, "recv_mr", d))
      BY <1>3, <3>2, DeliverHeld DEF VerbsTypeOK
    <3> HIDE DEF h, d
    <3>4. Holding(h, "recv_mr", d)["file_mr"] = h["file_mr"]
      BY ONLY <3>3, HoldingFacts DEF Region
    <3> QED BY <3>3, <3>4 DEF h
  <2>3. CASE Head(wire[n]).len = 0
    BY <1>3, <2>3 DEF Deliver
  <2> QED BY <2>1, <2>2, <2>3
<1>4. CASE (Drop(k) \/ Lose(k)) /\ k # n
  BY <1>4, DiscardEffect DEF Drop, Lose
<1>5. CASE (Drop(k) \/ Lose(k)) /\ k = n
  BY <1>5 DEF Drop, Lose, Discard
<1> QED BY <1>1, <1>2, <1>3, <1>4, <1>5 DEF NicStep

LEMMA FreshNic ==
  ASSUME IInv, NEW k \in Node, Nic(NicStep(k))
  PROVE  Fresh'
<1>1. NicStep(k) /\ UNCHANGED <<size, short, pos, dst, canOpen, pcF>>
  BY DEF Nic, runVars, clientVars, fileVars
<1>2. CASE pos = Len(dst) /\ (canOpen \/ pcF # "return")
  <2>1. ASSUME wire["client"] # <<>>
        PROVE  \/ Head(wire["client"]).op = "SEND" /\ AllPosted("client", "recv_mr")
               \/ Head(wire["client"]).len = 0
    <3>1. PICK r : r = RegionOf("client")
      OBVIOUS
    <3>2. AllPosted("client", r) /\ \E l : Expected("client", l) /\ InFlight("client", r, l)
      BY <2>1, <3>1, Facts DEF MailOf, Idle
    <3>3. PICK l : Expected("client", l) /\ IsOnWire("client", l)
      BY <2>1, <3>2 DEF InFlight, IsQueued, IsReceived
    <3>4. Head(wire["client"]).op = l.op /\ Head(wire["client"]).len = l.len
      BY <3>3 DEF IsOnWire
    <3>5. \/ l = Sent("begin") /\ pcC = "begin"
          \/ l = EmptyWrite
      BY <1>2, <3>3, ExpectedAt, Facts DEF ForClient
    <3> QED BY <3>1, <3>2, <3>4, <3>5, LettersApart, Facts
  <2>2. mem'["client"]["file_mr"] = mem["client"]["file_mr"]
    BY <1>1, <2>1, FileRegionKept, Facts
  <2> QED BY <1>1, <1>2, <2>2, RestOf DEF Fresh
<1> QED BY <1>1, <1>2 DEF Fresh

\* What a step does at the end of the client's region.
LEMMA ClientCalls ==
  ASSUME ClientStep
  PROVE  Answers("client")
BY DEF ClientStep, ClientBegin, ClientAsk, ClientPrepost, ClientRepost, ClientClose, ClientPoll,
   ClientSave, ClientSaveLast, NoSend, PollSend, PollRecv, CloseNode, Answers

LEMMA FileCalls ==
  ASSUME FileBegin \/ FileStep \/ FileClose
  PROVE  Calls("file")
<1> USE Constants
<1>1. CASE FileBegin
  BY <1>1 DEF FileBegin, Welcome, Calls
<1>2. CASE FileWrite
  BY <1>2 DEF FileWrite, FileWrites, Calls
<1>3. CASE FileEnd
  BY <1>3 DEF FileEnd, Calls
<1>4. CASE FileOpen
  BY <1>4 DEF FileOpen, FileOpens, NoSend, Calls
<1>5. CASE FilePollA \/ FilePollB \/ FileWait \/ FileNext \/ FileClose
  BY <1>5 DEF FilePollA, PollForSend, FilePollB, FileWait, AwaitRecv, FileNext, FileClose, NoSend,
     PollSend, PollRecv, CloseNode, Calls
<1> QED BY <1>1, <1>2, <1>3, <1>4, <1>5 DEF FileStep

LEMMA EndedStep ==
  ASSUME IInv, [Next]_vars
  PROVE  Ended'
<1>0. EndsHeld /\ (short => EndKept("client", Len(dst), size))
  BY DEF IInv, Ended
<1>1. ASSUME UNCHANGED <<dst, size, short>>, EndsHeld',
             mem'["client"]["file_end"] = mem["client"]["file_end"]
      PROVE  Ended'
  BY <1>0, <1>1 DEF Ended, EndKept
<1>2. CASE ClientNext
  <2>1. /\ EndsHeld' /\ mem'["client"]["file_end"] = mem["client"]["file_end"]
        /\ UNCHANGED <<size, short>>
    BY <1>0, <1>2, ClientCalls, AnswersMem, Facts DEF ClientNext, runVars
  <2>2. CASE UNCHANGED dst
    BY <1>1, <2>1, <2>2
  <2>3. CASE ClientSave \/ ClientSaveLast
    <3>1. pcC = "imm" /\ SaveChunk
      BY <2>3 DEF ClientSave, ClientSaveLast, Moves
    <3>2. Len(dst') = Len(dst) + 1 /\ Len(dst) <= size
      BY <3>1, ChunkSaved, Facts
    <3>3. ASSUME short, Len(dst') < size
          PROVE  mem["client"]["file_end"].tail = Len(dst')
      <4>1. mem["client"]["file_mr"] = Piece(pos) /\ pos = Len(dst') /\ pos # size
        BY <3>1, <3>2, <3>3, ChunkSaved, Facts
      <4>2. Piece(pos) = Chunk(pos)
        BY <4>1 DEF Piece
      <4>3. mem["client"]["file_end"] = Chunk(pos)
        BY <1>0, <4>1, <4>2, Facts DEF EndsHeld, Chunk
      <4> QED BY <4>1, <4>3 DEF Chunk
    <3>4. ASSUME short, Len(dst') >= size
          PROVE  mem["client"]["file_end"].tail = size - 1
      BY <3>2, <3>4, EndTail, Facts
    <3>5. Len(dst') \in Nat /\ size \in Nat
      BY <3>2, Facts
    <3>6. short => EndKept("client", Len(dst'), size)
      BY <3>3, <3>4, <3>5 DEF EndKept
    <3> QED BY <2>1, <3>6 DEF Ended, EndKept
  <2> QED BY <1>2, <2>2, <2>3 DEF ClientNext, ClientStep
<1>3. CASE FileNextStep
  <2>1. Calls("file") /\ UNCHANGED <<dst, size, short>>
    BY <1>3, FileCalls DEF FileNextStep, runVars, clientVars
  <2> QED BY <1>0, <1>1, <2>1, CallsMem, Facts
<1>4. ASSUME NEW k \in Node, Nic(NicStep(k)) PROVE Ended'
  <2>1. NicStep(k) /\ UNCHANGED <<dst, size, short>>
    BY <1>4 DEF Nic, runVars, clientVars
  <2>2. EndsHeld'
    BY <1>0, <2>1, NicEnds, Facts
  <2>3. CASE Idle("client")
    <3>1. mem'["client"] = mem["client"]
      BY <2>1, <2>3, NicKeeps, Facts DEF Idle
    <3> QED BY <1>1, <2>1, <2>2, <3>1
  <2>4. CASE ~ Idle("client")
    <3>1. PICK r : r = RegionOf("client")
      OBVIOUS
    <3>2. PICK l \in Letters : Expected("client", l) /\ InFlight("client", r, l)
      BY <2>4, <3>1, Facts DEF MailOf
    <3>3. l \in Message
      BY <3>2, LettersTyped, Facts
    <3>4. CASE mem'["client"]["file_end"] = mem["client"]["file_end"]
      BY <1>1, <2>1, <2>2, <3>4
    <3>5. CASE l.data.kind = "chunk" /\ mem'["client"]["file_end"] = l.data
      <4>1. l = Written(Piece(pos), 1) /\ pos = Len(dst) + 1
        BY <3>2, <3>5, ExpectedAt DEF ForClient, Sent, EmptyWrite, Nothing, Text
      <4>2. Piece(pos).kind = "chunk" /\ mem'["client"]["file_end"] = Piece(pos)
        BY <3>5, <4>1 DEF Written
      <4>3. ASSUME short PROVE mem'["client"]["file_end"].tail = pos /\ pos < size
        <5>1. pos # size
          BY <4>2, <4>3 DEF Piece, Short
        <5> QED BY <4>2, <5>1, Facts DEF Piece, Chunk
      <4>4. ASSUME short PROVE EndKept("client", Len(dst), size)'
        BY <2>1, <4>1, <4>3, <4>4, Facts DEF EndKept
      <4> QED BY <2>1, <2>2, <4>4 DEF Ended
    <3> QED BY <2>1, <3>2, <3>3, <3>4, <3>5, NicEnd, Facts
  <2> QED BY <2>3, <2>4
<1>5. CASE UNCHANGED vars
  BY <1>0, <1>5 DEF vars, endsVars, runVars, clientVars, verbsVars, Ended, EndsHeld, EndKept
<1> QED BY <1>2, <1>3, <1>4, <1>5 DEF Next

LEMMA NicKeepsInvariant ==
  ASSUME IInv, EndsTypeOK', Ended', NEW k \in Node, Nic(NicStep(k))
  PROVE  IInv'
<1>1. /\ UNCHANGED <<signals, pause, size, short, canOpen, pcC, immC, dst, doneC, pcF, pos,
                     swapped>>
      /\ NicStep(k)
  BY DEF Nic, runVars, clientVars, fileVars
<1>2. /\ Receives("client")' = Receives("client") /\ Receives("file")' = Receives("file")
      /\ Sends("file")' = Sends("file")
      /\ wire["client"] = <<>> => mem'["client"] = mem["client"]
      /\ wire["file"] = <<>> => mem'["file"] = mem["file"]
  BY <1>1, NicKeeps, Facts
<1>3. MailOf("client")' /\ MailOf("file")'
  BY MailNic, Facts
<1>4. pcC \in {"ask", "imm"} => wire["client"] = <<>>
  <2>1. pcC \in {"ask", "imm"} => \A l : ~ Expected("client", l)
    BY RestOf, ExpectedAt DEF ForClient
  <2> QED BY <2>1, Silent, Facts DEF Idle
<1>5. pcF = "next" => wire["file"] = <<>>
  <2>1. pcF = "next" => \A l : ~ Expected("file", l)
    BY ExpectedAt DEF ForFile
  <2> QED BY <2>1, Silent, Facts DEF Idle
<1>6. Posted'
  BY <1>1, <1>2, RestOf DEF Posted
<1>7. Asking'
  BY <1>1, <1>2, <1>4, RestOf DEF Asking
<1>8. Serving'
  BY <1>1, <1>2, <1>4, <1>5, RestOf DEF Serving
<1>9. Saved'
  BY <1>1, RestOf DEF Saved
<1> QED BY <1>3, <1>6, <1>7, <1>8, <1>9, FreshNic, Kept DEF Rest

LEMMA InitIInv == Init => IInv
<1> SUFFICES ASSUME Init PROVE IInv
  OBVIOUS
<1>1. EndsTypeOK
  BY TypeInit
<1>2. /\ \A n \in Node : sq[n] = <<>> /\ wire[n] = <<>> /\ rcq[n] = <<>> /\ scq[n] = 0
      /\ rq["client"] = <<"recv_mr">> /\ rq["file"] = <<>>
      /\ pcC = "begin" /\ dst = <<>> /\ doneC = FALSE /\ pcF = "idle" /\ pos = 0
      /\ size \in Nat /\ (short => size > 0)
  BY Constants DEF Init, EndsInit, VerbsInit
<1>11. /\ \A n \in Node : mem[n]["file_mr"] = Nothing
       /\ mem["client"]["file_mr"] = Nothing /\ mem["client"]["file_end"].tail = 0
  BY Constants DEF Init, EndsInit, VerbsInit, Part, Region, Nothing, Text
<1>12. Ended
  <2>1. EndsHeld
    BY <1>11 DEF EndsHeld, Nothing, Text
  <2> QED BY <1>2, <1>11, <2>1 DEF Ended, EndKept
<1>3. Idle("client") /\ Idle("file") /\ Sends("file") = 0
  BY <1>2, Constants DEF Idle, Sends
<1>4. Receives("client") = 1 /\ AllPosted("client", "recv_mr")
  <2>1. rq["client"][1] = "recv_mr" /\ Len(rq["client"]) = 1 /\ Len(rcq["client"]) = 0
    BY <1>2, Constants
  <2> QED BY <2>1 DEF Receives, AllPosted
<1>5. Receives("file") = 0 /\ \A r : AllPosted("file", r)
  <2>1. Len(rq["file"]) = 0 /\ Len(rcq["file"]) = 0
    BY <1>2, Constants
  <2> QED BY <2>1 DEF Receives, AllPosted
<1>6. MailOf("client") /\ MailOf("file")
  <2>1. RegionOf("client") = "recv_mr"
    BY <1>2 DEF RegionOf
  <2> QED BY <1>3, <1>4, <1>5, <2>1 DEF MailOf
<1>7. Posted /\ Asking
  BY <1>2, <1>3, <1>4, <1>5 DEF Posted, Asking
<1>8. Serving
  BY <1>2 DEF Serving
<1>9. Saved
  BY <1>2 DEF Saved
<1>10. Fresh
  BY <1>2, <1>11 DEF Fresh
<1> QED BY <1>1, <1>6, <1>7, <1>8, <1>9, <1>10, <1>12 DEF IInv

LEMMA IInvStep ==
  ASSUME IInv, [Next]_vars
  PROVE  IInv'
<1>1. EndsTypeOK' /\ Ended'
  BY TypeStep, EndedStep, Facts
<1>2. CASE ClientNext \/ FileNextStep
  BY <1>1, <1>2, ClientKeeps, FileKeeps
<1>3. ASSUME NEW n \in Node, Nic(NicStep(n)) PROVE IInv'
  BY <1>1, <1>3, NicKeepsInvariant
<1>4. CASE UNCHANGED vars
  <2>1. /\ UNCHANGED <<signals, pause, size, short, canOpen, pcC, immC, dst, doneC, pcF, pos,
                       swapped>>
        /\ UNCHANGED <<up, sq, scq, rq, rcq, mem, wire>>
    BY <1>4 DEF vars, endsVars, verbsVars, runVars, clientVars, fileVars
  <2>2. /\ Receives("client")' = Receives("client") /\ Receives("file")' = Receives("file")
        /\ Sends("file")' = Sends("file")
        /\ RegionOf("client")' = RegionOf("client") /\ RegionOf("file")' = RegionOf("file")
    BY <2>1 DEF Receives, Sends, RegionOf
  <2>3. MailOf("client")'
    <3>1. \A l : Expected("client", l) => Expected("client", l)'
      BY <2>1, RestOf, ExpectedAt DEF ForClient
    <3>2. AllPosted("client", RegionOf("client"))'
      BY <2>1, <2>2, Facts DEF MailOf, AllPosted
    <3> QED BY <2>1, <2>2, <3>1, <3>2, MailKeeps, Facts
  <2>4. MailOf("file")'
    <3>1. \A l : Expected("file", l) => Expected("file", l)'
      BY <2>1, ExpectedAt DEF ForFile
    <3>2. AllPosted("file", RegionOf("file"))'
      BY <2>1, <2>2, Facts DEF MailOf, AllPosted
    <3> QED BY <2>1, <2>2, <3>1, <3>2, MailKeeps, Facts
  <2>5. Posted' /\ Asking'
    BY <2>1, <2>2, RestOf DEF Posted, Asking
  <2>6. Serving' /\ Saved' /\ Fresh'
    BY <2>1, <2>2, RestOf DEF Serving, Saved, Fresh
  <2> QED BY <1>1, <2>3, <2>4, <2>5, <2>6, Kept DEF Rest
<1> QED BY <1>2, <1>3, <1>4 DEF Next

\* Every variable of a read without a proxy keeps its type: in particular the server
\* never reads past the end of its file.
THEOREM TypeCorrect == Spec => []EndsTypeOK
<1>1. Init => IInv
  BY InitIInv
<1>2. IInv /\ [Next]_vars => IInv'
  BY IInvStep
<1>3. IInv => EndsTypeOK
  BY DEF IInv
<1> QED BY <1>1, <1>2, <1>3, PTL DEF Spec

\* IInv is inductive, so every state of the read satisfies it.
THEOREM Invariance == Spec => []IInv
<1>1. Init => IInv
  BY InitIInv
<1>2. IInv /\ [Next]_vars => IInv'
  BY IInvStep
<1> QED BY <1>1, <1>2, PTL DEF Spec

-----------------------------------------------------------------------------
(* The safety property and the refinement. *)

\* A copy has at most one block more than its file has chunks, it has that one when and
\* only when the client takes it as done, and it is the file's last block again, a short
\* chunk with the end of the one before it included: the empty write leaves the client's
\* region as it is.
THEOREM OneBlockCorrect == Spec => []OneBlockMore
<1>1. ASSUME IInv PROVE OneBlockMore
  <2>1. ~ doneC => Len(dst) <= size
    BY <1>1, Facts, RestOf DEF Saved
  <2>2. doneC => Len(dst) = size + 1 /\ dst[size + 1] = IF size = 0 THEN Nothing ELSE Block(size)
    BY <1>1, RestOf DEF Saved, Last
  <2>3. doneC \in BOOLEAN /\ size \in Nat /\ Len(dst) \in Nat
    BY <1>1, Facts DEF EndsTypeOK
  <2>4. doneC <=> Len(dst) = size + 1
    BY <2>1, <2>2, <2>3
  <2> QED BY <2>1, <2>2, <2>3, <2>4 DEF OneBlockMore
<1> QED BY <1>1, Invariance, PTL

\* A sequence without the element that was appended to it.
LEMMA DropAppended ==
  ASSUME NEW S, NEW s \in Seq(S), NEW x \in S
  PROVE  SubSeq(Append(s, x), 1, Len(Append(s, x)) - 1) = s
OBVIOUS

\* The blocks that the copy is to consist of.
LEMMA WholeFile ==
  ASSUME EndsTypeOK
  PROVE  /\ Len(Blocks) = size /\ \A i \in 1..size : Blocks[i] = Block(i)
         /\ UNCHANGED <<size, short>> => Blocks' = Blocks
BY Constants DEF EndsTypeOK, Blocks, Block

LEMMA TransferStep ==
  ASSUME IInv, [Next]_vars
  PROVE  [Transfer!Next]_(Transfer!vars)
<1>0. /\ Len(Blocks) = size /\ \A i \in 1..size : Blocks[i] = Block(i)
      /\ UNCHANGED <<size, short>> => Blocks' = Blocks
  BY WholeFile, Facts
<1>1. CASE ClientSave /\ UNCHANGED runVars
  <2>1. /\ pcC = "imm" /\ immC # 0 /\ pcC' = "repost" /\ SaveChunk /\ doneC' = doneC
        /\ UNCHANGED <<size, short>>
    BY <1>1 DEF ClientSave, Moves, runVars
  <2>2. /\ ~ doneC /\ pos = Len(dst) + 1
        /\ dst' = Append(dst, dst'[Len(dst) + 1]) /\ dst'[Len(dst) + 1] = Block(pos)
    BY <2>1, ChunkSaved
  <2>3. dst' = Append(dst, Blocks[Len(dst) + 1]) /\ Len(dst) < size
    BY <1>0, <2>2, Facts
  <2> QED BY <1>0, <2>1, <2>2, <2>3 DEF Transfer!Next, Transfer!Save
<1>2. CASE ClientSaveLast /\ UNCHANGED runVars
  <2>1. /\ pcC = "imm" /\ pcC' = "close" /\ SaveChunk /\ doneC' = TRUE
        /\ UNCHANGED <<size, short>>
    BY <1>2 DEF ClientSaveLast, Moves, runVars
  <2>2. ~ doneC
    BY <2>1, ChunkSaved
  <2>3. PICK x \in Payload : dst' = Append(dst, x)
    BY <2>1, ChunkSaved
  <2>4. SubSeq(dst', 1, Len(dst') - 1) = dst
    BY <2>3, DropAppended, Facts
  <2> QED BY <1>0, <2>1, <2>2, <2>4 DEF Transfer!vars
<1>3. CASE ClientClose /\ UNCHANGED <<dst, doneC, size, short>>
  <2>1. pcC = "close" /\ pcC' = "closed"
    BY <1>3 DEF ClientClose, Moves
  <2>2. doneC /\ Len(dst) = size + 1
    BY <2>1, RestOf DEF Serving, Saved
  <2>3. Len(SubSeq(dst, 1, Len(dst) - 1)) = size
    BY <2>2, Facts
  <2> QED BY <1>0, <1>3, <2>1, <2>2, <2>3 DEF Transfer!Next, Transfer!Acknowledge
<1>4. CASE UNCHANGED <<dst, doneC, size, short>> /\ pcC # "closed" /\ pcC' # "closed"
  BY <1>0, <1>4 DEF Transfer!vars
<1>5. CASE UNCHANGED <<dst, doneC, size, short, pcC>>
  BY <1>0, <1>5 DEF Transfer!vars
<1>6. CASE ClientNext
  <2>1. CASE ClientBegin \/ ClientAsk \/ ClientPrepost \/ ClientRepost \/ ClientPoll
    BY <1>4, <1>6, <2>1 DEF ClientNext, ClientStep, ClientBegin, ClientAsk, ClientPrepost,
       ClientRepost,
       ClientPoll, ClientSave, ClientSaveLast, ClientClose, Moves, runVars
  <2> QED BY <1>1, <1>2, <1>3, <1>6, <2>1 DEF ClientNext, ClientStep, ClientSave, ClientSaveLast,
          ClientClose, Moves, runVars
<1>7. CASE FileNextStep
  BY <1>5, <1>7 DEF FileNextStep, runVars, clientVars
<1>8. ASSUME NEW n \in Node, Nic(NicStep(n)) PROVE UNCHANGED <<dst, doneC, size, short, pcC>>
  BY <1>8 DEF Nic, runVars, clientVars
<1>9. CASE UNCHANGED vars
  BY <1>5, <1>9 DEF vars, endsVars, runVars, clientVars
<1> QED BY <1>5, <1>6, <1>7, <1>8, <1>9 DEF Next

\* But for the block that the empty write makes it save again, the client of a read
\* without a proxy saves the blocks of the file in order, each once, and sends DONE only
\* when the copy has them all, whatever is lost.  A block is a chunk of the file, but for
\* a short last chunk: the end of the one before follows it.
THEOREM Implements == Spec => TransferSpec
<1>1. Init => Transfer!Init
  BY Constants DEF Init, EndsInit, Transfer!Init
<1>2. IInv /\ [Next]_vars => [Transfer!Next]_(Transfer!vars)
  BY TransferStep
<1> QED BY <1>1, <1>2, Invariance, PTL DEF Spec, TransferSpec, Transfer!Spec
-----------------------------------------------------------------------------
(* The places in the queues. *)

\* The most sends of each side whose completion can be left, at the place where it
\* is: a message that is polled leaves one, and every post adds one.
ClientPlaces ==
  /\ Sends("client") <= 2
  /\ pcC \in {"prepost", "imm"} => Sends("client") <= 1
  /\ pcC \in {"begin", "ask", "closed"} => Sends("client") = 0

FilePlaces ==
  /\ Sends("file") <= 2
  /\ pcF \in {"pollA", "pollB", "open", "read", "next"} => Sends("file") <= 1
  /\ pcF \in {"idle", "closed", "cut"} => Sends("file") = 0

LEMMA ReadAnswered == ASSUME IInv PROVE Answered
<1>1. ASSUME NEW n \in Node, rcq[n] # <<>> PROVE sq[n] = <<>>
  <2>1. Idle(Peer[n]) /\ Peer[Peer[n]] = n
    BY <1>1, Constants DEF IInv, MailOf, Idle
  <2> QED BY <2>1 DEF Idle
<1> QED BY <1>1 DEF Answered

LEMMA ClientPlacesStep ==
  ASSUME EndsTypeOK, Answered, ClientPlaces, ClientStep, InTurn
  PROVE  ClientPlaces' /\ OthersKeep("client")
<1>0. VerbsTypeOK /\ "client" \in Node /\ Sends("client") \in Nat /\ "msg_mr" \in Region
  BY SendsType, Constants DEF EndsTypeOK
<1>1. CASE PollRecv("client") /\ (\/ pcC = "begin" /\ pcC' = "ask"
                                  \/ pcC = "loop" /\ pcC' \in {"imm", "loop"})
  <2>1. /\ Sends("client")' <= Sends("client") /\ Sends("client")' <= 1
        /\ Sends("client")' \in Nat /\ OthersKeep("client")
    BY <1>0, <1>1, AwaitSends DEF PollAny
  <2> QED BY <1>0, <1>1, <2>1 DEF ClientPlaces
<1>2. CASE PollSend("client") /\ pcC = "loop" /\ pcC' = "loop"
  <2>1. Sends("client")' <= Sends("client") /\ Sends("client")' \in Nat /\ OthersKeep("client")
    BY <1>0, <1>2, AwaitSends DEF PollAny
  <2> QED BY <1>0, <1>2, <2>1 DEF ClientPlaces
<1>3. CASE ClientAsk \/ ClientPrepost \/ ClientRepost \/ ClientSave \/ ClientSaveLast
  <2>1. (NoSend \/ \E p : PostSend("client", "msg_mr", p)) /\ NoPoll
    BY <1>3 DEF ClientAsk, ClientPrepost, ClientRepost, ClientSave, ClientSaveLast
  <2>2. /\ Sends("client")' = Sends("client") \/ Sends("client")' = Sends("client") + 1
        /\ OthersKeep("client")
    BY <1>0, <2>1, CallSends
  <2>3. ~ NoSend => pcC \in {"ask", "imm"}
    BY <1>3 DEF ClientAsk, ClientPrepost, ClientRepost, ClientSave, ClientSaveLast, Moves
  <2>4. NoSend => Sends("client")' = Sends("client")
    BY <2>1, NoSendSends DEF NoPoll
  <2>5. \/ pcC = "ask" /\ pcC' \in {"prepost", "close"}
        \/ pcC \in {"prepost", "repost"} /\ pcC' = "loop" /\ NoSend
        \/ pcC = "imm" /\ pcC' \in {"repost", "close"}
    BY <1>3 DEF ClientAsk, ClientPrepost, ClientRepost, ClientSave, ClientSaveLast, Moves
  <2> QED BY <1>0, <2>2, <2>3, <2>4, <2>5 DEF ClientPlaces
<1>4. CASE ClientClose
  <2>1. Sends("client")' = 0 /\ OthersKeep("client")
    BY <1>0, <1>4, CloseSends DEF ClientClose
  <2> QED BY <2>1 DEF ClientPlaces
<1> QED BY <1>1, <1>2, <1>3, <1>4 DEF ClientStep, ClientBegin, ClientPoll, Moves

LEMMA FilePlacesStep ==
  ASSUME EndsTypeOK, Answered, FilePlaces, FileBegin \/ FileStep \/ FileClose, InTurn
  PROVE  FilePlaces' /\ OthersKeep("file")
<1>0. /\ VerbsTypeOK /\ "file" \in Node /\ Sends("file") \in Nat
      /\ "msg_mr" \in Region /\ "file_mr" \in Region
  BY SendsType, Constants DEF EndsTypeOK
<1>1. CASE PollRecv("file") /\ pcF \in {"pollA", "pollB", "wait"}
                            /\ pcF' \in {"pollB", "open", "next"}
  <2>1. Sends("file")' <= 1 /\ Sends("file")' \in Nat /\ OthersKeep("file")
    BY <1>0, <1>1, AwaitSends DEF PollAny
  <2> QED BY <1>1, <2>1 DEF FilePlaces
<1>2. CASE PollSend("file") /\ (\/ pcF = "pollA" /\ pcF' = "pollB"
                                \/ pcF = "pollB" /\ pcF' = "return"
                                \/ pcF = "wait" /\ pcF' = "wait")
  <2>1. Sends("file")' <= Sends("file") /\ Sends("file")' \in Nat /\ OthersKeep("file")
    BY <1>0, <1>2, AwaitSends DEF PollAny
  <2> QED BY <1>0, <1>2, <2>1 DEF FilePlaces
<1>3. CASE FileBegin \/ FileWrite \/ FileEnd \/ FileOpen \/ FileNext
  <2>1. /\ \/ NoSend
           \/ \E r \in Region : \E p : \/ PostSend("file", r, p)
                                       \/ (\E i : PostWrite("file", r, p, i))
                                       \/ PostEmptyWrite("file", r)
        /\ NoPoll
    BY <1>0, <1>3 DEF FileBegin, Welcome, FileWrite, FileWrites, FileEnd, FileOpen, FileOpens,
       FileNext
  <2>2. /\ Sends("file")' = Sends("file") \/ Sends("file")' = Sends("file") + 1
        /\ OthersKeep("file")
    <3>1. CASE NoSend
      BY <1>0, <2>1, <3>1, CallSends
    <3>2. CASE ~ NoSend
      BY <1>0, <2>1, <3>2, CallSends
    <3> QED BY <3>1, <3>2
  <2>3. NoSend => Sends("file")' = Sends("file")
    BY <2>1, NoSendSends DEF NoPoll
  <2>4. \/ pcF = "idle" /\ pcF' = "pollA"
        \/ pcF = "read" /\ pcF' \in {"fail", "wait", "return"}
        \/ pcF = "open" /\ pcF' = "return"
        \/ pcF \in {"open", "next"} /\ pcF' \in {"read", "wait"} /\ NoSend
    BY <1>3 DEF FileBegin, FileWrite, FileWrites, AfterWrite, FileEnd, FileOpen, FileOpens,
       FileNext, Moves
  <2> QED BY <1>0, <2>2, <2>3, <2>4 DEF FilePlaces
<1>4. CASE FileClose
  <2>1. Sends("file")' = 0 /\ OthersKeep("file")
    BY <1>0, <1>4, CloseSends DEF FileClose
  <2> QED BY <2>1 DEF FilePlaces
<1> QED BY <1>1, <1>2, <1>3, <1>4
        DEF FileStep, FilePollA, PollForSend, FilePollB, FileWait, AwaitRecv, Moves

\* No queue of a read without a proxy is ever asked to hold more than it was made for,
\* for a file of any length and any loss, if the completion queues return what they
\* hold in turn.
THEOREM QueuesFitCorrect == Spec /\ [][InTurn]_vars => []QueuesFit
<1> DEFINE QInv == IInv /\ ClientPlaces /\ FilePlaces
<1>1. Init => QInv
  <2> SUFFICES ASSUME Init PROVE QInv
    OBVIOUS
  <2>1. /\ \A n \in Node : Len(sq[n]) = 0 /\ scq[n] = 0
        /\ pcC = "begin" /\ pcF = "idle"
    BY DEF Init, EndsInit, VerbsInit
  <2>2. ASSUME NEW n \in Node PROVE Sends(n) = 0
    <3>1. Sends(n) = 0 + 0
      BY <2>1 DEF Sends
    <3> QED BY <3>1
  <2> QED BY <2>1, <2>2, InitIInv, Constants DEF ClientPlaces, FilePlaces
<1>2. QInv /\ [Next]_vars /\ [InTurn]_vars => QInv'
  <2> SUFFICES ASSUME QInv, [Next]_vars, [InTurn]_vars PROVE QInv'
    OBVIOUS
  <2>0. EndsTypeOK /\ VerbsTypeOK /\ Answered
    BY ReadAnswered DEF IInv, EndsTypeOK
  <2>1. IInv'
    BY IInvStep
  <2>2. CASE UNCHANGED vars
    BY <2>1, <2>2 DEF vars, endsVars, verbsVars, clientVars, fileVars, ClientPlaces,
       FilePlaces, Sends
  <2>3. CASE ClientNext /\ InTurn
    <3>1. ClientPlaces' /\ OthersKeep("client") /\ pcF' = pcF
      BY <2>0, <2>3, ClientPlacesStep DEF ClientNext, fileVars
    <3> QED BY <2>1, <3>1, Constants DEF OthersKeep, FilePlaces
  <2>4. CASE FileNextStep /\ InTurn
    <3>1. FilePlaces' /\ OthersKeep("file") /\ pcC' = pcC
      BY <2>0, <2>4, FilePlacesStep DEF FileNextStep, clientVars
    <3> QED BY <2>1, <3>1, Constants DEF OthersKeep, ClientPlaces
  <2>5. ASSUME NEW k \in Node, Nic(NicStep(k)) PROVE QInv'
    <3>1. \A n \in Node : Sends(n)' = Sends(n)
      BY <2>0, <2>5, NicKeeps, Constants DEF Nic
    <3> QED BY <2>1, <2>5, <3>1, Constants
            DEF Nic, clientVars, fileVars, ClientPlaces, FilePlaces
  <2> QED BY <2>2, <2>3, <2>4, <2>5 DEF Next
<1>3. QInv => QueuesFit
  <2> SUFFICES ASSUME QInv PROVE QueuesFit
    OBVIOUS
  <2>1. VerbsTypeOK
    BY DEF IInv, EndsTypeOK
  <2>2. Receives("client") \in {0, 1} /\ Receives("file") \in {0, 1}
    BY RestOf DEF Posted
  <2>3. Sends("client") <= 3 /\ Sends("file") <= 3
    BY <2>1, SendsType, Constants DEF ClientPlaces, FilePlaces
  <2> QED BY <2>1, <2>2, <2>3, WithinLimits, Constants
<1> QED BY <1>1, <1>2, <1>3, PTL DEF Spec
=============================================================================
