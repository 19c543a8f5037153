-------------------------- MODULE PushFile_proofs --------------------------
(***************************************************************************)
(* Proofs about the push of a file, for any number of chunks and any       *)
(* number of lost messages.                                                *)
(***************************************************************************)
EXTENDS PushInTurn, Verbs_proofs

-----------------------------------------------------------------------------
(* The inductive invariant behind the push's safety properties. Its core   *)
(* is a token: until the server has seen the end of the file at most one   *)
(* message, in any queue, on the wire or in a process's hands, exists at   *)
(* all. The rest says what that message is, given how far the two sides    *)
(* have got.                                                               *)

Finishing    == pcS \in {"finish", "drain", "handler", "closed"}
ServerHolds  == IF pcS \in {"msg", "imm", "save"} THEN 1 ELSE 0
ClientHolds  == IF pcC \in {"check", "handle"} THEN 1 ELSE 0
QueuedC  == Len(sq["client"])      \* sends the client has queued
WireS    == Len(wire["server"])    \* messages on their way to the server
ArrivedS == Len(rcq["server"])     \* messages the server has not polled
QueuedS  == Len(sq["server"])
WireC    == Len(wire["client"])
ArrivedC == Len(rcq["client"])
ToServer == QueuedC + WireS + ArrivedS + ServerHolds
ToClient == QueuedS + WireC + ArrivedC + ClientHolds

\* What a message of the client can be, a write with immediate i and payload
\* p or a text, wherever it is now.
ClientSent(isWrite, i, p) ==
  \/ isWrite /\ i = 1 /\ p = Text("name") /\ ~ named /\ pos = 0
  \/ isWrite /\ i = 1 /\ p = Chunk(pos) /\ named /\ pos = Len(dst) + 1
  \/ isWrite /\ i = 0 /\ named /\ pos = NumChunks /\ Len(dst) = NumChunks
  \/ ~ isWrite /\ p = Text("oserr")

\* What a text of the server can be.
ServerSent(p) == IF Finishing THEN p = Text("done")
                 ELSE \/ p = Text("begin")
                      \/ p = Text("ready") /\ named /\ Len(dst) = pos

\* How far the two sides have got.
Progress ==
  /\ \A i \in 1..Len(dst) : dst[i] = i
  /\ Len(dst) <= pos
  /\ ~ named => Len(dst) = 0
  /\ doneC => Finishing
  /\ Finishing => Len(dst) = NumChunks /\ named
  /\ pcC \in {"arm", "begin", "check"} =>
       ~ named /\ pos = 0 /\ ~ doneC /\ pcS \in {"start", "loop"} /\ ToServer = 0
  /\ pcS = "start" => ToServer = 0 /\ ToClient = 0

Token == IF Finishing THEN ToServer = 0 ELSE ToServer + ToClient <= 1

Regions == /\ \A i \in 1..Len(rq["client"]) : rq["client"][i] = "recv_mr"
           /\ \A i \in 1..Len(rq["server"]) : rq["server"][i] = "file_mr"

ClientMessages ==
  /\ \A i \in 1..Len(sq["client"]) : LET w == sq["client"][i] IN
       /\ w.mr # "recv_mr" /\ (w.len = 1 \/ (w.imm = 0 /\ w.op = "WRITE_IMM"))
       /\ ClientSent(w.op = "WRITE_IMM", w.imm, mem["client"][w.mr])
  /\ \A i \in 1..Len(wire["server"]) : LET m == wire["server"][i] IN
       /\ m.len = 1 \/ (m.imm = 0 /\ m.op = "WRITE_IMM")
       /\ ClientSent(m.op = "WRITE_IMM", m.imm, m.data)
  /\ \A i \in 1..Len(rcq["server"]) : LET c == rcq["server"][i] IN
       ClientSent(c.op = "RECV_IMM", c.imm, mem["server"]["file_mr"])
  /\ pcS = "imm"  => ClientSent(TRUE, imm, mem["server"]["file_mr"])
  /\ pcS = "msg"  => ClientSent(FALSE, imm, mem["server"]["file_mr"])
  /\ pcS = "save" => mem["server"]["file_mr"] = Chunk(pos) /\ named /\ pos = Len(dst) + 1

ServerMessages ==
  /\ \A i \in 1..Len(sq["server"]) : LET w == sq["server"][i] IN
       w.op = "SEND" /\ w.mr = "msg_mr" /\ w.len = 1
  /\ sq["server"] # <<>> => ServerSent(mem["server"]["msg_mr"])
  /\ \A i \in 1..Len(wire["client"]) : LET m == wire["client"][i] IN
       m.op = "SEND" /\ m.len = 1 /\ ServerSent(m.data)
  /\ rcq["client"] # <<>> \/ ClientHolds = 1 => ServerSent(mem["client"]["recv_mr"])

\* The strengthening of the push's safety properties: inductive as it stands.
IInv == TypeOK /\ Progress /\ Token /\ Regions /\ ClientMessages /\ ServerMessages

-----------------------------------------------------------------------------
(* On top of IInv: the receives that are posted.  Each side posts the receive *)
(* for the next message before it sends the message that provokes it; the     *)
(* client has one more, of push_file, and uses it for the second DONE.        *)

ClientReceives ==
  /\ Receives("client") = IF pcC = "closed" THEN 0
                          ELSE IF \/ pcC \in {"begin", "loop"}
                                  \/ pcC = "close" /\ doneC THEN 2 ELSE 1
  /\ pcC = "closed" => ~ up["client"]

ServerReceives ==
  /\ pcS \notin {"loop", "save"} => Receives("server") = 0
  /\ Receives("server") \in 0..1
  /\ \/ pcS = "save"
     \/ pcS = "loop" /\ (\/ pcC \notin {"close", "closed"}
                         \/ sq["client"] # <<>> \/ wire["server"] # <<>>)
     => Receives("server") = 1

\* The client's only SEND, the text of its OSError, is its last message: the server
\* posts no receive after it.
ErrorLast ==
  pcS = "msg" \/ (\E i \in 0..1 : Comes("server", "SEND", i)) => pcC \in {"close", "closed"}

\* Before the client has posted its second receive in c_push_file it has not ended
\* the file; nor has it when it gave up.
Early == pcC = "prepost" \/ (pcC \in {"close", "closed"} /\ ~ doneC)

EndsLater == Early => /\ ~ Finishing
                      /\ ~ (pcS = "imm" /\ imm = 0)
                      /\ ~ Comes("server", "WRITE_IMM", 0)

\* At the end the server sends two texts.
LastTexts == Finishing => ToClient <= IF pcS = "finish" THEN 1 ELSE 2

ReceiveInv == ClientReceives /\ ServerReceives /\ ErrorLast /\ EndsLater /\ LastTexts

-----------------------------------------------------------------------------
(* The proofs. *)

\* What the assumptions on the constants say, value by value.
LEMMA Constants ==
  /\ Node = {"client", "server"}
  /\ Peer["client"] = "server" /\ Peer["server"] = "client"
  /\ NumChunks \in Nat /\ MaxLoss \in Nat
BY PushAssumption, VerbsAssumption

-----------------------------------------------------------------------------
(* Type correctness of the push. *)

LEMMA TypeInit == Init => TypeOK
<1> SUFFICES ASSUME Init PROVE TypeOK
  OBVIOUS
<1>1. <<"recv_mr">> \in Seq(Region) /\ \A S : <<>> \in Seq(S)
  BY DEF Region
<1>2. rq \in [Node -> Seq(Region)]
  BY <1>1 DEF Init, VerbsInit
<1>3. mem \in [Node -> [Part -> Payload]]
  BY PayloadFacts DEF Init, VerbsInit, Nothing
<1>4. VerbsTypeOK
  BY <1>1, <1>2, <1>3, Constants DEF Init, VerbsInit, VerbsTypeOK
<1>5. dst \in Seq(Nat) /\ pos \in 0..NumChunks /\ imm \in 0..1
  BY <1>1, Constants DEF Init
<1>6. /\ pcC = "arm" /\ pcS = "start" /\ canOpen \in BOOLEAN
      /\ doneC = FALSE /\ named = FALSE
  BY DEF Init
<1> QED BY <1>4, <1>5, <1>6 DEF TypeOK

LEMMA ClientTypeStep ==
  ASSUME TypeOK, ClientNext
  PROVE  TypeOK'
<1> USE Constants, PayloadFacts DEF TypeOK, Region, clientVars, serverVars
<1>0. VerbsTypeOK
  OBVIOUS
<1>1. CASE ClientArm
  BY <1>0, <1>1, PostRecvType DEF ClientArm, NoSend, NoPoll, VerbsTypeOK
<1>2. CASE ClientPollBegin
  BY <1>0, <1>2, PollType DEF ClientPollBegin, PollAny
<1>3. CASE ClientWriteName
  BY <1>0, <1>3, WriteType DEF ClientWriteName, NoRecv, NoPoll, VerbsTypeOK
<1>4. CASE ClientGiveUp
  BY <1>0, <1>4, SendType DEF ClientGiveUp, NoSend, NoRecv, NoPoll, VerbsTypeOK
<1>5. CASE ClientPrepost
  BY <1>0, <1>5, PostRecvType DEF ClientPrepost, NoSend, NoPoll, VerbsTypeOK
<1>6. CASE ClientPoll
  BY <1>0, <1>6, PollType DEF ClientPoll, PollAny
<1>7. CASE ClientSendChunk
  <2>1. CASE pos < NumChunks /\ pos' = pos + 1 /\ PostWrite("client", "file_mr", Chunk(pos + 1), 1)
    <3>1. Chunk(pos + 1) \in Payload
      OBVIOUS
    <3>2. pos' \in 0..NumChunks
      BY <2>1
    <3> QED BY <1>0, <1>7, <2>1, <3>1, <3>2, PostRecvType, WriteType
            DEF ClientSendChunk, NoPoll, VerbsTypeOK
  <2>2. CASE pos = NumChunks /\ pos' = pos /\ PostEmptyWrite("client", "file_mr")
    BY <1>0, <1>7, <2>2, PostRecvType, EmptyWriteType
       DEF ClientSendChunk, NoPoll, VerbsTypeOK
  <2> QED BY <1>7, <2>1, <2>2 DEF ClientSendChunk, WriteNext
<1>8. CASE ClientOther
  BY <1>0, <1>8, PostRecvType DEF ClientOther, NoSend, NoPoll, VerbsTypeOK
<1>9. CASE ClientClose
  BY <1>0, <1>9, CloseType DEF ClientClose
<1> QED BY <1>1, <1>2, <1>3, <1>4, <1>5, <1>6, <1>7, <1>8, <1>9 DEF ClientNext

LEMMA ServerTypeStep ==
  ASSUME TypeOK, ServerNext
  PROVE  TypeOK'
<1> USE Constants, PayloadFacts DEF TypeOK, Region, clientVars, serverVars
<1>0. VerbsTypeOK
  OBVIOUS
<1>1. CASE ServerStart
  BY <1>0, <1>1, PostRecvType, SendType DEF ServerStart, NoPoll, VerbsTypeOK
<1>2. CASE ServerPoll
  <2>1. CASE PollSend("server") /\ UNCHANGED <<pcS, imm>>
    BY <1>0, <1>2, <2>1, PollType DEF ServerPoll, PollAny
  <2>2. CASE PollRecv("server") /\ imm' = Head(rcq["server"]).imm
    <3>1. Head(rcq["server"]) \in Completion
      BY <2>2, TailFacts DEF PollRecv, VerbsTypeOK
    <3>2. imm' \in 0..1
      BY <2>2, <3>1 DEF Completion
    <3> QED BY <1>0, <1>2, <2>2, <3>2, PollType DEF ServerPoll, PollAny
  <2> QED BY <1>2, <2>1, <2>2 DEF ServerPoll
<1>3. CASE ServerMessage
  BY <1>0, <1>3 DEF ServerMessage, NoRecv, NoSend, NoPoll, VerbsTypeOK
<1>4. CASE ServerEnd
  BY <1>0, <1>4, SendType DEF ServerEnd, NoRecv, NoPoll, VerbsTypeOK
<1>5. CASE ServerCreate
  BY <1>0, <1>5, PostRecvType, SendType DEF ServerCreate, NoPoll, VerbsTypeOK
<1>6. CASE ServerRepost
  BY <1>0, <1>6, PostRecvType DEF ServerRepost, NoSend, NoPoll, VerbsTypeOK
<1>7. CASE ServerSave
  <2>1. mem["server"]["file_mr"].idx \in Nat
    BY DEF VerbsTypeOK, Payload, Region, Part
  <2>2. dst' \in Seq(Nat)
    BY <1>7, <2>1, AppendFacts DEF ServerSave
  <2> QED BY <1>0, <1>7, <2>2, SendType DEF ServerSave, NoRecv, NoPoll, VerbsTypeOK
<1>8. CASE ServerFinish
  BY <1>0, <1>8, SendType DEF ServerFinish, NoSend, NoRecv, NoPoll, VerbsTypeOK
<1>9. CASE ServerDrain
  BY <1>0, <1>9, PollType DEF ServerDrain
<1>10. CASE ServerClose
  BY <1>0, <1>10, CloseType DEF ServerClose
<1> QED BY <1>1, <1>2, <1>3, <1>4, <1>5, <1>6, <1>7, <1>8, <1>9, <1>10 DEF ServerNext

LEMMA TypeStep ==
  ASSUME TypeOK, [Next]_vars
  PROVE  TypeOK'
<1>1. CASE ClientNext
  BY <1>1, ClientTypeStep
<1>2. CASE ServerNext
  BY <1>2, ServerTypeStep
<1>3. ASSUME NEW n \in Node, Nic(NicStep(n)) PROVE TypeOK'
  BY <1>3, NicType DEF Nic, TypeOK, clientVars, serverVars
<1>4. CASE UNCHANGED vars
  BY <1>4 DEF vars, verbsVars, clientVars, serverVars, TypeOK, VerbsTypeOK
<1> QED BY <1>1, <1>2, <1>3, <1>4 DEF Next

\* Every variable of the push keeps its type: in particular the client never
\* reads past the end of its file.
THEOREM TypeCorrect == Spec => []TypeOK
<1>1. Init => TypeOK
  BY TypeInit
<1>2. TypeOK /\ [Next]_vars => TypeOK'
  BY TypeStep
<1> QED BY <1>1, <1>2, PTL DEF Spec

-----------------------------------------------------------------------------
(* The inductive invariant. *)

\* The types of the queues of the two end points, one by one.
LEMMA QueueTypes ==
  ASSUME TypeOK
  PROVE  /\ sq["client"] \in Seq(WorkRequest) /\ sq["server"] \in Seq(WorkRequest)
         /\ wire["client"] \in Seq(Message) /\ wire["server"] \in Seq(Message)
         /\ rcq["client"] \in Seq(Completion) /\ rcq["server"] \in Seq(Completion)
         /\ rq["client"] \in Seq(Region) /\ rq["server"] \in Seq(Region)
         /\ DOMAIN sq = Node /\ DOMAIN wire = Node /\ DOMAIN rcq = Node /\ DOMAIN rq = Node
         /\ DOMAIN mem = Node
         /\ \A n \in Node : DOMAIN mem[n] = Part
BY Constants DEF TypeOK, VerbsTypeOK

LEMMA Counts ==
  ASSUME TypeOK
  PROVE  /\ QueuedC \in Nat /\ (QueuedC = 0 <=> sq["client"] = <<>>)
         /\ QueuedS \in Nat /\ (QueuedS = 0 <=> sq["server"] = <<>>)
         /\ WireC \in Nat /\ (WireC = 0 <=> wire["client"] = <<>>)
         /\ WireS \in Nat /\ (WireS = 0 <=> wire["server"] = <<>>)
         /\ ArrivedC \in Nat /\ (ArrivedC = 0 <=> rcq["client"] = <<>>)
         /\ ArrivedS \in Nat /\ (ArrivedS = 0 <=> rcq["server"] = <<>>)
         /\ ServerHolds \in {0, 1} /\ ClientHolds \in {0, 1}
         /\ ToServer \in Nat /\ ToClient \in Nat
         /\ Len(dst) \in Nat /\ pos \in Nat
<1>1. /\ QueuedC \in Nat /\ (QueuedC = 0 <=> sq["client"] = <<>>)
      /\ QueuedS \in Nat /\ (QueuedS = 0 <=> sq["server"] = <<>>)
  BY QueueTypes, EmptyFacts DEF QueuedC, QueuedS
<1>2. /\ WireC \in Nat /\ (WireC = 0 <=> wire["client"] = <<>>)
      /\ WireS \in Nat /\ (WireS = 0 <=> wire["server"] = <<>>)
  BY QueueTypes, EmptyFacts DEF WireC, WireS
<1>3. /\ ArrivedC \in Nat /\ (ArrivedC = 0 <=> rcq["client"] = <<>>)
      /\ ArrivedS \in Nat /\ (ArrivedS = 0 <=> rcq["server"] = <<>>)
  BY QueueTypes, EmptyFacts DEF ArrivedC, ArrivedS
<1>4. ServerHolds \in {0, 1} /\ ClientHolds \in {0, 1}
  BY DEF ServerHolds, ClientHolds
<1>5. Len(dst) \in Nat /\ pos \in Nat
  BY Constants, EmptyFacts DEF TypeOK
<1>6. ToServer \in Nat /\ ToClient \in Nat
  BY <1>1, <1>2, <1>3, <1>4 DEF ToServer, ToClient
<1> QED BY <1>1, <1>2, <1>3, <1>4, <1>5, <1>6

\* A process that holds the token is alone with it.
LEMMA Alone ==
  ASSUME IInv, ~ Finishing, ServerHolds = 1 \/ ClientHolds = 1
  PROVE  /\ sq["client"] = <<>> /\ wire["server"] = <<>> /\ rcq["server"] = <<>>
         /\ sq["server"] = <<>> /\ wire["client"] = <<>> /\ rcq["client"] = <<>>
         /\ QueuedC = 0 /\ WireS = 0 /\ ArrivedS = 0
         /\ QueuedS = 0 /\ WireC = 0 /\ ArrivedC = 0
         /\ ServerHolds + ClientHolds = 1
         /\ pcS # "start"
<1>1. TypeOK /\ ToServer + ToClient <= 1
  BY DEF IInv, Token
<1>2. /\ QueuedC = 0 /\ WireS = 0 /\ ArrivedS = 0
      /\ QueuedS = 0 /\ WireC = 0 /\ ArrivedC = 0
      /\ ServerHolds + ClientHolds = 1
  <2>1. /\ QueuedC \in Nat /\ WireS \in Nat /\ ArrivedS \in Nat
        /\ QueuedS \in Nat /\ WireC \in Nat /\ ArrivedC \in Nat
        /\ ServerHolds \in {0, 1} /\ ClientHolds \in {0, 1}
    BY <1>1, Counts
  <2> QED BY <1>1, <2>1 DEF ToServer, ToClient
<1>3. ToServer + ToClient = 1
  BY <1>2, Counts, <1>1 DEF ToServer, ToClient
<1>4. pcS # "start"
  BY <1>3 DEF IInv, Progress
<1> QED BY <1>1, <1>2, <1>4, Counts

LEMMA TextsDiffer ==
  /\ Text("ready") # Text("begin") /\ Text("ready") # Text("done")
  /\ Text("done") # Text("begin")
BY DEF Text

LEMMA RegionsPost ==
  ASSUME TypeOK, Regions, PostRecv("client", "recv_mr") \/ PostRecv("server", "file_mr")
  PROVE  Regions'
<1>1. /\ rq["client"] \in Seq(Region) /\ rq["server"] \in Seq(Region)
      /\ DOMAIN rq = Node /\ "client" \in Node /\ "server" \in Node
  BY QueueTypes, Constants
<1>2. CASE PostRecv("client", "recv_mr")
  <2>1. rq'["client"] = Append(rq["client"], "recv_mr") /\ rq'["server"] = rq["server"]
    BY <1>1, <1>2 DEF PostRecv
  <2> QED BY <1>1, <2>1 DEF Regions
<1>3. CASE PostRecv("server", "file_mr")
  <2>1. rq'["server"] = Append(rq["server"], "file_mr") /\ rq'["client"] = rq["client"]
    BY <1>1, <1>3 DEF PostRecv
  <2> QED BY <1>1, <2>1 DEF Regions
<1> QED BY <1>2, <1>3

\* What a post to an empty send queue leaves behind.
LEMMA PostAlone ==
  ASSUME TypeOK, NEW n \in Node, NEW r \in Region, NEW p, NEW w,
         Post(n, r, p, w), sq[n] = <<>>
  PROVE  /\ sq'[n] = <<w>>
         /\ \A k \in Node \ {n} : sq'[k] = sq[k] /\ mem'[k] = mem[k]
         /\ mem'[n][r] = p
         /\ \A x \in Region \ {r} : mem'[n][x] = mem[n][x]
<1>1. sq' = [sq EXCEPT ![n] = <<w>>]
  BY AppendToEmpty DEF Post
<1> QED BY <1>1, PostMem, QueueTypes DEF TypeOK

\* A step that moves no message.
LEMMA Silent ==
  ASSUME IInv, TypeOK', Regions',
         UNCHANGED <<sq, wire, rcq, mem, pos, named, dst, doneC>>,
         (pcS' = pcS /\ imm' = imm) \/ (Finishing /\ Finishing'),
         ClientHolds' = ClientHolds,
         pcC' \in {"arm", "begin", "check"} => pcC \in {"arm", "begin", "check"}
  PROVE  IInv'
<1>1. /\ QueuedC' = QueuedC /\ QueuedS' = QueuedS /\ WireC' = WireC /\ WireS' = WireS
      /\ ArrivedC' = ArrivedC /\ ArrivedS' = ArrivedS /\ ServerHolds' = ServerHolds
      /\ Finishing' = Finishing
  BY DEF QueuedC, QueuedS, WireC, WireS, ArrivedC, ArrivedS, ServerHolds, Finishing
<1>2. ToServer' = ToServer /\ ToClient' = ToClient
  BY <1>1 DEF ToServer, ToClient
<1>3. Progress'
  BY <1>1, <1>2 DEF Progress, IInv, Finishing
<1>4. Token'
  BY <1>1, <1>2 DEF Token, IInv
<1>5. ClientMessages'
  BY DEF ClientMessages, ClientSent, IInv, Finishing
<1>6. ServerMessages'
  BY <1>1 DEF ServerMessages, ServerSent, IInv
<1> QED BY <1>3, <1>4, <1>5, <1>6 DEF IInv

LEMMA StepArm == ASSUME IInv, TypeOK', ClientArm PROVE IInv'
<1>1. Regions'
  BY RegionsPost DEF ClientArm, IInv
<1>2. /\ UNCHANGED <<sq, wire, rcq, mem, pos, named, dst, doneC>>
      /\ pcS' = pcS /\ imm' = imm
      /\ ClientHolds' = ClientHolds
      /\ pcC' \in {"arm", "begin", "check"} => pcC \in {"arm", "begin", "check"}
  BY DEF ClientArm, NoSend, NoPoll, serverVars, ClientHolds
<1> QED BY <1>1, <1>2, Silent

LEMMA StepPrepost == ASSUME IInv, TypeOK', ClientPrepost PROVE IInv'
<1>1. Regions'
  BY RegionsPost DEF ClientPrepost, IInv
<1>2. /\ UNCHANGED <<sq, wire, rcq, mem, pos, named, dst, doneC>>
      /\ pcS' = pcS /\ imm' = imm
      /\ ClientHolds' = ClientHolds
      /\ pcC' \in {"arm", "begin", "check"} => pcC \in {"arm", "begin", "check"}
  BY DEF ClientPrepost, NoSend, NoPoll, serverVars, ClientHolds
<1> QED BY <1>1, <1>2, Silent

\* A text of the server reaches the client's hands.
LEMMA StepClientPollRecv ==
  ASSUME IInv, TypeOK', PollRecv("client"),
         UNCHANGED <<serverVars, canOpen, pos, doneC>>,
         \/ pcC = "begin" /\ pcC' = "check"
         \/ pcC = "loop" /\ pcC' = "handle"
  PROVE  IInv'
<1>1. /\ UNCHANGED <<sq, rq, mem, wire, pcS, imm, named, dst, pos, doneC>>
      /\ rcq["client"] # <<>> /\ rcq' = [rcq EXCEPT !["client"] = Tail(@)]
  BY DEF PollRecv, serverVars
<1>2. rcq'["server"] = rcq["server"] /\ rcq'["client"] = Tail(rcq["client"])
  BY <1>1, Constants, QueueTypes DEF IInv
<1>3. ArrivedC' = ArrivedC - 1 /\ ClientHolds' = 1 /\ ClientHolds = 0
  BY <1>1, <1>2, QueueTypes, TailFacts DEF ArrivedC, ClientHolds, IInv
<1>4. /\ QueuedC' = QueuedC /\ QueuedS' = QueuedS /\ WireC' = WireC /\ WireS' = WireS
      /\ ArrivedS' = ArrivedS /\ ServerHolds' = ServerHolds /\ Finishing' = Finishing
  BY <1>1, <1>2 DEF QueuedC, QueuedS, WireC, WireS, ArrivedS, ServerHolds, Finishing
<1>5. ToServer' = ToServer /\ ToClient' = ToClient
  BY <1>3, <1>4, Counts DEF ToServer, ToClient, IInv
<1>6. Progress'
  BY <1>1, <1>4, <1>5 DEF Progress, IInv
<1>7. Token'
  BY <1>4, <1>5 DEF Token, IInv
<1>8. Regions'
  BY <1>1 DEF Regions, IInv
<1>9. ClientMessages'
  BY <1>1, <1>2 DEF ClientMessages, ClientSent, IInv
<1>10. ServerMessages'
  BY <1>1, <1>4 DEF ServerMessages, ServerSent, IInv
<1> QED BY <1>6, <1>7, <1>8, <1>9, <1>10 DEF IInv

LEMMA StepPollBegin == ASSUME IInv, TypeOK', ClientPollBegin PROVE IInv'
BY StepClientPollRecv DEF ClientPollBegin

LEMMA StepClientPoll == ASSUME IInv, TypeOK', ClientPoll PROVE IInv'
<1>1. CASE PollSend("client") /\ pcC' = "loop"
  <2>1. Regions'
    BY <1>1 DEF PollSend, Regions, IInv
  <2>2. /\ UNCHANGED <<sq, wire, rcq, mem, pos, named, dst, doneC>>
        /\ pcS' = pcS /\ imm' = imm
        /\ ClientHolds' = ClientHolds
        /\ pcC' \in {"arm", "begin", "check"} => pcC \in {"arm", "begin", "check"}
    BY <1>1 DEF ClientPoll, PollSend, serverVars, ClientHolds
  <2> QED BY <2>1, <2>2, Silent
<1>2. CASE PollRecv("client") /\ pcC' = "handle"
  BY <1>2, StepClientPollRecv DEF ClientPoll
<1> QED BY <1>1, <1>2 DEF ClientPoll

LEMMA StepSendChunk == ASSUME IInv, TypeOK', ClientSendChunk PROVE IInv'
<1>1. ~ Finishing /\ named /\ Len(dst) = pos /\ ClientHolds = 1
  BY TextsDiffer DEF ClientSendChunk, TextRead, IInv, ServerMessages, ServerSent, ClientHolds
<1>2. /\ sq["client"] = <<>> /\ wire["server"] = <<>> /\ rcq["server"] = <<>>
      /\ sq["server"] = <<>> /\ wire["client"] = <<>> /\ rcq["client"] = <<>>
      /\ WireS = 0 /\ ArrivedS = 0 /\ WireC = 0 /\ ArrivedC = 0
      /\ ServerHolds = 0 /\ pcS # "start"
  BY <1>1, Alone, Counts DEF IInv
<1>3. /\ UNCHANGED <<up, scq, rcq, wire, lost, pcS, imm, named, dst, canOpen, doneC>>
      /\ pcC' = "loop" /\ pcC = "handle"
      /\ rq' = [rq EXCEPT !["client"] = Append(@, "recv_mr")]
  BY DEF ClientSendChunk, NoPoll, serverVars, PostRecv
<1>4. PICK w \in WorkRequest :
        /\ sq' = [sq EXCEPT !["client"] = <<w>>]
        /\ w.op = "WRITE_IMM" /\ w.mr = "file_mr"
        /\ mem'["server"] = mem["server"]
        /\ mem'["client"]["recv_mr"] = mem["client"]["recv_mr"]
        /\ \/ pos' = pos + 1 /\ w.imm = 1 /\ w.len = 1 /\ mem'["client"]["file_mr"] = Chunk(pos + 1)
           \/ pos' = NumChunks /\ pos = NumChunks /\ w.imm = 0 /\ w.len = 0
  <2>1. CASE pos < NumChunks /\ pos' = pos + 1 /\ PostWrite("client", "file_mr", Chunk(pos + 1), 1)
    <3> DEFINE w == [op |-> "WRITE_IMM", mr |-> "file_mr", len |-> 1, imm |-> 1]
    <3>1. w \in WorkRequest
      BY DEF WorkRequest, Region
    <3>2. sq' = [sq EXCEPT !["client"] = <<w>>]
      BY <2>1, <1>2, AppendToEmpty DEF PostWrite, Post
    <3>3. /\ mem'["server"] = mem["server"]
          /\ mem'["client"]["recv_mr"] = mem["client"]["recv_mr"]
          /\ mem'["client"]["file_mr"] = Chunk(pos + 1)
      BY <2>1, Constants, QueueTypes, PostMem DEF PostWrite, IInv, TypeOK, Region
    <3> QED BY <2>1, <3>1, <3>2, <3>3
  <2>2. CASE pos = NumChunks /\ pos' = pos /\ PostEmptyWrite("client", "file_mr")
    <3> DEFINE w == [op |-> "WRITE_IMM", mr |-> "file_mr", len |-> 0, imm |-> 0]
    <3>1. w \in WorkRequest
      BY DEF WorkRequest, Region
    <3>2. sq' = [sq EXCEPT !["client"] = <<w>>]
      BY <2>2, <1>2, AppendToEmpty DEF PostEmptyWrite, Post
    <3>3. mem'["server"] = mem["server"] /\ mem'["client"]["recv_mr"] = mem["client"]["recv_mr"]
      BY <2>2, Constants, QueueTypes, PostMem DEF PostEmptyWrite, IInv, TypeOK, Region
    <3> QED BY <2>2, <3>1, <3>2, <3>3
  <2> QED BY <2>1, <2>2 DEF ClientSendChunk, WriteNext
<1>5. sq'["client"] = <<w>> /\ sq'["server"] = <<>>
  BY <1>2, <1>4, Constants, QueueTypes DEF IInv
<1>6. Progress'
  BY <1>1, <1>2, <1>3, <1>4, Counts DEF Progress, Finishing, IInv
<1>7. Token'
  <2>1. QueuedC' = 1 /\ QueuedS' = 0
    BY <1>5 DEF QueuedC, QueuedS
  <2>2. /\ WireC' = 0 /\ WireS' = 0 /\ ArrivedC' = 0 /\ ArrivedS' = 0
        /\ ServerHolds' = 0 /\ ClientHolds' = 0
    BY <1>2, <1>3 DEF ServerHolds, ClientHolds, WireC, WireS, ArrivedC, ArrivedS
  <2>3. ToServer' = 1 /\ ToClient' = 0
    BY <2>1, <2>2 DEF ToServer, ToClient
  <2> QED BY <1>1, <1>3, <2>3 DEF Token, Finishing
<1>8. Regions'
  BY <1>3, Constants, QueueTypes, AppendFacts DEF Regions, IInv, Region
<1>9. ClientMessages'
  BY <1>1, <1>2, <1>3, <1>4, <1>5, Counts DEF ClientMessages, ClientSent, ServerHolds, IInv
<1>10. ServerMessages'
  BY <1>1, <1>2, <1>3, <1>5 DEF ServerMessages, ClientHolds
<1> QED BY <1>6, <1>7, <1>8, <1>9, <1>10 DEF IInv

\* The client hands the token on: it is alone with a text, and posts w.
LEMMA ClientPosted ==
  ASSUME IInv, TypeOK', Regions', ~ Finishing, ClientHolds = 1, ClientHolds' = 0,
         UNCHANGED <<rcq, wire, pcS, imm, named, dst, doneC>>, pos' >= pos,
         pcC' \notin {"arm", "begin", "check"},
         NEW w \in WorkRequest, sq' = [sq EXCEPT !["client"] = <<w>>],
         mem'["server"] = mem["server"], w.mr # "recv_mr",
         w.len = 1 \/ (w.imm = 0 /\ w.op = "WRITE_IMM"),
         ClientSent(w.op = "WRITE_IMM", w.imm, mem["client"][w.mr])'
  PROVE  IInv'
<1>1. /\ sq["client"] = <<>> /\ wire["server"] = <<>> /\ rcq["server"] = <<>>
      /\ sq["server"] = <<>> /\ wire["client"] = <<>> /\ rcq["client"] = <<>>
      /\ WireS = 0 /\ ArrivedS = 0 /\ WireC = 0 /\ ArrivedC = 0
      /\ ServerHolds = 0 /\ pcS # "start"
  BY Alone, Counts DEF IInv
<1>2. sq'["client"] = <<w>> /\ sq'["server"] = <<>>
  BY <1>1, Constants, QueueTypes DEF IInv
<1>3. Progress'
  <2>1. pos' \in Nat /\ Len(dst) \in Nat /\ pos \in Nat /\ ~ Finishing'
    BY Constants, Counts DEF TypeOK, IInv, Finishing
  <2> QED BY <1>1, <2>1 DEF Progress, Finishing, IInv
<1>4. Token'
  <2>1. QueuedC' = 1 /\ QueuedS' = 0
    BY <1>2 DEF QueuedC, QueuedS
  <2>2. /\ WireC' = 0 /\ WireS' = 0 /\ ArrivedC' = 0 /\ ArrivedS' = 0
        /\ ServerHolds' = 0 /\ ClientHolds' = 0
    BY <1>1 DEF ServerHolds, WireC, WireS, ArrivedC, ArrivedS
  <2>3. ToServer' = 1 /\ ToClient' = 0
    BY <2>1, <2>2 DEF ToServer, ToClient
  <2> QED BY <2>3 DEF Token, Finishing
<1>5. ClientMessages'
  <2>1. \A i \in 1..Len(sq'["client"]) : sq'["client"][i] = w
    BY <1>2
  <2>2. Len(wire'["server"]) = 0 /\ Len(rcq'["server"]) = 0
    BY <1>1
  <2>3. pcS' \notin {"imm", "msg", "save"}
    BY <1>1 DEF ServerHolds
  <2>4. (\A i \in 1..Len(sq["client"]) : LET v == sq["client"][i] IN
           /\ v.mr # "recv_mr" /\ (v.len = 1 \/ (v.imm = 0 /\ v.op = "WRITE_IMM"))
           /\ ClientSent(v.op = "WRITE_IMM", v.imm, mem["client"][v.mr]))'
    BY <2>1 DEF ClientSent
  <2>5. /\ \A i \in 1..Len(wire'["server"]) : FALSE
        /\ \A i \in 1..Len(rcq'["server"]) : FALSE
    BY <2>2
  <2> QED BY <2>3, <2>4, <2>5 DEF ClientMessages, ClientSent
<1>6. ServerMessages'
  BY <1>1, <1>2 DEF ServerMessages
<1> QED BY <1>3, <1>4, <1>5, <1>6 DEF IInv

LEMMA StepWriteName == ASSUME IInv, TypeOK', ClientWriteName PROVE IInv'
<1>1. ~ named /\ pos = 0 /\ ~ Finishing /\ ClientHolds = 1 /\ ClientHolds' = 0
  BY DEF ClientWriteName, IInv, Progress, Finishing, ClientHolds
<1> DEFINE w == [op |-> "WRITE_IMM", mr |-> "file_mr", len |-> 1, imm |-> 1]
<1>2. w \in WorkRequest
  BY DEF WorkRequest, Region
<1>3. /\ UNCHANGED <<rq, rcq, wire, pcS, imm, named, dst, doneC, pos>>
      /\ pcC' = "prepost"
      /\ Post("client", "file_mr", Text("name"), w)
  BY DEF ClientWriteName, NoPoll, NoRecv, serverVars, PostWrite
<1>4. sq["client"] = <<>>
  BY <1>1, Alone
<1>5. sq' = [sq EXCEPT !["client"] = <<w>>]
  BY <1>3, <1>4, AppendToEmpty DEF Post
<1>6. mem'["server"] = mem["server"] /\ mem'["client"]["file_mr"] = Text("name")
  BY <1>3, Constants, QueueTypes, PostMem DEF IInv, TypeOK, Region
<1>7. ClientSent(w.op = "WRITE_IMM", w.imm, mem["client"][w.mr])'
  BY <1>1, <1>3, <1>6 DEF ClientSent
<1>8. Regions'
  BY <1>3 DEF Regions, IInv
<1>9. pos' >= pos
  BY <1>1, <1>3
<1> HIDE DEF w
<1>10. w.mr # "recv_mr" /\ w.len = 1
  BY DEF w
<1> QED BY <1>1, <1>2, <1>3, <1>5, <1>6, <1>7, <1>8, <1>9, <1>10, ClientPosted

LEMMA StepGiveUp == ASSUME IInv, TypeOK', ClientGiveUp PROVE IInv'
<1>1. ~ named /\ pos = 0 /\ ~ Finishing /\ ClientHolds = 1 /\ ClientHolds' = 0
  BY DEF ClientGiveUp, IInv, Progress, Finishing, ClientHolds
<1>2. TextRead = Text("begin")
  BY <1>1 DEF TextRead, IInv, ServerMessages, ServerSent
<1> DEFINE w == [op |-> "SEND", mr |-> "msg_mr", len |-> 1, imm |-> 0]
<1>3. w \in WorkRequest
  BY DEF WorkRequest, Region
<1>4. /\ UNCHANGED <<rq, rcq, wire, pcS, imm, named, dst, doneC, pos>>
      /\ pcC' = "close"
      /\ Post("client", "msg_mr", Text("oserr"), w)
  BY <1>2 DEF ClientGiveUp, NoPoll, NoRecv, serverVars, PostSend
<1>5. sq["client"] = <<>>
  BY <1>1, Alone
<1>6. sq' = [sq EXCEPT !["client"] = <<w>>]
  BY <1>4, <1>5, AppendToEmpty DEF Post
<1>7. mem'["server"] = mem["server"] /\ mem'["client"]["msg_mr"] = Text("oserr")
  BY <1>4, Constants, QueueTypes, PostMem DEF IInv, TypeOK, Region
<1>8. ClientSent(w.op = "WRITE_IMM", w.imm, mem["client"][w.mr])'
  BY <1>7 DEF ClientSent
<1>9. Regions'
  BY <1>4 DEF Regions, IInv
<1>10. pos' >= pos
  BY <1>1, <1>4
<1> HIDE DEF w
<1>11. w.mr # "recv_mr" /\ w.len = 1
  BY DEF w
<1> QED BY <1>1, <1>3, <1>4, <1>6, <1>7, <1>8, <1>9, <1>10, <1>11, ClientPosted

LEMMA StepOther == ASSUME IInv, TypeOK', ClientOther PROVE IInv'
<1>1. /\ UNCHANGED <<sq, scq, rcq, mem, wire, pcS, imm, named, dst, pos>>
      /\ pcC = "handle" /\ pcC' \in {"loop", "close"}
      /\ doneC' = (mem["client"]["recv_mr"] = Text("done"))
      /\ mem["client"]["recv_mr"] # Text("ready")
  BY DEF ClientOther, NoSend, NoPoll, serverVars, TextRead
<1>2. Regions'
  BY RegionsPost DEF ClientOther, IInv
<1>3. ClientHolds = 1 /\ ClientHolds' = 0
  BY <1>1 DEF ClientHolds
<1>4. doneC' => Finishing
  BY <1>1, <1>3, TextsDiffer DEF IInv, ServerMessages, ServerSent
<1>5. /\ QueuedC' = QueuedC /\ QueuedS' = QueuedS /\ WireC' = WireC /\ WireS' = WireS
      /\ ArrivedC' = ArrivedC /\ ArrivedS' = ArrivedS /\ ServerHolds' = ServerHolds
      /\ Finishing' = Finishing
  BY <1>1 DEF QueuedC, QueuedS, WireC, WireS, ArrivedC, ArrivedS, ServerHolds, Finishing
<1>6. ToServer' = ToServer /\ ToClient' = ToClient - 1
  BY <1>3, <1>5, Counts DEF ToServer, ToClient, IInv
<1>7. pcS # "start"
  <2>1. ToClient # 0
    BY <1>3, Counts DEF ToClient, IInv
  <2> QED BY <2>1 DEF IInv, Progress
<1>8. Progress'
  BY <1>1, <1>4, <1>5, <1>7 DEF Progress, IInv
<1>9. Token'
  <2>1. ToServer \in Nat /\ ToClient \in Nat
    BY Counts DEF IInv
  <2> QED BY <1>5, <1>6, <2>1 DEF Token, IInv
<1>10. ClientMessages'
  BY <1>1 DEF ClientMessages, ClientSent, IInv
<1>11. ServerMessages'
  BY <1>1, <1>3, <1>5 DEF ServerMessages, ServerSent, IInv
<1> QED BY <1>2, <1>8, <1>9, <1>10, <1>11 DEF IInv

\* The server hands the token on: nothing else is under way, and it posts p.
LEMMA ServerPosted ==
  ASSUME IInv, TypeOK', Regions', ServerHolds' = 0, ClientHolds = 0,
         QueuedC = 0, WireS = 0, ArrivedS = 0, QueuedS = 0, WireC = 0, ArrivedC = 0,
         UNCHANGED <<rcq, wire, pcC, pos, doneC>>, doneC => Finishing', pcS' # "start",
         pcC \in {"arm", "begin", "check"} =>
           ~ named' /\ pos = 0 /\ ~ doneC /\ pcS' = "loop",
         NEW p, PostSend("server", "msg_mr", p), ServerSent(p)',
         \A i \in 1..Len(dst') : dst'[i] = i, Len(dst') <= pos,
         ~ named' => Len(dst') = 0, Finishing' => Len(dst') = NumChunks /\ named'
  PROVE  IInv'
<1> DEFINE w == [op |-> "SEND", mr |-> "msg_mr", len |-> 1, imm |-> 0]
<1>1. /\ sq["client"] = <<>> /\ wire["server"] = <<>> /\ rcq["server"] = <<>>
      /\ sq["server"] = <<>> /\ wire["client"] = <<>> /\ rcq["client"] = <<>>
  BY Counts DEF IInv
<1>2. sq'["server"] = <<w>> /\ sq'["client"] = <<>>
  <2>1. sq' = [sq EXCEPT !["server"] = <<w>>]
    BY <1>1, AppendToEmpty DEF PostSend, Post
  <2> QED BY <1>1, <2>1, Constants, QueueTypes DEF IInv
<1>3. mem'["server"]["msg_mr"] = p
  BY Constants, QueueTypes, PostMem DEF PostSend, IInv, TypeOK, Region
<1>4. Token' /\ ToServer' = 0
  <2>1. QueuedC' = 0 /\ QueuedS' = 1
    BY <1>2 DEF QueuedC, QueuedS
  <2>2. /\ WireC' = 0 /\ WireS' = 0 /\ ArrivedC' = 0 /\ ArrivedS' = 0
        /\ ClientHolds' = 0
    BY DEF ClientHolds, WireC, WireS, ArrivedC, ArrivedS
  <2>3. ToServer' = 0 /\ ToClient' = 1
    BY <2>1, <2>2 DEF ToServer, ToClient
  <2> QED BY <2>3 DEF Token
<1>5. Progress'
  BY <1>4 DEF Progress
<1>6. ClientMessages'
  <2>1. Len(sq'["client"]) = 0 /\ Len(wire'["server"]) = 0 /\ Len(rcq'["server"]) = 0
    BY <1>1, <1>2
  <2>2. pcS' \notin {"imm", "msg", "save"}
    BY DEF ServerHolds
  <2>3. /\ \A i \in 1..Len(sq'["client"]) : FALSE
        /\ \A i \in 1..Len(wire'["server"]) : FALSE
        /\ \A i \in 1..Len(rcq'["server"]) : FALSE
    BY <2>1
  <2> QED BY <2>2, <2>3 DEF ClientMessages, ClientSent
<1>7. ServerMessages'
  <2>1. Len(wire'["client"]) = 0 /\ rcq'["client"] = <<>> /\ ClientHolds' = 0
    BY <1>1 DEF ClientHolds
  <2>2. \A i \in 1..Len(sq'["server"]) : sq'["server"][i] = w
    BY <1>2
  <2>3. (\A i \in 1..Len(sq["server"]) : LET v == sq["server"][i] IN
           v.op = "SEND" /\ v.mr = "msg_mr" /\ v.len = 1)'
    BY <2>2
  <2>4. ServerSent(mem["server"]["msg_mr"])'
    BY <1>3 DEF ServerSent
  <2>5. \A i \in 1..Len(wire'["client"]) : FALSE
    BY <2>1
  <2> QED BY <2>1, <2>3, <2>4, <2>5 DEF ServerMessages
<1> QED BY <1>4, <1>5, <1>6, <1>7 DEF IInv

LEMMA StepStart == ASSUME IInv, TypeOK', ServerStart PROVE IInv'
<1>1. ToServer = 0 /\ ToClient = 0 /\ ~ Finishing
  BY DEF ServerStart, IInv, Progress, Finishing
<1>2. /\ QueuedC = 0 /\ WireS = 0 /\ ArrivedS = 0
      /\ QueuedS = 0 /\ WireC = 0 /\ ArrivedC = 0 /\ ClientHolds = 0
  <2>1. /\ QueuedC \in Nat /\ WireS \in Nat /\ ArrivedS \in Nat
        /\ QueuedS \in Nat /\ WireC \in Nat /\ ArrivedC \in Nat
        /\ ServerHolds \in {0, 1} /\ ClientHolds \in {0, 1}
    BY Counts DEF IInv
  <2> QED BY <1>1, <2>1 DEF ToServer, ToClient
<1>3. /\ UNCHANGED <<rcq, wire, pcC, pos, doneC, named, dst>> /\ pcS' = "loop"
      /\ PostSend("server", "msg_mr", Text("begin"))
  BY DEF ServerStart, NoPoll, clientVars
<1>4. Regions'
  BY RegionsPost DEF ServerStart, IInv
<1>5. ServerHolds' = 0 /\ ~ Finishing' /\ ServerSent(Text("begin"))'
  BY <1>3 DEF ServerHolds, Finishing, ServerSent
<1>6. /\ doneC => Finishing'
      /\ pcC \in {"arm", "begin", "check"} =>
           ~ named' /\ pos = 0 /\ ~ doneC /\ pcS' = "loop"
      /\ (\A i \in 1..Len(dst') : dst'[i] = i) /\ Len(dst') <= pos
      /\ ~ named' => Len(dst') = 0
  BY <1>1, <1>3 DEF IInv, Progress
<1> QED BY <1>2, <1>3, <1>4, <1>5, <1>6, ServerPosted

\* What a server that has a message of the client in its hands knows.
LEMMA ServerAlone ==
  ASSUME IInv, ServerHolds = 1
  PROVE  /\ ~ Finishing /\ ClientHolds = 0 /\ ~ doneC
         /\ pcC \notin {"arm", "begin", "check"}
         /\ QueuedC = 0 /\ WireS = 0 /\ ArrivedS = 0
         /\ QueuedS = 0 /\ WireC = 0 /\ ArrivedC = 0
<1>1. ~ Finishing
  BY DEF ServerHolds, Finishing
<1>2. ToServer # 0
  BY Counts DEF ToServer, IInv
<1>3. pcC \notin {"arm", "begin", "check"} /\ ~ doneC
  BY <1>1, <1>2 DEF IInv, Progress
<1>4. ClientHolds = 0
  BY <1>1, Alone, Counts DEF IInv
<1> QED BY <1>1, <1>3, <1>4, Alone

LEMMA StepEnd == ASSUME IInv, TypeOK', ServerEnd PROVE IInv'
<1>1. ServerHolds = 1 /\ pcS = "imm" /\ imm = 0
  BY DEF ServerHolds, ServerEnd
<1>2. named /\ pos = NumChunks /\ Len(dst) = NumChunks
  BY <1>1 DEF IInv, ClientMessages, ClientSent
<1>3. /\ UNCHANGED <<rcq, wire, rq, pcC, pos, doneC, named, dst>> /\ pcS' = "finish"
      /\ PostSend("server", "msg_mr", Text("done"))
  BY DEF ServerEnd, NoPoll, NoRecv, clientVars
<1>4. Regions'
  BY <1>3 DEF Regions, IInv
<1>5. ServerHolds' = 0 /\ Finishing' /\ ServerSent(Text("done"))'
  BY <1>3 DEF ServerHolds, Finishing, ServerSent
<1>6. (\A i \in 1..Len(dst') : dst'[i] = i) /\ Len(dst') <= pos
  BY <1>3 DEF IInv, Progress
<1> QED BY <1>1, <1>2, <1>3, <1>4, <1>5, <1>6, ServerAlone, ServerPosted

LEMMA StepCreate == ASSUME IInv, TypeOK', ServerCreate PROVE IInv'
<1>1. ServerHolds = 1 /\ pcS = "imm" /\ imm = 1 /\ ~ named
  BY DEF ServerHolds, ServerCreate, IInv, TypeOK
<1>2. pos = 0 /\ Len(dst) = 0
  BY <1>1 DEF IInv, ClientMessages, ClientSent, Progress
<1>3. /\ UNCHANGED <<rcq, wire, pcC, pos, doneC, dst>> /\ pcS' = "loop" /\ named' = TRUE
      /\ PostSend("server", "msg_mr", Text("ready"))
  BY DEF ServerCreate, NoPoll, clientVars
<1>4. Regions'
  BY RegionsPost DEF ServerCreate, IInv
<1>5. ServerHolds' = 0 /\ ~ Finishing'
  BY <1>3 DEF ServerHolds, Finishing
<1>6. ServerSent(Text("ready"))'
  BY <1>2, <1>3, <1>5 DEF ServerSent
<1>7. (\A i \in 1..Len(dst') : dst'[i] = i) /\ Len(dst') <= pos
  BY <1>3 DEF IInv, Progress
<1> QED BY <1>1, <1>2, <1>3, <1>4, <1>5, <1>6, <1>7, ServerAlone, ServerPosted

LEMMA StepSave == ASSUME IInv, TypeOK', ServerSave PROVE IInv'
<1>1. ServerHolds = 1 /\ pcS = "save"
  BY DEF ServerHolds, ServerSave
<1>2. mem["server"]["file_mr"] = Chunk(pos) /\ named /\ pos = Len(dst) + 1
  BY <1>1 DEF IInv, ClientMessages
<1>3. /\ UNCHANGED <<rcq, wire, rq, pcC, pos, doneC, named>> /\ pcS' = "loop"
      /\ PostSend("server", "msg_mr", Text("ready"))
      /\ dst' = Append(dst, pos)
  BY <1>2, PayloadFacts DEF ServerSave, NoPoll, NoRecv, clientVars, Chunk
<1>4. Regions'
  BY <1>3 DEF Regions, IInv
<1>5. ServerHolds' = 0 /\ ~ Finishing'
  BY <1>3 DEF ServerHolds, Finishing
<1>6. Len(dst') = pos /\ \A i \in 1..Len(dst') : dst'[i] = i
  <2>1. dst \in Seq(Nat) /\ \A i \in 1..Len(dst) : dst[i] = i
    BY DEF IInv, TypeOK, Progress
  <2> QED BY <1>2, <1>3, <2>1
<1>7. ServerSent(Text("ready"))'
  BY <1>2, <1>3, <1>5, <1>6 DEF ServerSent
<1>8. Len(dst') <= pos
  BY <1>6, Counts DEF IInv
<1> QED BY <1>1, <1>2, <1>3, <1>4, <1>5, <1>6, <1>7, <1>8, ServerAlone, ServerPosted

LEMMA StepServerPoll == ASSUME IInv, TypeOK', ServerPoll PROVE IInv'
<1>1. CASE PollSend("server") /\ UNCHANGED <<pcS, imm>>
  <2>1. Regions'
    BY <1>1 DEF PollSend, Regions, IInv
  <2>2. /\ UNCHANGED <<sq, wire, rcq, mem, pos, named, dst, doneC>>
        /\ pcS' = pcS /\ imm' = imm
        /\ ClientHolds' = ClientHolds
        /\ pcC' \in {"arm", "begin", "check"} => pcC \in {"arm", "begin", "check"}
    BY <1>1 DEF ServerPoll, PollSend, clientVars, ClientHolds
  <2> QED BY <2>1, <2>2, Silent
<1>2. CASE /\ PollRecv("server")
           /\ pcS' = IF Head(rcq["server"]).op = "RECV_IMM" THEN "imm" ELSE "msg"
           /\ imm' = Head(rcq["server"]).imm
  <2>1. /\ UNCHANGED <<sq, rq, mem, wire, pcC, named, dst, pos, doneC>>
        /\ pcS = "loop" /\ pcS' \in {"imm", "msg"}
        /\ rcq["server"] # <<>> /\ rcq' = [rcq EXCEPT !["server"] = Tail(@)]
    BY <1>2 DEF ServerPoll, PollRecv, clientVars
  <2>2. rcq'["client"] = rcq["client"] /\ rcq'["server"] = Tail(rcq["server"])
    BY <2>1, Constants, QueueTypes DEF IInv
  <2>3. ArrivedS' = ArrivedS - 1 /\ ServerHolds' = 1 /\ ServerHolds = 0
    BY <2>1, <2>2, QueueTypes, TailFacts DEF ArrivedS, ServerHolds, IInv
  <2>4. /\ QueuedC' = QueuedC /\ QueuedS' = QueuedS /\ WireC' = WireC /\ WireS' = WireS
        /\ ArrivedC' = ArrivedC /\ ClientHolds' = ClientHolds
        /\ ~ Finishing /\ ~ Finishing'
    BY <2>1, <2>2 DEF QueuedC, QueuedS, WireC, WireS, ArrivedC, ClientHolds, Finishing
  <2>5. ToServer' = ToServer /\ ToClient' = ToClient /\ ToServer # 0
    <3>1. /\ QueuedC \in Nat /\ WireS \in Nat /\ ArrivedS \in Nat /\ ArrivedS # 0
          /\ ServerHolds \in {0, 1}
      BY <2>1, Counts DEF IInv
    <3>2. ToServer' = ToServer /\ ToServer # 0
      BY <2>3, <2>4, <3>1 DEF ToServer
    <3> QED BY <2>4, <3>2 DEF ToClient
  <2>6. Progress'
    BY <2>1, <2>4, <2>5 DEF Progress, IInv
  <2>7. Token'
    BY <2>4, <2>5 DEF Token, IInv
  <2>8. Regions'
    BY <2>1 DEF Regions, IInv
  <2>9. ClientMessages'
    <3>1. /\ 1 \in 1..Len(rcq["server"]) /\ Head(rcq["server"]) = rcq["server"][1]
          /\ Head(rcq["server"]).op \in {"RECV", "RECV_IMM"}
      <4>1. rcq["server"] \in Seq(Completion) /\ rcq["server"] # <<>>
        BY <2>1, QueueTypes DEF IInv
      <4>2. /\ 1 \in 1..Len(rcq["server"]) /\ Head(rcq["server"]) = rcq["server"][1]
            /\ Head(rcq["server"]) \in Completion
        BY <4>1
      <4> QED BY <4>2 DEF Completion
    <3>2. ClientSent(rcq["server"][1].op = "RECV_IMM", rcq["server"][1].imm,
                     mem["server"]["file_mr"])
      BY <3>1 DEF IInv, ClientMessages
    <3>3. /\ pcS' = "imm" => ClientSent(TRUE, imm', mem["server"]["file_mr"])
          /\ pcS' = "msg" => ClientSent(FALSE, imm', mem["server"]["file_mr"])
      BY <1>2, <3>1, <3>2 DEF ClientSent
    <3>4. Len(rcq'["server"]) = 0
      <4>1. ToServer + ToClient <= 1 /\ ArrivedS \in Nat /\ ArrivedS # 0
        BY <2>1, <2>4, Counts DEF IInv, Token
      <4>2. ArrivedS = 1
        <5>1. /\ QueuedC \in Nat /\ WireS \in Nat /\ ToClient \in Nat
              /\ ServerHolds \in {0, 1}
          BY Counts DEF IInv
        <5> QED BY <4>1, <5>1 DEF ToServer
      <4> QED BY <2>3, <4>2 DEF ArrivedS
    <3>5. \A i \in 1..Len(rcq'["server"]) : FALSE
      BY <3>4
    <3> QED BY <2>1, <3>3, <3>5 DEF ClientMessages, ClientSent, IInv
  <2>10. ServerMessages'
    BY <2>1, <2>2, <2>4 DEF ServerMessages, ServerSent, IInv
  <2> QED BY <2>6, <2>7, <2>8, <2>9, <2>10 DEF IInv
<1> QED BY <1>1, <1>2 DEF ServerPoll

LEMMA StepMessage == ASSUME IInv, TypeOK', ServerMessage PROVE IInv'
<1>1. ServerHolds = 1 /\ pcS = "msg"
  BY DEF ServerHolds, ServerMessage
<1>2. mem["server"]["file_mr"] = Text("oserr") /\ Text("oserr") # Text("err")
  BY <1>1 DEF IInv, ClientMessages, ClientSent, Text
<1>3. /\ UNCHANGED <<sq, rq, rcq, mem, wire, pcC, named, dst, pos, doneC>>
      /\ pcS' = "loop"
  BY <1>2 DEF ServerMessage, NoRecv, NoSend, NoPoll, clientVars
<1>4. /\ QueuedC' = 0 /\ QueuedS' = 0 /\ WireC' = 0 /\ WireS' = 0 /\ ArrivedC' = 0
      /\ ArrivedS' = 0 /\ ClientHolds' = 0 /\ ServerHolds' = 0
      /\ ~ Finishing /\ ~ Finishing'
  BY <1>1, <1>3, ServerAlone
     DEF QueuedC, QueuedS, WireC, WireS, ArrivedC, ArrivedS, ClientHolds, ServerHolds, Finishing
<1>5. ToServer' = 0 /\ ToClient' = 0
  BY <1>4 DEF ToServer, ToClient
<1>6. Progress'
  BY <1>1, <1>3, <1>4, <1>5, ServerAlone DEF Progress, IInv
<1>7. Token'
  BY <1>5 DEF Token
<1>8. Regions'
  BY <1>3 DEF Regions, IInv
<1>9. ClientMessages'
  BY <1>3 DEF ClientMessages, ClientSent, IInv
<1>10. ServerMessages'
  BY <1>3, <1>4 DEF ServerMessages, ServerSent, IInv, ClientHolds
<1> QED BY <1>6, <1>7, <1>8, <1>9, <1>10 DEF IInv

LEMMA StepRepost == ASSUME IInv, TypeOK', ServerRepost PROVE IInv'
<1>1. ServerHolds = 1 /\ pcS = "imm" /\ imm = 1 /\ named
  BY DEF ServerHolds, ServerRepost, IInv, TypeOK
<1>2. mem["server"]["file_mr"] = Chunk(pos) /\ pos = Len(dst) + 1
  BY <1>1 DEF IInv, ClientMessages, ClientSent
<1>3. UNCHANGED <<sq, rcq, mem, wire, pcC, named, dst, pos, doneC>> /\ pcS' = "save"
  BY DEF ServerRepost, NoSend, NoPoll, clientVars
<1>4. /\ QueuedC' = QueuedC /\ QueuedS' = QueuedS /\ WireC' = WireC /\ WireS' = WireS
      /\ ArrivedC' = ArrivedC /\ ArrivedS' = ArrivedS /\ ClientHolds' = ClientHolds
      /\ ServerHolds' = ServerHolds /\ ~ Finishing /\ ~ Finishing'
  BY <1>1, <1>3
     DEF QueuedC, QueuedS, WireC, WireS, ArrivedC, ArrivedS, ClientHolds, ServerHolds, Finishing
<1>5. ToServer' = ToServer /\ ToClient' = ToClient
  BY <1>4 DEF ToServer, ToClient
<1>6. Progress'
  BY <1>1, <1>3, <1>4, <1>5, ServerAlone DEF Progress, IInv
<1>7. Token'
  BY <1>4, <1>5 DEF Token, IInv
<1>8. Regions'
  BY RegionsPost DEF ServerRepost, IInv
<1>9. ClientMessages'
  BY <1>1, <1>2, <1>3 DEF ClientMessages, ClientSent, IInv
<1>10. ServerMessages'
  BY <1>3, <1>4 DEF ServerMessages, ServerSent, IInv
<1> QED BY <1>6, <1>7, <1>8, <1>9, <1>10 DEF IInv

\* Once the server has seen the end of the file, nothing is under way to it.
LEMMA NothingToServer ==
  ASSUME IInv, Finishing
  PROVE  /\ QueuedC = 0 /\ WireS = 0 /\ ArrivedS = 0 /\ ServerHolds = 0
         /\ sq["client"] = <<>> /\ wire["server"] = <<>> /\ rcq["server"] = <<>>
         /\ named /\ Len(dst) = NumChunks
         /\ pcC \notin {"arm", "begin", "check"} /\ pcS # "start"
<1>1. ToServer = 0
  BY DEF IInv, Token
<1>2. /\ QueuedC \in Nat /\ WireS \in Nat /\ ArrivedS \in Nat /\ ServerHolds \in {0, 1}
  BY Counts DEF IInv
<1>3. QueuedC = 0 /\ WireS = 0 /\ ArrivedS = 0 /\ ServerHolds = 0
  BY <1>1, <1>2 DEF ToServer
<1>4. sq["client"] = <<>> /\ wire["server"] = <<>> /\ rcq["server"] = <<>>
  BY <1>3, Counts DEF IInv
<1>5. /\ named /\ Len(dst) = NumChunks
      /\ pcC \notin {"arm", "begin", "check"} /\ pcS # "start"
  BY DEF IInv, Progress, Finishing
<1> QED BY <1>3, <1>4, <1>5

LEMMA StepFinish == ASSUME IInv, TypeOK', ServerFinish PROVE IInv'
<1> DEFINE w == [op |-> "SEND", mr |-> "msg_mr", len |-> 1, imm |-> 0]
<1>1. Finishing /\ Finishing' /\ named
  BY NothingToServer DEF ServerFinish, Finishing
<1>2. /\ UNCHANGED <<rcq, wire, rq, pcC, pos, doneC, named, dst>> /\ pcS' \in {"drain", "handler"}
      /\ PostSend("server", "msg_mr", Text("done"))
  BY <1>1 DEF ServerFinish, NoPoll, NoRecv, clientVars
<1>3. /\ sq'["client"] = sq["client"] /\ sq'["server"] = Append(sq["server"], w)
      /\ mem'["client"] = mem["client"] /\ mem'["server"]["msg_mr"] = Text("done")
  <2>1. sq'["client"] = sq["client"] /\ sq'["server"] = Append(sq["server"], w)
    BY <1>2, Constants, QueueTypes DEF PostSend, Post, IInv
  <2>2. mem'["client"] = mem["client"] /\ mem'["server"]["msg_mr"] = Text("done")
    BY <1>2, Constants, PostMem DEF PostSend, IInv, TypeOK, Region
  <2> QED BY <2>1, <2>2
<1>4. ToServer' = 0
  <2>1. QueuedC' = QueuedC /\ WireS' = WireS /\ ArrivedS' = ArrivedS
    BY <1>2, <1>3 DEF QueuedC, WireS, ArrivedS
  <2>2. ServerHolds' = 0
    BY <1>2 DEF ServerHolds
  <2> QED BY <1>1, <2>1, <2>2, NothingToServer DEF ToServer
<1>5. Progress'
  BY <1>1, <1>2, NothingToServer DEF Progress, IInv
<1>6. Token'
  BY <1>1, <1>4 DEF Token
<1>7. Regions'
  BY <1>2 DEF Regions, IInv
<1>8. ClientMessages'
  <2>1. /\ Len(sq'["client"]) = 0 /\ Len(wire'["server"]) = 0 /\ Len(rcq'["server"]) = 0
        /\ pcS' \notin {"imm", "msg", "save"}
    BY <1>1, <1>2, <1>3, NothingToServer
  <2>2. /\ \A i \in 1..Len(sq'["client"]) : FALSE
        /\ \A i \in 1..Len(wire'["server"]) : FALSE
        /\ \A i \in 1..Len(rcq'["server"]) : FALSE
    BY <2>1
  <2> QED BY <2>1, <2>2 DEF ClientMessages, ClientSent
<1>9. ServerMessages'
  <2>1. \A i \in 1..Len(sq'["server"]) :
           /\ sq'["server"][i].op = "SEND" /\ sq'["server"][i].mr = "msg_mr"
           /\ sq'["server"][i].len = 1
    <3>1. sq["server"] \in Seq(WorkRequest) /\ w \in WorkRequest
      BY QueueTypes DEF IInv, WorkRequest, Region
    <3>2. \A i \in 1..Len(sq["server"]) :
             /\ sq["server"][i].op = "SEND" /\ sq["server"][i].mr = "msg_mr"
             /\ sq["server"][i].len = 1
      BY DEF IInv, ServerMessages
    <3>3. w.op = "SEND" /\ w.mr = "msg_mr" /\ w.len = 1
      OBVIOUS
    <3> HIDE DEF w
    <3> QED BY <1>3, <3>1, <3>2, <3>3
  <2>2. ServerSent(mem["server"]["msg_mr"])'
    BY <1>1, <1>3 DEF ServerSent
  <2>3. ClientHolds' = ClientHolds
    BY <1>2 DEF ClientHolds
  <2> QED BY <1>1, <1>2, <1>3, <2>1, <2>2, <2>3 DEF ServerMessages, ServerSent, IInv
<1> QED BY <1>5, <1>6, <1>7, <1>8, <1>9 DEF IInv

LEMMA StepDrain == ASSUME IInv, TypeOK', ServerDrain PROVE IInv'
<1>1. Finishing /\ Finishing'
  BY DEF ServerDrain, Finishing
<1>2. PollSend("server")
  BY <1>1, NothingToServer DEF ServerDrain, PollAny, PollRecv
<1>3. Regions'
  BY <1>2 DEF PollSend, Regions, IInv
<1>4. /\ UNCHANGED <<sq, wire, rcq, mem, pos, named, dst, doneC>>
      /\ ClientHolds' = ClientHolds
      /\ pcC' \in {"arm", "begin", "check"} => pcC \in {"arm", "begin", "check"}
  BY <1>2 DEF ServerDrain, PollSend, clientVars, ClientHolds
<1> QED BY <1>1, <1>3, <1>4, Silent

LEMMA StepServerClose == ASSUME IInv, TypeOK', ServerClose PROVE IInv'
<1>1. /\ Finishing /\ Finishing'
      /\ UNCHANGED <<mem, wire, pcC, pos, doneC, named, dst>> /\ pcS' = "closed"
  BY DEF ServerClose, Finishing, CloseNode, clientVars
<1>2. /\ sq'["client"] = sq["client"] /\ sq'["server"] = <<>>
      /\ rcq'["client"] = rcq["client"] /\ rcq'["server"] = <<>>
      /\ rq'["client"] = rq["client"] /\ rq'["server"] = <<>>
  BY Constants, QueueTypes DEF ServerClose, CloseNode, IInv
<1>3. ToServer' = 0
  <2>1. QueuedC' = QueuedC /\ WireS' = WireS
    BY <1>1, <1>2 DEF QueuedC, WireS
  <2>2. ArrivedS' = 0 /\ ServerHolds' = 0
    BY <1>1, <1>2 DEF ArrivedS, ServerHolds
  <2> QED BY <1>1, <2>1, <2>2, NothingToServer DEF ToServer
<1>4. Progress'
  BY <1>1, NothingToServer DEF Progress, IInv
<1>5. Token'
  BY <1>1, <1>3 DEF Token
<1>6. Regions'
  BY <1>2 DEF Regions, IInv
<1>7. ClientMessages'
  <2>1. /\ Len(sq'["client"]) = 0 /\ Len(wire'["server"]) = 0 /\ Len(rcq'["server"]) = 0
    BY <1>1, <1>2, NothingToServer
  <2>2. /\ \A i \in 1..Len(sq'["client"]) : FALSE
        /\ \A i \in 1..Len(wire'["server"]) : FALSE
        /\ \A i \in 1..Len(rcq'["server"]) : FALSE
    BY <2>1
  <2> QED BY <1>1, <2>2 DEF ClientMessages, ClientSent
<1>8. ServerMessages'
  <2>1. ClientHolds' = ClientHolds /\ \A i \in 1..Len(sq'["server"]) : FALSE
    BY <1>1, <1>2 DEF ClientHolds
  <2> QED BY <1>1, <1>2, <2>1 DEF ServerMessages, ServerSent, IInv
<1> QED BY <1>4, <1>5, <1>6, <1>7, <1>8 DEF IInv

LEMMA StepClientClose == ASSUME IInv, TypeOK', ClientClose PROVE IInv'
<1>1. /\ pcC = "close" /\ pcC' = "closed"
      /\ UNCHANGED <<mem, wire, pcS, imm, pos, doneC, named, dst>>
  BY DEF ClientClose, CloseNode, serverVars
<1>2. /\ sq'["server"] = sq["server"] /\ sq'["client"] = <<>>
      /\ rcq'["server"] = rcq["server"] /\ rcq'["client"] = <<>>
      /\ rq'["server"] = rq["server"] /\ rq'["client"] = <<>>
  BY Constants, QueueTypes DEF ClientClose, CloseNode, IInv
<1>3. /\ QueuedC' = 0 /\ QueuedS' = QueuedS /\ WireC' = WireC /\ WireS' = WireS
      /\ ArrivedC' = 0 /\ ArrivedS' = ArrivedS /\ ServerHolds' = ServerHolds
      /\ ClientHolds = 0 /\ ClientHolds' = 0 /\ Finishing' = Finishing
  BY <1>1, <1>2 DEF QueuedC, QueuedS, WireC, WireS, ArrivedC, ArrivedS, ServerHolds,
                    ClientHolds, Finishing
<1>4. ToServer' <= ToServer /\ ToClient' <= ToClient /\ ToServer' \in Nat /\ ToClient' \in Nat
  <2>1. /\ QueuedC \in Nat /\ WireS \in Nat /\ ArrivedS \in Nat
        /\ QueuedS \in Nat /\ WireC \in Nat /\ ArrivedC \in Nat
        /\ ServerHolds \in {0, 1} /\ ClientHolds \in {0, 1}
    BY Counts DEF IInv
  <2> QED BY <1>3, <2>1 DEF ToServer, ToClient
<1>5. ToServer \in Nat /\ ToClient \in Nat
  BY Counts DEF IInv
<1>6. Progress'
  BY <1>1, <1>3, <1>4, <1>5 DEF Progress, IInv
<1>7. Token'
  <2>1. CASE Finishing
    BY <1>3, <1>4, <1>5, <2>1 DEF Token, IInv
  <2>2. CASE ~ Finishing
    <3>1. ToServer + ToClient <= 1
      BY <2>2 DEF Token, IInv
    <3>2. /\ QueuedC \in Nat /\ WireS \in Nat /\ ArrivedS \in Nat
          /\ QueuedS \in Nat /\ WireC \in Nat /\ ArrivedC \in Nat
          /\ ServerHolds \in {0, 1} /\ ClientHolds \in {0, 1}
      BY Counts DEF IInv
    <3>3. ToServer' + ToClient' <= 1
      BY <1>3, <3>1, <3>2 DEF ToServer, ToClient
    <3> QED BY <1>3, <2>2, <3>3 DEF Token
  <2> QED BY <2>1, <2>2
<1>8. Regions'
  BY <1>2 DEF Regions, IInv
<1>9. ClientMessages'
  <2>1. \A i \in 1..Len(sq'["client"]) : FALSE
    BY <1>2
  <2> QED BY <1>1, <1>2, <2>1 DEF ClientMessages, ClientSent, IInv
<1>10. ServerMessages'
  BY <1>1, <1>2, <1>3 DEF ServerMessages, ServerSent, IInv
<1> QED BY <1>6, <1>7, <1>8, <1>9, <1>10 DEF IInv

-----------------------------------------------------------------------------
(* The adapters and the network keep the invariant. *)

\* A message under way to the server is the only one there is.
LEMMA OneMessage ==
  ASSUME IInv, ToServer # 0
  PROVE  /\ ~ Finishing /\ ToServer = 1 /\ ToClient = 0 /\ pcS # "start"
         /\ pcC \notin {"arm", "begin", "check"}
         /\ QueuedS = 0 /\ WireC = 0 /\ ArrivedC = 0 /\ ClientHolds = 0
         /\ sq["server"] = <<>> /\ wire["client"] = <<>> /\ rcq["client"] = <<>>
<1>1. ~ Finishing /\ ToServer + ToClient <= 1
  BY DEF IInv, Token
<1>2. /\ QueuedC \in Nat /\ WireS \in Nat /\ ArrivedS \in Nat
      /\ QueuedS \in Nat /\ WireC \in Nat /\ ArrivedC \in Nat
      /\ ServerHolds \in {0, 1} /\ ClientHolds \in {0, 1}
      /\ ToServer \in Nat /\ ToClient \in Nat
  BY Counts DEF IInv
<1>3. ToServer = 1 /\ ToClient = 0
  BY <1>1, <1>2
<1>4. QueuedS = 0 /\ WireC = 0 /\ ArrivedC = 0 /\ ClientHolds = 0
  BY <1>2, <1>3 DEF ToClient
<1>5. pcS # "start" /\ pcC \notin {"arm", "begin", "check"}
  BY DEF IInv, Progress
<1> QED BY <1>1, <1>3, <1>4, <1>5, Counts DEF IInv

LEMMA StepExecuteClient ==
  ASSUME IInv, TypeOK', Execute("client"), UNCHANGED <<clientVars, serverVars>>
  PROVE  IInv'
<1> DEFINE w == Head(sq["client"])
           m == [op |-> w.op, data |-> mem["client"][w.mr], len |-> w.len, imm |-> w.imm]
<1>1. /\ sq["client"] \in Seq(WorkRequest) /\ sq["client"] # <<>>
      /\ UNCHANGED <<rq, rcq, mem, pcC, canOpen, pos, doneC, pcS, imm, named, dst>>
  BY QueueTypes DEF Execute, Transmit, Outgoing, IInv, clientVars, serverVars
<1>2. QueuedC # 0 /\ QueuedC \in Nat
  BY <1>1, Counts DEF IInv
<1>3. /\ WireS \in Nat /\ ArrivedS \in Nat /\ ServerHolds \in {0, 1}
  BY Counts DEF IInv
<1>4. ToServer # 0
  BY <1>2, <1>3 DEF ToServer
<1>5. QueuedC = 1 /\ WireS = 0 /\ ArrivedS = 0 /\ ServerHolds = 0
  <2>1. ToServer = 1
    BY <1>4, OneMessage
  <2> QED BY <1>2, <1>3, <2>1 DEF ToServer
<1>6. wire["server"] = <<>> /\ rcq["server"] = <<>>
  BY <1>5, Counts DEF IInv
<1>7. /\ sq'["client"] = Tail(sq["client"]) /\ sq'["server"] = sq["server"]
      /\ wire'["server"] = Append(wire["server"], m) /\ wire'["client"] = wire["client"]
  BY Constants, QueueTypes DEF Execute, Transmit, Outgoing, IInv
<1>8. wire'["server"] = <<m>>
  BY <1>6, <1>7, AppendToEmpty
<1>9. Len(sq'["client"]) = 0
  BY <1>1, <1>5, <1>7, TailFacts DEF QueuedC
<1>10. /\ QueuedC' = 0 /\ WireS' = 1 /\ ArrivedS' = 0 /\ ServerHolds' = 0
       /\ QueuedS' = 0 /\ WireC' = 0 /\ ArrivedC' = 0 /\ ClientHolds' = 0
  <2>1. QueuedC' = 0 /\ WireS' = 1
    BY <1>8, <1>9 DEF QueuedC, WireS
  <2>2. ArrivedS' = 0 /\ ServerHolds' = 0
    BY <1>1, <1>5 DEF ArrivedS, ServerHolds
  <2>3. QueuedS' = 0 /\ WireC' = 0 /\ ArrivedC' = 0 /\ ClientHolds' = 0
    BY <1>1, <1>4, <1>7, OneMessage DEF QueuedS, WireC, ArrivedC, ClientHolds
  <2> QED BY <2>1, <2>2, <2>3
<1>11. ToServer' = 1 /\ ToClient' = 0
  BY <1>10 DEF ToServer, ToClient
<1>12. Progress'
  BY <1>1, <1>4, OneMessage DEF Progress, IInv, Finishing
<1>13. Token'
  BY <1>1, <1>4, <1>11, OneMessage DEF Token, Finishing
<1>14. Regions'
  BY <1>1 DEF Regions, IInv
<1>15. ClientMessages'
  <2>1. /\ w = sq["client"][1] /\ 1 \in 1..Len(sq["client"]) /\ w \in WorkRequest
    BY <1>1, TailFacts
  <2>2. /\ w.len = 1 \/ (w.imm = 0 /\ w.op = "WRITE_IMM")
        /\ ClientSent(w.op = "WRITE_IMM", w.imm, mem["client"][w.mr])
    BY <2>1 DEF IInv, ClientMessages
  <2>4. m.len = 1 \/ (m.imm = 0 /\ m.op = "WRITE_IMM")
    BY <2>2
  <2>5. ClientSent(m.op = "WRITE_IMM", m.imm, m.data)
    BY <2>2
  <2> HIDE DEF m
  <2>6. \A i \in 1..Len(wire'["server"]) : wire'["server"][i] = m
    BY <1>8
  <2>7. (\A i \in 1..Len(wire["server"]) : LET v == wire["server"][i] IN
           /\ v.len = 1 \/ (v.imm = 0 /\ v.op = "WRITE_IMM")
           /\ ClientSent(v.op = "WRITE_IMM", v.imm, v.data))'
    BY <1>1, <2>4, <2>5, <2>6 DEF ClientSent
  <2>8. /\ \A i \in 1..Len(sq'["client"]) : FALSE
        /\ \A i \in 1..Len(rcq'["server"]) : FALSE
    BY <1>1, <1>6, <1>9
  <2>9. pcS' \notin {"imm", "msg", "save"}
    BY <1>10 DEF ServerHolds
  <2> QED BY <2>7, <2>8, <2>9 DEF ClientMessages, ClientSent
<1>16. ServerMessages'
  <2>1. /\ sq'["server"] = <<>> /\ wire'["client"] = <<>> /\ rcq'["client"] = <<>>
    BY <1>1, <1>4, <1>7, OneMessage
  <2>2. /\ \A i \in 1..Len(sq'["server"]) : FALSE
        /\ \A i \in 1..Len(wire'["client"]) : FALSE
    BY <2>1
  <2> QED BY <1>10, <2>1, <2>2 DEF ServerMessages
<1> QED BY <1>12, <1>13, <1>14, <1>15, <1>16 DEF IInv

LEMMA StepExecuteServer ==
  ASSUME IInv, TypeOK', Execute("server"), UNCHANGED <<clientVars, serverVars>>
  PROVE  IInv'
<1> DEFINE w == Head(sq["server"])
           m == [op |-> w.op, data |-> mem["server"][w.mr], len |-> w.len, imm |-> w.imm]
<1>1. /\ sq["server"] \in Seq(WorkRequest) /\ sq["server"] # <<>>
      /\ UNCHANGED <<rq, rcq, mem, pcC, canOpen, pos, doneC, pcS, imm, named, dst>>
  BY QueueTypes DEF Execute, Transmit, Outgoing, IInv, clientVars, serverVars
<1>2. /\ sq'["server"] = Tail(sq["server"]) /\ sq'["client"] = sq["client"]
      /\ wire'["client"] = Append(wire["client"], m) /\ wire'["server"] = wire["server"]
  BY Constants, QueueTypes DEF Execute, Transmit, Outgoing, IInv
<1>3. /\ m.op = "SEND" /\ m.len = 1 /\ ServerSent(m.data)
  <2>1. w = sq["server"][1] /\ 1 \in 1..Len(sq["server"])
    BY <1>1, TailFacts
  <2>2. w.op = "SEND" /\ w.mr = "msg_mr" /\ w.len = 1
    BY <2>1 DEF IInv, ServerMessages
  <2>3. ServerSent(mem["server"]["msg_mr"])
    BY <1>1 DEF IInv, ServerMessages
  <2> QED BY <2>2, <2>3
<1> HIDE DEF w, m
<1>4. QueuedS' = QueuedS - 1 /\ WireC' = WireC + 1
  <2>1. QueuedS' = QueuedS - 1
    BY <1>1, <1>2, TailFacts DEF QueuedS
  <2>2. wire["client"] \in Seq(Message)
    BY QueueTypes DEF IInv
  <2> QED BY <1>2, <2>1, <2>2 DEF WireC
<1>5. /\ QueuedC' = QueuedC /\ WireS' = WireS /\ ArrivedS' = ArrivedS
      /\ ArrivedC' = ArrivedC /\ ServerHolds' = ServerHolds
      /\ ClientHolds' = ClientHolds /\ Finishing' = Finishing
  BY <1>1, <1>2 DEF QueuedC, WireS, ArrivedC, ArrivedS, ServerHolds, ClientHolds, Finishing
<1>6. ToServer' = ToServer /\ ToClient' = ToClient
  <2>1. QueuedS \in Nat /\ WireC \in Nat /\ ArrivedC \in Nat /\ ClientHolds \in {0, 1}
    BY Counts DEF IInv
  <2>2. ToServer' = ToServer
    BY <1>5 DEF ToServer
  <2> QED BY <1>4, <1>5, <2>1, <2>2 DEF ToClient
<1>7. Progress'
  BY <1>1, <1>5, <1>6 DEF Progress, IInv
<1>8. Token'
  BY <1>5, <1>6 DEF Token, IInv
<1>9. Regions'
  BY <1>1 DEF Regions, IInv
<1>10. ClientMessages'
  BY <1>1, <1>2 DEF ClientMessages, ClientSent, IInv
<1>11. ServerMessages'
  <2>1. \A i \in 1..Len(sq'["server"]) :
           /\ sq'["server"][i].op = "SEND" /\ sq'["server"][i].mr = "msg_mr"
           /\ sq'["server"][i].len = 1
    BY <1>1, <1>2, TailFacts DEF IInv, ServerMessages
  <2>2. \A i \in 1..Len(wire'["client"]) :
           wire'["client"][i] = m \/ (i \in 1..Len(wire["client"]) /\ wire'["client"][i] = wire["client"][i])
    <3>1. wire["client"] \in Seq(Message)
      BY QueueTypes DEF IInv
    <3> QED BY <1>2, <3>1
  <2>3. \A i \in 1..Len(wire'["client"]) :
           /\ wire'["client"][i].op = "SEND" /\ wire'["client"][i].len = 1
           /\ ServerSent(wire'["client"][i].data)
    BY <1>3, <2>2 DEF IInv, ServerMessages
  <2>4. mem["server"]["msg_mr"] = mem'["server"]["msg_mr"] /\ ServerSent(mem["server"]["msg_mr"])
    BY <1>1 DEF IInv, ServerMessages
  <2>5. rcq'["client"] # <<>> \/ ClientHolds' = 1 => ServerSent(mem["client"]["recv_mr"])
    BY <1>1, <1>5 DEF IInv, ServerMessages
  <2> QED BY <1>1, <1>5, <2>1, <2>3, <2>4, <2>5 DEF ServerMessages, ServerSent
<1> QED BY <1>7, <1>8, <1>9, <1>10, <1>11 DEF IInv

\* A SEND fills the region that its receive names, a chunk file_mr, and no other.
LEMMA DeliverFills ==
  ASSUME TypeOK, NEW n \in Node, Deliver(n), NEW r \in Region,
         r = (IF Arriving(n).op = "SEND" THEN Head(rq[n]) ELSE "file_mr")
  PROVE  /\ \A x \in Region \ {r} : mem'[n][x] = mem[n][x]
         /\ Arriving(n).len = 0 => mem'[n] = mem[n]
         /\ Arriving(n).len # 0 => mem'[n][r] = Arriving(n).data
         /\ \A k \in Node \ {n} : mem'[k] = mem[k]
<1> DEFINE h == mem[n]
           d == Arriving(n).data
           z == Arriving(n).len
<1>1. h \in [Part -> Payload]
  BY DEF TypeOK, VerbsTypeOK
<1>2. mem'[n] = IF z = 0 THEN h ELSE Holding(h, r, d)
  <2>1. LET x == IF Arriving(n).op = "SEND" THEN Head(rq[n]) ELSE "file_mr" IN
          mem'[n] = IF z = 0 THEN h ELSE Holding(h, x, d)
    BY DeliverHeld DEF TypeOK
  <2> HIDE DEF h, d, z
  <2> QED BY <2>1
<1>3. \A k \in Node \ {n} : mem'[k] = mem[k]
  BY DeliverEffect DEF TypeOK
<1> HIDE DEF h, d, z
<1>4. \A x \in Region \ {r} : Holding(h, r, d)[x] = h[x]
  BY ONLY <1>1, r \in Region, HoldingFacts
<1>5. Holding(h, r, d)[r] = d
  BY <1>1, HoldingFacts
<1>6. /\ \A x \in Region \ {r} : mem'[n][x] = h[x]
      /\ z = 0 => mem'[n] = h
      /\ z # 0 => mem'[n][r] = d
  BY <1>2, <1>4, <1>5
<1> QED BY <1>3, <1>6 DEF h, d, z

LEMMA StepDeliverServer ==
  ASSUME IInv, TypeOK', Deliver("server"), UNCHANGED <<clientVars, serverVars>>
  PROVE  IInv'
<1> DEFINE m == Head(wire["server"])
           c == [op |-> IF m.op = "SEND" THEN "RECV" ELSE "RECV_IMM", imm |-> m.imm]
<1>1. /\ wire["server"] \in Seq(Message) /\ wire["server"] # <<>>
      /\ rq["server"] \in Seq(Region) /\ rq["server"] # <<>>
      /\ UNCHANGED <<sq, pcC, canOpen, pos, doneC, pcS, imm, named, dst>>
  BY QueueTypes DEF Deliver, IInv, clientVars, serverVars
<1>2. WireS # 0 /\ WireS \in Nat
  BY <1>1, Counts DEF IInv
<1>3. /\ QueuedC \in Nat /\ ArrivedS \in Nat /\ ServerHolds \in {0, 1}
  BY Counts DEF IInv
<1>4. ToServer # 0
  BY <1>2, <1>3 DEF ToServer
<1>5. QueuedC = 0 /\ WireS = 1 /\ ArrivedS = 0 /\ ServerHolds = 0
  <2>1. ToServer = 1
    BY <1>4, OneMessage
  <2> QED BY <1>2, <1>3, <2>1 DEF ToServer
<1>6. sq["client"] = <<>> /\ rcq["server"] = <<>>
  BY <1>5, Counts DEF IInv
<1>7. /\ m = wire["server"][1] /\ m \in Message
      /\ m.len = 1 \/ (m.imm = 0 /\ m.op = "WRITE_IMM")
      /\ ClientSent(m.op = "WRITE_IMM", m.imm, m.data)
  <2>1. m = wire["server"][1] /\ m \in Message /\ 1 \in 1..Len(wire["server"])
    BY <1>1, TailFacts
  <2> QED BY <2>1 DEF IInv, ClientMessages
<1>8. Head(rq["server"]) = "file_mr"
  BY <1>1, TailFacts DEF IInv, Regions
<1>9. /\ wire'["server"] = Tail(wire["server"]) /\ wire'["client"] = wire["client"]
      /\ rcq'["server"] = Append(rcq["server"], c) /\ rcq'["client"] = rcq["client"]
      /\ rq'["server"] = Tail(rq["server"]) /\ rq'["client"] = rq["client"]
  BY Constants, QueueTypes DEF Deliver, IInv
<1>10. rcq'["server"] = <<c>>
  BY <1>6, <1>9, AppendToEmpty
<1>11. "file_mr" = (IF Arriving("server").op = "SEND" THEN Head(rq["server"]) ELSE "file_mr")
  BY <1>8
<1>12. /\ mem'["client"] = mem["client"]
       /\ mem'["server"]["msg_mr"] = mem["server"]["msg_mr"]
       /\ m.len = 1 => mem'["server"]["file_mr"] = m.data
  BY <1>11, DeliverFills, Constants DEF IInv, Region, Arriving
<1>13. ClientSent(m.op = "WRITE_IMM", m.imm, mem'["server"]["file_mr"])
  <2>1. CASE m.len = 1
    BY <1>7, <1>12, <2>1
  <2>2. CASE m.imm = 0 /\ m.op = "WRITE_IMM"
    BY <1>7, <2>2 DEF ClientSent
  <2> QED BY <1>7, <2>1, <2>2
<1>14. Len(wire'["server"]) = 0
  BY <1>1, <1>5, <1>9, TailFacts DEF WireS
<1>15. /\ QueuedC' = 0 /\ WireS' = 0 /\ ArrivedS' = 1 /\ ServerHolds' = 0
       /\ QueuedS' = 0 /\ WireC' = 0 /\ ArrivedC' = 0 /\ ClientHolds' = 0
  <2>1. QueuedC' = 0 /\ WireS' = 0
    BY <1>1, <1>5, <1>14 DEF QueuedC, WireS
  <2>2. ArrivedS' = 1 /\ ServerHolds' = 0
    BY <1>1, <1>5, <1>10 DEF ArrivedS, ServerHolds
  <2>3. QueuedS' = 0 /\ WireC' = 0 /\ ArrivedC' = 0 /\ ClientHolds' = 0
    BY <1>1, <1>4, <1>9, OneMessage DEF QueuedS, WireC, ArrivedC, ClientHolds
  <2> QED BY <2>1, <2>2, <2>3
<1>16. ToServer' = 1 /\ ToClient' = 0
  BY <1>15 DEF ToServer, ToClient
<1>17. Progress'
  BY <1>1, <1>4, OneMessage DEF Progress, IInv, Finishing
<1>18. Token'
  BY <1>1, <1>4, <1>16, OneMessage DEF Token, Finishing
<1>19. Regions'
  BY <1>1, <1>9, TailFacts DEF Regions, IInv
<1>20. ClientMessages'
  <2>1. c.imm = m.imm /\ (c.op = "RECV_IMM") = (m.op = "WRITE_IMM")
    BY <1>7 DEF Message
  <2> HIDE DEF c
  <2>2. \A i \in 1..Len(rcq'["server"]) : rcq'["server"][i] = c
    BY <1>10
  <2>3. ClientSent(c.op = "RECV_IMM", c.imm, mem'["server"]["file_mr"])
    BY <1>13, <2>1
  <2>4. (\A i \in 1..Len(rcq["server"]) : LET v == rcq["server"][i] IN
           ClientSent(v.op = "RECV_IMM", v.imm, mem["server"]["file_mr"]))'
    BY <1>1, <2>2, <2>3 DEF ClientSent
  <2>5. /\ \A i \in 1..Len(sq'["client"]) : FALSE
        /\ \A i \in 1..Len(wire'["server"]) : FALSE
    BY <1>1, <1>6, <1>14
  <2>6. pcS' \notin {"imm", "msg", "save"}
    BY <1>15 DEF ServerHolds
  <2> QED BY <2>4, <2>5, <2>6 DEF ClientMessages, ClientSent
<1>21. ServerMessages'
  <2>1. /\ sq'["server"] = <<>> /\ wire'["client"] = <<>> /\ rcq'["client"] = <<>>
    BY <1>1, <1>4, <1>9, OneMessage
  <2>2. /\ \A i \in 1..Len(sq'["server"]) : FALSE
        /\ \A i \in 1..Len(wire'["client"]) : FALSE
    BY <2>1
  <2> QED BY <1>15, <2>1, <2>2 DEF ServerMessages
<1> QED BY <1>17, <1>18, <1>19, <1>20, <1>21 DEF IInv

LEMMA StepDeliverClient ==
  ASSUME IInv, TypeOK', Deliver("client"), UNCHANGED <<clientVars, serverVars>>
  PROVE  IInv'
<1> DEFINE m == Head(wire["client"])
           c == [op |-> IF m.op = "SEND" THEN "RECV" ELSE "RECV_IMM", imm |-> m.imm]
<1>1. /\ wire["client"] \in Seq(Message) /\ wire["client"] # <<>>
      /\ rq["client"] \in Seq(Region) /\ rq["client"] # <<>>
      /\ rcq["client"] \in Seq(Completion)
      /\ UNCHANGED <<sq, pcC, canOpen, pos, doneC, pcS, imm, named, dst>>
  BY QueueTypes DEF Deliver, IInv, clientVars, serverVars
<1>2. m.op = "SEND" /\ m.len = 1 /\ ServerSent(m.data)
  <2>1. m = wire["client"][1] /\ 1 \in 1..Len(wire["client"])
    BY <1>1, TailFacts
  <2> QED BY <2>1 DEF IInv, ServerMessages
<1>3. Head(rq["client"]) = "recv_mr"
  BY <1>1, TailFacts DEF IInv, Regions
<1>4. /\ wire'["client"] = Tail(wire["client"]) /\ wire'["server"] = wire["server"]
      /\ rcq'["client"] = Append(rcq["client"], c) /\ rcq'["server"] = rcq["server"]
      /\ rq'["client"] = Tail(rq["client"]) /\ rq'["server"] = rq["server"]
  BY Constants, QueueTypes DEF Deliver, IInv
<1>5. "recv_mr" = (IF Arriving("client").op = "SEND" THEN Head(rq["client"]) ELSE "file_mr")
  BY <1>2, <1>3 DEF Arriving
<1>6. /\ mem'["server"] = mem["server"]
      /\ mem'["client"]["recv_mr"] = m.data
  BY <1>2, <1>5, DeliverFills, Constants DEF IInv, Region, Arriving
<1>7. WireC' = WireC - 1 /\ ArrivedC' = ArrivedC + 1
  <2>1. WireC' = WireC - 1
    BY <1>1, <1>4, TailFacts DEF WireC
  <2>2. c \in Completion
    <3>1. m \in Message
      BY <1>1, TailFacts
    <3> QED BY <3>1 DEF Completion, Message
  <2> HIDE DEF c
  <2>3. ArrivedC' = ArrivedC + 1
    BY <1>1, <1>4, <2>2 DEF ArrivedC
  <2> QED BY <2>1, <2>3
<1> HIDE DEF c, m
<1>8. /\ QueuedC' = QueuedC /\ WireS' = WireS /\ ArrivedS' = ArrivedS
      /\ QueuedS' = QueuedS /\ ServerHolds' = ServerHolds
      /\ ClientHolds' = ClientHolds /\ Finishing' = Finishing
  BY <1>1, <1>4 DEF QueuedC, WireS, QueuedS, ArrivedS, ServerHolds, ClientHolds, Finishing
<1>9. ToServer' = ToServer /\ ToClient' = ToClient
  <2>1. QueuedS \in Nat /\ WireC \in Nat /\ ArrivedC \in Nat /\ ClientHolds \in {0, 1}
    BY Counts DEF IInv
  <2>2. ToServer' = ToServer
    BY <1>8 DEF ToServer
  <2> QED BY <1>7, <1>8, <2>1, <2>2 DEF ToClient
<1>10. Progress'
  BY <1>1, <1>8, <1>9 DEF Progress, IInv
<1>11. Token'
  BY <1>8, <1>9 DEF Token, IInv
<1>12. Regions'
  BY <1>1, <1>4, TailFacts DEF Regions, IInv
<1>13. ClientMessages'
  <2>1. ToServer = 0
    BY <1>1, OneMessage
  <2>2. QueuedC \in Nat /\ WireS \in Nat /\ ArrivedS \in Nat /\ ServerHolds \in {0, 1}
    BY Counts DEF IInv
  <2>3. QueuedC = 0
    BY <2>1, <2>2 DEF ToServer
  <2>4. Len(sq'["client"]) = 0
    BY <1>1, <2>3 DEF QueuedC
  <2>5. \A i \in 1..Len(sq'["client"]) : FALSE
    BY <2>4
  <2> QED BY <1>1, <1>4, <1>6, <2>5 DEF ClientMessages, ClientSent, IInv
<1>14. ServerMessages'
  <2>1. \A i \in 1..Len(wire'["client"]) :
           /\ wire'["client"][i].op = "SEND" /\ wire'["client"][i].len = 1
           /\ ServerSent(wire'["client"][i].data)
    BY <1>1, <1>4, TailFacts DEF IInv, ServerMessages
  <2> QED BY <1>1, <1>2, <1>6, <1>8, <2>1 DEF ServerMessages, ServerSent, IInv
<1> QED BY <1>10, <1>11, <1>12, <1>13, <1>14 DEF IInv

LEMMA StepDiscardServer ==
  ASSUME IInv, TypeOK', Discard("server"), UNCHANGED <<clientVars, serverVars>>
  PROVE  IInv'
<1>1. /\ wire["server"] \in Seq(Message) /\ wire["server"] # <<>>
      /\ UNCHANGED <<sq, rq, rcq, pcC, canOpen, pos, doneC, pcS, imm, named, dst>>
  BY QueueTypes DEF Discard, IInv, clientVars, serverVars
<1>2. WireS # 0 /\ WireS \in Nat
  BY <1>1, Counts DEF IInv
<1>3. /\ QueuedC \in Nat /\ ArrivedS \in Nat /\ ServerHolds \in {0, 1}
  BY Counts DEF IInv
<1>4. ToServer # 0
  BY <1>2, <1>3 DEF ToServer
<1>5. QueuedC = 0 /\ WireS = 1 /\ ArrivedS = 0 /\ ServerHolds = 0
  <2>1. ToServer = 1
    BY <1>4, OneMessage
  <2> QED BY <1>2, <1>3, <2>1 DEF ToServer
<1>6. sq["client"] = <<>> /\ rcq["server"] = <<>>
  BY <1>5, Counts DEF IInv
<1>7. wire'["server"] = Tail(wire["server"]) /\ wire'["client"] = wire["client"]
  BY Constants, QueueTypes DEF Discard, IInv
<1>8. Len(wire'["server"]) = 0
  BY <1>1, <1>5, <1>7, TailFacts DEF WireS
<1>9. /\ QueuedC' = 0 /\ WireS' = 0 /\ ArrivedS' = 0 /\ ServerHolds' = 0
      /\ QueuedS' = 0 /\ WireC' = 0 /\ ArrivedC' = 0 /\ ClientHolds' = 0
  <2>1. QueuedC' = 0 /\ WireS' = 0 /\ ArrivedS' = 0 /\ ServerHolds' = 0
    BY <1>1, <1>5, <1>8 DEF QueuedC, WireS, ArrivedS, ServerHolds
  <2>2. QueuedS' = 0 /\ WireC' = 0 /\ ArrivedC' = 0 /\ ClientHolds' = 0
    BY <1>1, <1>4, <1>7, OneMessage DEF QueuedS, WireC, ArrivedC, ClientHolds
  <2> QED BY <2>1, <2>2
<1>10. ToServer' = 0 /\ ToClient' = 0
  BY <1>9 DEF ToServer, ToClient
<1>11. Progress'
  BY <1>1, <1>4, OneMessage DEF Progress, IInv, Finishing
<1>12. Token'
  BY <1>10 DEF Token
<1>13. Regions'
  BY <1>1 DEF Regions, IInv
<1>14. ClientMessages'
  <2>1. /\ \A i \in 1..Len(sq'["client"]) : FALSE
        /\ \A i \in 1..Len(wire'["server"]) : FALSE
        /\ \A i \in 1..Len(rcq'["server"]) : FALSE
    BY <1>1, <1>6, <1>8
  <2>2. pcS' \notin {"imm", "msg", "save"}
    BY <1>9 DEF ServerHolds
  <2> QED BY <2>1, <2>2 DEF ClientMessages, ClientSent
<1>15. ServerMessages'
  <2>1. /\ sq'["server"] = <<>> /\ wire'["client"] = <<>> /\ rcq'["client"] = <<>>
    BY <1>1, <1>4, <1>7, OneMessage
  <2>2. /\ \A i \in 1..Len(sq'["server"]) : FALSE
        /\ \A i \in 1..Len(wire'["client"]) : FALSE
    BY <2>1
  <2> QED BY <1>9, <2>1, <2>2 DEF ServerMessages
<1> QED BY <1>11, <1>12, <1>13, <1>14, <1>15 DEF IInv

LEMMA StepDiscardClient ==
  ASSUME IInv, TypeOK', Discard("client"), UNCHANGED <<clientVars, serverVars>>
  PROVE  IInv'
<1>1. /\ wire["client"] \in Seq(Message) /\ wire["client"] # <<>>
      /\ UNCHANGED <<sq, rq, rcq, pcC, canOpen, pos, doneC, pcS, imm, named, dst>>
  BY QueueTypes DEF Discard, IInv, clientVars, serverVars
<1>2. Head(wire["client"]).op = "SEND"
  BY <1>1, TailFacts DEF IInv, ServerMessages
<1>3. mem' = mem
  BY <1>2 DEF Discard
<1>4. wire'["client"] = Tail(wire["client"]) /\ wire'["server"] = wire["server"]
  BY Constants, QueueTypes DEF Discard, IInv
<1>5. /\ QueuedC' = QueuedC /\ WireS' = WireS /\ ArrivedS' = ArrivedS
      /\ QueuedS' = QueuedS /\ ArrivedC' = ArrivedC /\ ServerHolds' = ServerHolds
      /\ ClientHolds' = ClientHolds /\ Finishing' = Finishing
  BY <1>1, <1>4 DEF QueuedC, WireS, QueuedS, ArrivedS, ArrivedC, ServerHolds, ClientHolds, Finishing
<1>6. WireC' = WireC - 1
  BY <1>1, <1>4, TailFacts DEF WireC
<1>7. QueuedS \in Nat /\ WireC \in Nat /\ WireC # 0 /\ ArrivedC \in Nat /\ ClientHolds \in {0, 1}
  BY <1>1, Counts DEF IInv
<1>8. ToServer' = ToServer
  BY <1>5 DEF ToServer
<1>9. ToClient' = ToClient - 1 /\ ToClient # 0 /\ ToClient \in Nat /\ ToServer \in Nat
  <2>1. ToServer \in Nat
    BY Counts DEF IInv
  <2> QED BY <1>5, <1>6, <1>7, <2>1 DEF ToClient
<1>10. Progress'
  BY <1>1, <1>5, <1>8, <1>9 DEF Progress, IInv
<1>11. Token'
  <2>1. CASE Finishing
    BY <1>5, <1>8, <2>1 DEF Token, IInv
  <2>2. CASE ~ Finishing
    <3>1. ToServer + ToClient <= 1
      BY <2>2 DEF Token, IInv
    <3>2. ToServer' + ToClient' <= 1
      BY <1>8, <1>9, <3>1
    <3> QED BY <1>5, <2>2, <3>2 DEF Token
  <2> QED BY <2>1, <2>2
<1>12. Regions'
  BY <1>1 DEF Regions, IInv
<1>13. ClientMessages'
  BY <1>1, <1>3, <1>4 DEF ClientMessages, ClientSent, IInv
<1>14. ServerMessages'
  <2>1. \A i \in 1..Len(wire'["client"]) :
           /\ wire'["client"][i].op = "SEND" /\ wire'["client"][i].len = 1
           /\ ServerSent(wire'["client"][i].data)
    BY <1>1, <1>4, TailFacts DEF IInv, ServerMessages
  <2> QED BY <1>1, <1>3, <1>5, <2>1 DEF ServerMessages, ServerSent, IInv
<1> QED BY <1>10, <1>11, <1>12, <1>13, <1>14 DEF IInv

LEMMA StepNic ==
  ASSUME IInv, TypeOK', NEW n \in Node, Nic(NicStep(n))
  PROVE  IInv'
<1>1. n = "client" \/ n = "server"
  BY Constants
<1>2. UNCHANGED <<clientVars, serverVars>>
  BY DEF Nic
<1>3. CASE Execute(n)
  BY <1>1, <1>2, <1>3, StepExecuteClient, StepExecuteServer
<1>4. CASE Deliver(n)
  BY <1>1, <1>2, <1>4, StepDeliverClient, StepDeliverServer
<1>5. CASE Drop(n) \/ Lose(n)
  BY <1>1, <1>2, <1>5, StepDiscardClient, StepDiscardServer DEF Drop, Lose
<1> QED BY <1>3, <1>4, <1>5 DEF Nic, NicStep

LEMMA IInvInit == ASSUME Init PROVE IInv
<1>1. TypeOK
  BY TypeInit
<1>2. /\ sq["client"] = <<>> /\ wire["server"] = <<>> /\ rcq["server"] = <<>>
      /\ sq["server"] = <<>> /\ wire["client"] = <<>> /\ rcq["client"] = <<>>
      /\ rq["client"] = <<"recv_mr">> /\ rq["server"] = <<>>
      /\ pcC = "arm" /\ pos = 0 /\ doneC = FALSE
      /\ pcS = "start" /\ named = FALSE /\ dst = <<>>
  BY Constants DEF Init, VerbsInit
<1>3. ToServer = 0 /\ ToClient = 0
  <2>1. /\ QueuedC = 0 /\ WireS = 0 /\ ArrivedS = 0 /\ ServerHolds = 0
        /\ QueuedS = 0 /\ WireC = 0 /\ ArrivedC = 0 /\ ClientHolds = 0
    BY <1>2 DEF QueuedC, WireS, ArrivedS, ServerHolds, QueuedS, WireC, ArrivedC, ClientHolds
  <2> QED BY <2>1 DEF ToServer, ToClient
<1>4. Progress
  BY <1>2, <1>3 DEF Progress, Finishing
<1>5. Token
  BY <1>2, <1>3 DEF Token, Finishing
<1>6. Regions
  BY <1>2 DEF Regions
<1>7. ClientMessages /\ ServerMessages
  BY <1>2 DEF ClientMessages, ServerMessages, ClientSent, ClientHolds
<1> QED BY <1>1, <1>4, <1>5, <1>6, <1>7 DEF IInv

LEMMA IInvStep ==
  ASSUME IInv, [Next]_vars
  PROVE  IInv'
<1>0. TypeOK'
  BY TypeStep DEF IInv
<1>1. CASE ClientNext
  BY <1>0, <1>1, StepArm, StepPollBegin, StepWriteName, StepGiveUp, StepPrepost,
     StepClientPoll, StepSendChunk, StepOther, StepClientClose DEF ClientNext
<1>2. CASE ServerNext
  BY <1>0, <1>2, StepStart, StepServerPoll, StepMessage, StepEnd, StepCreate, StepRepost,
     StepSave, StepFinish, StepDrain, StepServerClose DEF ServerNext
<1>3. ASSUME NEW n \in Node, Nic(NicStep(n)) PROVE IInv'
  BY <1>0, <1>3, StepNic
<1>4. CASE UNCHANGED vars
  <2>1. Regions' /\ ClientHolds' = ClientHolds
    BY <1>4 DEF vars, verbsVars, clientVars, Regions, IInv, ClientHolds
  <2>2. /\ UNCHANGED <<sq, wire, rcq, mem, pos, named, dst, doneC>>
        /\ pcS' = pcS /\ imm' = imm /\ pcC' = pcC
    BY <1>4 DEF vars, verbsVars, clientVars, serverVars
  <2> QED BY <1>0, <2>1, <2>2, Silent
<1> QED BY <1>1, <1>2, <1>3, <1>4 DEF Next

\* IInv is inductive, so every state of the push satisfies it.
THEOREM Invariance == Spec => []IInv
<1>1. Init => IInv
  BY IInvInit
<1>2. IInv /\ [Next]_vars => IInv'
  BY IInvStep
<1> QED BY <1>1, <1>2, PTL DEF Spec

\* Whatever is lost, the saved file is a prefix of the client's file.
THEOREM SavedCorrect == Spec => []SavedIsPrefix
<1>1. IInv => SavedIsPrefix
  <2>1. ASSUME IInv PROVE dst = [i \in 1..Len(dst) |-> i]
    BY <2>1 DEF IInv, Progress, TypeOK
  <2>2. ASSUME IInv PROVE Len(dst) <= pos /\ (dst # <<>> => named)
    BY <2>2, Counts DEF IInv, Progress, TypeOK
  <2> QED BY <2>1, <2>2 DEF SavedIsPrefix
<1> QED BY <1>1, Invariance, PTL

-----------------------------------------------------------------------------
(* Action properties and the refinement. *)

LEMMA PostElsewhere ==
  ASSUME TypeOK
  PROVE  /\ \A r \in Region \ {"recv_mr"} : \A p, w :
              Post("client", r, p, w) => /\ mem'["server"] = mem["server"]
                                         /\ mem'["client"]["recv_mr"] = mem["client"]["recv_mr"]
         /\ \A p, w :
              Post("server", "msg_mr", p, w) =>
                /\ mem'["server"]["file_mr"] = mem["server"]["file_mr"]
                /\ mem'["client"] = mem["client"]
<1>1. "client" \in Node \ {"server"} /\ "server" \in Node \ {"client"}
  BY Constants
<1>2. /\ "recv_mr" \in Region /\ "msg_mr" \in Region
      /\ "file_mr" \in Region \ {"msg_mr"} /\ VerbsTypeOK
  BY DEF Region, TypeOK
<1> QED BY <1>1, <1>2, PostMem

LEMMA BufferStep ==
  ASSUME IInv, [Next]_vars
  PROVE  /\ pcS \in {"imm", "save", "msg"} =>
              mem'["server"]["file_mr"] = mem["server"]["file_mr"]
         /\ pcC \in {"check", "handle"} =>
              (mem'["client"]["recv_mr"] = mem["client"]["recv_mr"])
<1> DEFINE Held == /\ pcS \in {"imm", "save", "msg"} =>
                        mem'["server"]["file_mr"] = mem["server"]["file_mr"]
                   /\ pcC \in {"check", "handle"} =>
                        mem'["client"]["recv_mr"] = mem["client"]["recv_mr"]
<1>0. TypeOK /\ "file_mr" \in Region \ {"recv_mr"} /\ "msg_mr" \in Region \ {"recv_mr"}
  BY DEF IInv, Region
<1>1. CASE ClientNext
  <2>1. CASE ClientArm \/ ClientPollBegin \/ ClientPrepost \/ ClientPoll \/ ClientOther \/ ClientClose
    BY <2>1 DEF ClientArm, ClientPollBegin, ClientPrepost, ClientPoll, ClientOther, ClientClose,
                NoSend, PollSend, PollRecv, CloseNode
  <2>2. CASE ClientWriteName \/ ClientGiveUp \/ ClientSendChunk
    BY <1>0, <2>2, PostElsewhere DEF ClientWriteName, ClientGiveUp, ClientSendChunk, WriteNext,
                PostWrite, PostEmptyWrite, PostSend, NoSend
  <2> QED BY <1>1, <2>1, <2>2 DEF ClientNext
<1>2. CASE ServerNext
  <2>1. CASE ServerPoll \/ ServerMessage \/ ServerRepost \/ ServerDrain \/ ServerClose
    BY <2>1 DEF ServerPoll, ServerMessage, ServerRepost, ServerDrain, ServerClose,
                NoSend, PollAny, PollSend, PollRecv, CloseNode
  <2>2. CASE ServerStart \/ ServerEnd \/ ServerCreate \/ ServerSave \/ ServerFinish
    BY <1>0, <2>2, PostElsewhere DEF ServerStart, ServerEnd, ServerCreate, ServerSave,
                ServerFinish, PostSend, NoSend
  <2> QED BY <1>2, <2>1, <2>2 DEF ServerNext
<1>3. ASSUME NEW n \in Node, Nic(NicStep(n)) PROVE Held
  <2>1. CASE Execute(n)
    BY <2>1 DEF Execute, Transmit, Outgoing
  <2>2. ASSUME n = "server", Deliver(n) \/ Discard(n) PROVE Held
    <3>1. mem'["client"] = mem["client"]
      <4>1. DOMAIN mem = Node
        BY <1>0, QueueTypes
      <4> QED BY <2>2, <4>1, Constants DEF Deliver, Discard
    <3>2. ServerHolds = 0
      <4>1. wire["server"] # <<>>
        BY <2>2 DEF Deliver, Discard
      <4>2. WireS # 0
        BY <1>0, <4>1, Counts
      <4>3. /\ WireS \in Nat /\ QueuedC \in Nat /\ ArrivedS \in Nat /\ ServerHolds \in {0, 1}
        BY <1>0, Counts
      <4>4. ToServer # 0
        BY <4>2, <4>3 DEF ToServer
      <4>5. ToServer = 1
        BY <4>4, OneMessage
      <4> QED BY <4>2, <4>3, <4>5 DEF ToServer
    <3> QED BY <3>1, <3>2 DEF ServerHolds
  <2>3. ASSUME n = "client", Deliver(n) \/ Discard(n) PROVE Held
    <3>1. /\ wire["client"] \in Seq(Message) /\ wire["client"] # <<>>
          /\ DOMAIN mem = Node
      BY <1>0, <2>3, Constants, QueueTypes DEF Deliver, Discard
    <3>2. LET m == Head(wire["client"]) IN m.op = "SEND" /\ m.len = 1 /\ ServerSent(m.data)
      BY <3>1, TailFacts DEF IInv, ServerMessages
    <3>3. mem'["server"] = mem["server"]
      BY <2>3, <3>1, Constants DEF Deliver, Discard
    <3>4. ASSUME ClientHolds = 1
          PROVE  mem'["client"]["recv_mr"] = mem["client"]["recv_mr"]
      <4>1. Finishing
        BY <3>1, <3>4, Alone
      <4>2. mem["client"]["recv_mr"] = Text("done") /\ Head(wire["client"]).data = Text("done")
        BY <3>2, <3>4, <4>1 DEF IInv, ServerMessages, ServerSent
      <4>3. CASE Discard(n)
        BY <2>3, <3>2, <4>3 DEF Discard
      <4>4. CASE Deliver(n)
        <5> DEFINE r == IF Arriving("client").op = "SEND" THEN Head(rq["client"]) ELSE "file_mr"
        <5>1. r \in Region /\ Deliver("client") /\ "recv_mr" \in Region
          BY <1>0, <2>3, <4>4, DeliverHeld, Constants DEF TypeOK, Region
        <5>2. Arriving("client").data = mem["client"]["recv_mr"] /\ Arriving("client").len # 0
          BY <3>2, <4>2 DEF Arriving
        <5> HIDE DEF r
        <5>3. r = (IF Arriving("client").op = "SEND" THEN Head(rq["client"]) ELSE "file_mr")
          BY DEF r
        <5> QED BY <1>0, <5>1, <5>2, <5>3, Constants, DeliverFills DEF IInv
      <4> QED BY <2>3, <4>3, <4>4
    <3> QED BY <3>3, <3>4 DEF ClientHolds
  <2> QED BY <1>3, <2>1, <2>2, <2>3, Constants DEF Nic, NicStep, Drop, Lose
<1>4. CASE UNCHANGED vars
  BY <1>4 DEF vars, verbsVars
<1> QED BY <1>1, <1>2, <1>3, <1>4 DEF Next

\* No message lands in a region between its poll and the read of the region.
THEOREM BuffersCorrect == Spec => BufferStable
<1>1. IInv /\ [Next]_vars =>
        [/\ pcS \in {"imm", "save", "msg"} => mem'["server"]["file_mr"] = mem["server"]["file_mr"]
         /\ pcC \in {"check", "handle"} =>
              (mem'["client"]["recv_mr"] = mem["client"]["recv_mr"])]_vars
  BY BufferStep
<1> QED BY <1>1, Invariance, PTL DEF Spec, BufferStable

\* The blocks of the copy are the chunks of the file, by their numbers.
LEMMA WholeFile ==
  LET file == [i \in 1..NumChunks |-> i] IN
    Len(file) = NumChunks /\ \A i \in 1..NumChunks : file[i] = i
BY Constants

LEMMA TransferStep ==
  ASSUME IInv, [Next]_vars
  PROVE  [Transfer!Next]_(Transfer!vars)
<1>1. CASE ClientOther
  <2>1. dst' = dst /\ doneC' = (TextRead = Text("done")) /\ ClientHolds = 1
    BY <1>1 DEF ClientOther, serverVars, ClientHolds
  <2>2. CASE doneC'
    <3>1. Finishing
      BY <2>1, <2>2, TextsDiffer DEF IInv, ServerMessages, ServerSent, TextRead
    <3>2. Len(dst) = NumChunks
      BY <3>1, NothingToServer
    <3> QED BY <2>1, <2>2, <3>2, WholeFile DEF Transfer!Next, Transfer!Acknowledge
  <2>3. CASE ~ doneC'
    <3>1. ~ Finishing
      BY <2>1, <2>3 DEF IInv, ServerMessages, ServerSent, TextRead
    <3>2. doneC = FALSE /\ doneC' = FALSE
      BY <2>1, <2>3, <3>1 DEF IInv, Progress, TypeOK
    <3> QED BY <2>1, <3>2 DEF Transfer!vars
  <2> QED BY <2>2, <2>3
<1>2. CASE ServerSave
  <2>1. mem["server"]["file_mr"] = Chunk(pos) /\ pos = Len(dst) + 1
    BY <1>2 DEF ServerSave, IInv, ClientMessages
  <2>2. dst' = Append(dst, Len(dst) + 1) /\ doneC' = doneC
    BY <1>2, <2>1, PayloadFacts DEF ServerSave, clientVars, Chunk
  <2>3. Len(dst) < NumChunks
    BY <2>1, Constants, Counts DEF IInv, TypeOK
  <2>4. Len(dst) + 1 \in 1..NumChunks
    BY <2>1, <2>3, EmptyFacts, Constants DEF IInv, TypeOK
  <2> DEFINE file == [i \in 1..NumChunks |-> i]
  <2>5. file[Len(dst) + 1] = Len(dst) + 1 /\ Len(file) = NumChunks
    BY <2>4, WholeFile
  <2> HIDE DEF file
  <2>6. Len(dst) < Len(file) /\ dst' = Append(dst, file[Len(dst) + 1]) /\ doneC' = doneC
    BY <2>2, <2>3, <2>5
  <2>7. Transfer!Save
    BY <2>6 DEF Transfer!Save, file
  <2> QED BY <2>7 DEF Transfer!Next
<1>3. CASE ClientNext /\ ~ ClientOther
  BY <1>3 DEF ClientNext, ClientArm, ClientPollBegin, ClientWriteName, ClientGiveUp,
              ClientPrepost, ClientPoll, ClientSendChunk, ClientClose, serverVars,
              Transfer!vars
<1>4. CASE ServerNext /\ ~ ServerSave
  BY <1>4 DEF ServerNext, ServerStart, ServerPoll, ServerMessage, ServerEnd, ServerCreate,
              ServerRepost, ServerFinish, ServerDrain, ServerClose, clientVars,
              Transfer!vars
<1>5. ASSUME NEW n \in Node, Nic(NicStep(n)) PROVE UNCHANGED <<dst, doneC>>
  BY <1>5 DEF Nic, clientVars, serverVars
<1>6. CASE UNCHANGED vars
  BY <1>6 DEF vars, clientVars, serverVars, Transfer!vars
<1> QED BY <1>1, <1>2, <1>3, <1>4, <1>5, <1>6 DEF Next, Transfer!vars

\* The push, with any loss, implements the abstract transfer: the copy grows
\* by the next chunk only, and the client is done only once it is whole.
THEOREM Implements == Spec => TransferSpec
<1>1. Init => Transfer!Init
  BY Constants DEF Init, Transfer!Init
<1>2. IInv /\ [Next]_vars => [Transfer!Next]_(Transfer!vars)
  BY TransferStep
<1> QED BY <1>1, <1>2, Invariance, PTL DEF Spec, TransferSpec, Transfer!Spec

-----------------------------------------------------------------------------
(* The posted receives. *)

LEMMA Ends ==
  /\ "client" \in Node /\ "server" \in Node /\ Paired
  /\ "client" \in Node \ {"server"} /\ "server" \in Node \ {"client"}
  /\ \A n \in Node : n = "client" \/ n = "server"
  /\ Region = {"msg_mr", "recv_mr", "file_mr"}
BY Constants, VerbsAssumption DEF Paired, Region

\* A client that posts a send has nothing on its way to the server.
LEMMA ClientPostsAlone ==
  ASSUME IInv, ClientWriteName \/ ClientGiveUp \/ ClientSendChunk
  PROVE  /\ Idle("server") /\ ~ Finishing /\ ServerHolds = 0
         /\ sq["client"] = <<>>
<1>1. ClientHolds = 1 /\ ~ Finishing
  <2>1. CASE ClientWriteName \/ ClientGiveUp
    BY <2>1 DEF ClientWriteName, ClientGiveUp, IInv, Progress, Finishing, ClientHolds
  <2>2. CASE ClientSendChunk
    BY <2>2, TextsDiffer DEF ClientSendChunk, TextRead, IInv, ServerMessages, ServerSent, ClientHolds
  <2> QED BY <2>1, <2>2
<1>2. /\ sq["client"] = <<>> /\ wire["server"] = <<>> /\ rcq["server"] = <<>>
      /\ ServerHolds + ClientHolds = 1
  BY <1>1, Alone
<1>3. ServerHolds = 0
  BY <1>1, <1>2 DEF ServerHolds
<1> QED BY <1>1, <1>2, <1>3, Constants DEF Idle

LEMMA ClientReceivesStep ==
  ASSUME IInv, ClientReceives, [Next]_vars
  PROVE  ClientReceives'
<1>0. VerbsTypeOK
  BY DEF IInv, TypeOK
<1>1. CASE ClientNext
  <2>1. CASE ClientArm \/ ClientPrepost
    <3>1. PostRecv("client", "recv_mr") /\ rcq' = rcq /\ up' = up
      BY <2>1 DEF ClientArm, ClientPrepost, NoPoll
    <3>2. Receives("client")' = Receives("client") + 1
      BY <1>0, <3>1, Ends, PostCounts
    <3>3. Receives("client") = 1 /\ pcC' \in {"begin", "loop"}
      BY <2>1 DEF ClientArm, ClientPrepost, ClientReceives
    <3> QED BY <3>1, <3>2, <3>3 DEF ClientReceives
  <2>2. CASE PollRecv("client") /\ pcC \in {"begin", "loop"} /\ pcC' \in {"check", "handle"}
    <3>1. Receives("client")' = Receives("client") - 1
      BY <1>0, <2>2, Ends, PollCounts
    <3>2. Receives("client") = 2
      BY <2>2 DEF ClientReceives
    <3> QED BY <2>2, <3>1, <3>2 DEF ClientReceives
  <2>3. CASE PollSend("client") /\ pcC = "loop" /\ pcC' = "loop"
    BY <2>3 DEF PollSend, ClientReceives, Receives
  <2>4. CASE ClientWriteName \/ ClientGiveUp
    <3>1. UNCHANGED <<rq, rcq, up>> /\ pcC = "check" /\ doneC' = doneC /\ pcC' \in {"prepost", "close"}
      BY <2>4 DEF ClientWriteName, ClientGiveUp, NoRecv, NoPoll
    <3>2. doneC = FALSE
      BY <3>1 DEF IInv, Progress, TypeOK
    <3> QED BY <3>1, <3>2 DEF ClientReceives, Receives
  <2>5. CASE ClientSendChunk \/ ClientOther
    <3>1. /\ PostRecv("client", "recv_mr") /\ rcq' = rcq /\ pcC = "handle"
          /\ pcC' = "loop" \/ (pcC' = "close" /\ doneC')
      BY <2>5 DEF ClientSendChunk, ClientOther, NoPoll
    <3>2. Receives("client")' = Receives("client") + 1
      BY <1>0, <3>1, Ends, PostCounts
    <3>3. Receives("client") = 1
      BY <3>1 DEF ClientReceives
    <3> QED BY <3>1, <3>2, <3>3 DEF ClientReceives
  <2>6. CASE ClientClose
    BY <1>0, <2>6, Ends, CloseEffect DEF ClientClose, ClientReceives
  <2> QED BY <1>1, <2>1, <2>2, <2>3, <2>4, <2>5, <2>6
          DEF ClientNext, ClientPollBegin, ClientPoll
<1>2. CASE ServerNext
  <2>1. UNCHANGED <<pcC, doneC>>
    BY <1>2 DEF ServerNext, ServerStart, ServerPoll, ServerMessage, ServerEnd, ServerCreate,
       ServerRepost, ServerSave, ServerFinish, ServerDrain, ServerClose, clientVars
  <2>2. rq'["client"] = rq["client"] /\ rcq'["client"] = rcq["client"] /\ up'["client"] = up["client"]
    <3>1. CASE ServerStart \/ ServerCreate \/ ServerRepost
      BY <1>0, <3>1, Ends, PostRecvEffect DEF ServerStart, ServerCreate, ServerRepost, NoPoll
    <3>2. CASE PollSend("server") \/ PollRecv("server")
      BY <1>0, <3>2, Ends, PollSendEffect, PollRecvEffect
    <3>3. CASE ServerMessage \/ ServerEnd \/ ServerSave \/ ServerFinish
      BY <3>3 DEF ServerMessage, ServerEnd, ServerSave, ServerFinish, NoRecv, NoPoll
    <3>4. CASE ServerClose
      BY <1>0, <3>4, Ends, CloseEffect DEF ServerClose
    <3> QED BY <1>2, <3>1, <3>2, <3>3, <3>4 DEF ServerNext, ServerPoll, ServerDrain, PollAny
  <2> QED BY <2>1, <2>2 DEF ClientReceives, Receives
<1>3. ASSUME NEW k \in Node, Nic(NicStep(k)) PROVE ClientReceives'
  BY <1>0, <1>3, Ends, NicKeeps DEF Nic, clientVars, ClientReceives
<1>4. CASE UNCHANGED vars
  BY <1>4 DEF vars, verbsVars, clientVars, ClientReceives, Receives
<1> QED BY <1>1, <1>2, <1>3, <1>4 DEF Next

LEMMA ServerReceivesStep ==
  ASSUME IInv, ServerReceives, ErrorLast, [Next]_vars
  PROVE  ServerReceives'
<1>0. VerbsTypeOK
  BY DEF IInv, TypeOK
<1>1. CASE ClientNext
  <2>1. /\ UNCHANGED pcS
        /\ rq'["server"] = rq["server"] /\ rcq'["server"] = rcq["server"]
        /\ wire' = wire
    <3>1. CASE ClientArm \/ ClientPrepost \/ ClientSendChunk \/ ClientOther
      BY <1>0, <3>1, Ends, PostRecvEffect DEF ClientArm, ClientPrepost, ClientSendChunk,
         ClientOther, NoPoll, serverVars
    <3>2. CASE ClientPollBegin \/ ClientPoll
      BY <1>0, <3>2, Ends, PollSendEffect, PollRecvEffect DEF ClientPollBegin, ClientPoll, serverVars
    <3>3. CASE ClientWriteName \/ ClientGiveUp
      BY <3>3 DEF ClientWriteName, ClientGiveUp, NoRecv, NoPoll, serverVars
    <3>4. CASE ClientClose
      BY <1>0, <3>4, Ends, CloseEffect DEF ClientClose, serverVars
    <3> QED BY <1>1, <3>1, <3>2, <3>3, <3>4 DEF ClientNext
  <2>2. \/ pcC \notin {"close", "closed"}
        \/ sq'["client"] = <<>>
    BY <1>0, <1>1, Ends, CloseEffect DEF ClientNext, ClientArm, ClientPollBegin, ClientWriteName,
       ClientGiveUp, ClientPrepost, ClientPoll, ClientSendChunk, ClientOther, ClientClose
  <2>3. pcC' \notin {"close", "closed"} => pcC \notin {"close", "closed"}
    BY <1>1 DEF ClientNext, ClientArm, ClientPollBegin, ClientWriteName, ClientGiveUp,
       ClientPrepost, ClientPoll, ClientSendChunk, ClientOther, ClientClose
  <2> QED BY <2>1, <2>2, <2>3 DEF ServerReceives, Receives
<1>2. CASE ServerNext
  <2>1. CASE PollSend("server") /\ pcS' = pcS /\ pcC' = pcC
    BY <2>1 DEF PollSend, ServerReceives, Receives
  <2>2. ASSUME PollRecv("server") PROVE Receives("server") = 1 /\ Receives("server")' = 0
    <3>1. Receives("server") > 0 /\ Receives("server")' = Receives("server") - 1
      BY <1>0, <2>2, Ends, PollCounts
    <3> QED BY <3>1 DEF ServerReceives
  <2>3. ASSUME PostRecv("server", "file_mr"), rcq' = rcq
        PROVE  Receives("server")' = Receives("server") + 1
    BY <1>0, <2>3, Ends, PostCounts
  <2>4. CASE ServerStart \/ ServerCreate \/ ServerRepost
    <3>1. /\ PostRecv("server", "file_mr") /\ rcq' = rcq /\ pcS \in {"start", "imm"}
          /\ pcS' \in {"loop", "save"}
      BY <2>4 DEF ServerStart, ServerCreate, ServerRepost, NoPoll
    <3>2. Receives("server") = 0
      BY <3>1 DEF ServerReceives
    <3> QED BY <2>3, <3>1, <3>2 DEF ServerReceives
  <2>5. CASE PollRecv("server") /\ pcS' \in {"imm", "msg"}
    BY <2>2, <2>5 DEF ServerReceives
  <2>6. CASE ServerMessage
    <3>1. ServerHolds = 1 /\ pcC \in {"close", "closed"} /\ Receives("server") = 0
      BY <2>6 DEF ServerMessage, ServerHolds, ErrorLast, ServerReceives
    <3>2. sq["client"] = <<>> /\ wire["server"] = <<>>
      BY <3>1, ServerAlone, Counts DEF IInv
    <3>3. UNCHANGED <<sq, wire, rq, rcq, pcC>> /\ pcS' \in {"finish", "loop"}
      BY <2>6 DEF ServerMessage, NoRecv, NoSend, NoPoll, clientVars
    <3> QED BY <3>1, <3>2, <3>3 DEF ServerReceives, Receives
  <2>7. CASE ServerEnd \/ ServerFinish
    BY <2>7 DEF ServerEnd, ServerFinish, NoRecv, NoPoll, ServerReceives, Receives
  <2>8. CASE ServerSave
    BY <2>8 DEF ServerSave, NoRecv, NoPoll, ServerReceives, Receives
  <2>9. CASE ServerDrain
    <3>1. Receives("server") = 0 /\ pcS' = "handler"
      BY <2>9 DEF ServerDrain, ServerReceives
    <3>2. PollSend("server")
      BY <2>2, <2>9, <3>1 DEF ServerDrain, PollAny
    <3> QED BY <3>1, <3>2 DEF PollSend, ServerReceives, Receives
  <2>10. CASE ServerClose
    BY <1>0, <2>10, Ends, CloseEffect DEF ServerClose, ServerReceives
  <2> QED BY <1>2, <2>1, <2>4, <2>5, <2>6, <2>7, <2>8, <2>9, <2>10
          DEF ServerNext, ServerPoll, clientVars
<1>3. ASSUME NEW k \in Node, Nic(NicStep(k)) PROVE ServerReceives'
  <2>1. Receives("server")' = Receives("server") /\ UNCHANGED <<pcC, pcS>>
    BY <1>0, <1>3, Ends, NicKeeps DEF Nic, clientVars, serverVars
  <2>2. sq'["client"] # <<>> \/ wire'["server"] # <<>> => sq["client"] # <<>> \/ wire["server"] # <<>>
    <3>1. ASSUME sq["client"] = <<>>, wire["server"] = <<>>
          PROVE  sq'["client"] = <<>> /\ wire'["server"] = <<>>
      <4>1. CASE Execute(k)
        BY <1>0, <1>3, <3>1, <4>1, Ends, Constants, ExecuteEffect
      <4>2. CASE Deliver(k) \/ Discard(k)
        BY <1>0, <1>3, <3>1, <4>2, Ends, DeliverEffect, DiscardEffect
      <4> QED BY <1>3, <4>1, <4>2 DEF Nic, NicStep, Drop, Lose
    <3> QED BY <3>1
  <2> QED BY <2>1, <2>2 DEF ServerReceives
<1>4. CASE UNCHANGED vars
  BY <1>4 DEF vars, verbsVars, clientVars, serverVars, ServerReceives, Receives
<1> QED BY <1>1, <1>2, <1>3, <1>4 DEF Next

\* Only the three steps that write to the server or send to it put a message on its way.
LEMMA ComesStep ==
  ASSUME IInv, [Next]_vars, NEW o \in {"SEND", "WRITE_IMM"}, NEW v, Comes("server", o, v)'
  PROVE  \/ Comes("server", o, v)
         \/ ClientWriteName /\ o = "WRITE_IMM" /\ v = 1
         \/ ClientGiveUp /\ o = "SEND"
         \/ ClientSendChunk /\ o = "WRITE_IMM"
<1>0. VerbsTypeOK /\ Peer["client"] = "server" /\ Peer["server"] = "client"
  BY Constants DEF IInv, TypeOK
<1>1. ASSUME UNCHANGED <<sq, wire, rcq>> PROVE Comes("server", o, v)
  BY <1>1 DEF Comes
<1>2. CASE ClientNext
  <2>1. ASSUME NEW r \in Region, NEW p, NEW w, Post("client", r, p, w), NoPoll, Idle("server")
        PROVE  o = w.op /\ v = w.imm
    <3>1. UNCHANGED <<wire, rcq>> /\ Idle(Peer["client"])
      BY <1>0, <2>1 DEF NoPoll
    <3>2. \A x, y : Comes(Peer["client"], x, y)' => x = w.op /\ y = w.imm
      <4>1. VerbsTypeOK /\ Paired /\ "client" \in Node /\ Post("client", r, p, w)
        BY <1>0, <2>1, Ends
      <4> QED BY <3>1, <4>1, PostMail
    <3> QED BY <1>0, <3>2
  <2>2. CASE ClientArm \/ ClientPrepost \/ ClientOther
    BY <1>1, <2>2 DEF ClientArm, ClientPrepost, ClientOther, NoSend, NoPoll
  <2>3. CASE ClientPollBegin \/ ClientPoll
    <3>1. CASE PollSend("client")
      BY <1>1, <3>1 DEF PollSend
    <3>2. CASE PollRecv("client")
      BY <1>0, <3>2, Ends, PollMail
    <3> QED BY <2>3, <3>1, <3>2 DEF ClientPollBegin, ClientPoll
  <2>4. CASE ClientWriteName
    <3>1. /\ Post("client", "file_mr", Text("name"),
                  [op |-> "WRITE_IMM", mr |-> "file_mr", len |-> 1, imm |-> 1])
          /\ NoPoll /\ Idle("server")
      BY <2>4, ClientPostsAlone DEF ClientWriteName, PostWrite
    <3>2. PICK w : w = [op |-> "WRITE_IMM", mr |-> "file_mr", len |-> 1, imm |-> 1]
      OBVIOUS
    <3> QED BY <2>1, <2>4, <3>1, <3>2, Ends
  <2>5. CASE ClientGiveUp
    <3>1. NoPoll /\ Idle("server")
      BY <2>5, ClientPostsAlone DEF ClientGiveUp
    <3>2. CASE NoSend
      BY <1>1, <3>1, <3>2 DEF NoSend, NoPoll
    <3>3. CASE PostSend("client", "msg_mr", Text("oserr"))
      <4>1. PICK w : w = [op |-> "SEND", mr |-> "msg_mr", len |-> 1, imm |-> 0]
        OBVIOUS
      <4>2. Post("client", "msg_mr", Text("oserr"), w)
        BY <3>3, <4>1 DEF PostSend
      <4> QED BY <2>1, <2>5, <3>1, <4>1, <4>2, Ends
    <3> QED BY <2>5, <3>2, <3>3 DEF ClientGiveUp
  <2>6. CASE ClientSendChunk
    <3>1. NoPoll /\ Idle("server")
      BY <2>6, ClientPostsAlone DEF ClientSendChunk
    <3>2. \E r \in Region : \E p, w : Post("client", r, p, w) /\ w.op = "WRITE_IMM"
      <4>1. CASE PostWrite("client", "file_mr", Chunk(pos + 1), 1)
        BY <4>1, Ends DEF PostWrite
      <4>2. CASE PostEmptyWrite("client", "file_mr")
        BY <4>2, Ends DEF PostEmptyWrite
      <4> QED BY <2>6, <4>1, <4>2 DEF ClientSendChunk, WriteNext
    <3> QED BY <2>1, <2>6, <3>1, <3>2
  <2>7. CASE ClientClose
    BY <1>0, <2>7, Ends, CloseMail DEF ClientClose
  <2> QED BY <1>2, <2>2, <2>3, <2>4, <2>5, <2>6, <2>7 DEF ClientNext
<1>3. CASE ServerNext
  <2>1. CASE ServerStart \/ ServerEnd \/ ServerCreate \/ ServerSave \/ ServerFinish
    <3>1. sq'["client"] = sq["client"] /\ wire' = wire /\ rcq' = rcq
      <4>1. ASSUME NEW p, NEW w, Post("server", "msg_mr", p, w) PROVE sq'["client"] = sq["client"]
        BY <1>0, <4>1, Ends, PostKeeps
      <4> QED BY <2>1, <4>1 DEF ServerStart, ServerEnd, ServerCreate, ServerSave, ServerFinish,
              PostSend, NoSend, NoPoll
    <3> QED BY <1>0, <3>1 DEF Comes
  <2>2. CASE PollRecv("server")
    BY <1>0, <2>2, Ends, PollMail
  <2>3. CASE PollSend("server") \/ ServerMessage \/ ServerRepost
    BY <1>1, <2>3 DEF PollSend, ServerMessage, ServerRepost, NoSend, NoPoll
  <2>4. CASE ServerClose
    BY <1>0, <2>4, Ends, CloseMail DEF ServerClose
  <2> QED BY <1>3, <2>1, <2>2, <2>3, <2>4 DEF ServerNext, ServerPoll, ServerDrain, PollAny
<1>4. ASSUME NEW k \in Node, Nic(NicStep(k)) PROVE Comes("server", o, v)
  BY <1>0, <1>4, Ends, NicMail DEF Nic
<1>5. CASE UNCHANGED vars
  BY <1>1, <1>5 DEF vars, verbsVars
<1> QED BY <1>2, <1>3, <1>4, <1>5 DEF Next

\* What the server polls is what comes.
LEMMA PolledKind ==
  ASSUME IInv, PollRecv("server")
  PROVE  LET c == Head(rcq["server"]) IN
           /\ c.op # "RECV_IMM" => c.imm \in 0..1 /\ Comes("server", "SEND", c.imm)
           /\ c.op = "RECV_IMM" => Comes("server", "WRITE_IMM", c.imm)
<1>1. VerbsTypeOK
  BY DEF IInv, TypeOK
<1>2. Head(rcq["server"]) \in Completion
  BY <1>1, Ends, NodeTypes, TailFacts DEF PollRecv
<1>3. Head(rcq["server"]).op \in {"RECV", "RECV_IMM"} /\ Head(rcq["server"]).imm \in 0..1
  BY <1>2 DEF Completion
<1> QED BY <1>1, <1>3, Ends, PollMail

LEMMA ErrorLastStep ==
  ASSUME IInv, ErrorLast, [Next]_vars
  PROVE  ErrorLast'
<1>1. pcC \in {"close", "closed"} => pcC' \in {"close", "closed"}
  <2>1. CASE ClientNext
    BY <2>1 DEF ClientNext, ClientArm, ClientPollBegin, ClientWriteName, ClientGiveUp,
       ClientPrepost, ClientPoll, ClientSendChunk, ClientOther, ClientClose
  <2>2. CASE ServerNext
    BY <2>2 DEF ServerNext, ServerStart, ServerPoll, ServerMessage, ServerEnd, ServerCreate,
       ServerRepost, ServerSave, ServerFinish, ServerDrain, ServerClose, clientVars
  <2>3. CASE (\E n \in Node : Nic(NicStep(n))) \/ UNCHANGED vars
    BY <2>3 DEF Nic, vars, clientVars
  <2> QED BY <2>1, <2>2, <2>3 DEF Next
<1>2. ASSUME NEW i \in 0..1, Comes("server", "SEND", i)' PROVE pcC' \in {"close", "closed"}
  <2>1. Comes("server", "SEND", i) \/ ClientGiveUp
    BY <1>2, ComesStep
  <2> QED BY <1>1, <2>1 DEF ErrorLast, ClientGiveUp
<1>3. ASSUME pcS' = "msg", pcS # "msg" PROVE pcC' \in {"close", "closed"}
  <2>1. ServerPoll
    <3>1. CASE ClientNext
      BY <1>3, <3>1 DEF ClientNext, ClientArm, ClientPollBegin, ClientWriteName, ClientGiveUp,
         ClientPrepost, ClientPoll, ClientSendChunk, ClientOther, ClientClose, serverVars
    <3>2. CASE ServerNext
      BY <1>3, <3>2 DEF ServerNext, ServerStart, ServerMessage, ServerEnd, ServerCreate,
         ServerRepost, ServerSave, ServerFinish, ServerDrain, ServerClose
    <3>3. CASE (\E n \in Node : Nic(NicStep(n))) \/ UNCHANGED vars
      BY <1>3, <3>3 DEF Nic, vars, serverVars
    <3> QED BY <3>1, <3>2, <3>3 DEF Next
  <2>2. PollRecv("server") /\ Head(rcq["server"]).op # "RECV_IMM"
    BY <1>3, <2>1 DEF ServerPoll
  <2>3. PICK i \in 0..1 : Comes("server", "SEND", i)
    BY <2>2, PolledKind
  <2> QED BY <1>1, <2>3 DEF ErrorLast
<1> QED BY <1>1, <1>2, <1>3 DEF ErrorLast

LEMMA EndsLaterStep ==
  ASSUME IInv, EndsLater, [Next]_vars
  PROVE  EndsLater'
<1>0. VerbsTypeOK
  BY DEF IInv, TypeOK
<1> SUFFICES ASSUME Early' PROVE (/\ ~ Finishing
                                  /\ ~ (pcS = "imm" /\ imm = 0)
                                  /\ ~ Comes("server", "WRITE_IMM", 0))'
  BY DEF EndsLater
<1>1. CASE ClientWriteName \/ ClientGiveUp
  <2>1. /\ ~ Finishing /\ ServerHolds = 0 /\ Idle("server") /\ UNCHANGED <<pcS, imm>>
    BY <1>1, ClientPostsAlone DEF ClientWriteName, ClientGiveUp, serverVars
  <2>2. pcS # "imm"
    BY <2>1 DEF ServerHolds
  <2>3. ~ Comes("server", "WRITE_IMM", 0)
    BY <2>1 DEF Comes, Idle
  <2>4. ~ ClientSendChunk
    BY <1>1 DEF ClientWriteName, ClientGiveUp, ClientSendChunk
  <2>5. ~ Comes("server", "WRITE_IMM", 0)'
    BY <2>3, <2>4, ComesStep
  <2> QED BY <2>1, <2>2, <2>5 DEF Finishing
<1>2. CASE ClientNext /\ ~ ClientWriteName /\ ~ ClientGiveUp
  <2>1. Early /\ ~ ClientSendChunk /\ UNCHANGED <<pcS, imm>>
    BY <1>2 DEF Early, ClientNext, ClientArm, ClientPollBegin,
       ClientPrepost, ClientPoll, ClientSendChunk, ClientOther, ClientClose, serverVars
  <2>2. ~ Comes("server", "WRITE_IMM", 0)'
    BY <1>2, <2>1, ComesStep DEF EndsLater
  <2> QED BY <2>1, <2>2 DEF EndsLater, Finishing
<1>3. CASE ServerNext
  <2>1. UNCHANGED <<pcC, doneC>> /\ Early
    BY <1>3 DEF Early, ServerNext, ServerStart, ServerPoll, ServerMessage, ServerEnd, ServerCreate,
       ServerRepost, ServerSave, ServerFinish, ServerDrain, ServerClose, clientVars
  <2>2. ~ Comes("server", "WRITE_IMM", 0)
    BY <2>1 DEF EndsLater
  <2>3. ~ Comes("server", "WRITE_IMM", 0)'
    <3>1. ~ ClientWriteName /\ ~ ClientSendChunk
      BY <1>3, <2>1 DEF Early, ClientWriteName, ClientSendChunk, ServerNext, ServerStart,
         ServerPoll, ServerMessage, ServerEnd, ServerCreate, ServerRepost, ServerSave,
         ServerFinish, ServerDrain, ServerClose, clientVars
    <3> QED BY <2>2, <3>1, ComesStep
  <2>4. pcS' = "imm" => imm' # 0
    BY <1>3, <2>1, <2>2, PolledKind DEF EndsLater, ServerNext, ServerStart, ServerPoll,
       ServerMessage, ServerEnd, ServerCreate, ServerRepost, ServerSave, ServerFinish,
       ServerDrain, ServerClose
  <2>5. ASSUME ServerMessage PROVE pcS' = "loop"
    <3>1. mem["server"]["file_mr"] = Text("oserr") /\ Text("oserr") # Text("err")
      BY <2>5 DEF ServerMessage, IInv, ClientMessages, ClientSent, Text
    <3> QED BY <2>5, <3>1 DEF ServerMessage
  <2>6. ~ Finishing'
    BY <1>3, <2>1, <2>5 DEF EndsLater, Finishing, ServerNext, ServerStart, ServerPoll,
       ServerEnd, ServerCreate, ServerRepost, ServerSave, ServerFinish,
       ServerDrain, ServerClose
  <2> QED BY <2>3, <2>4, <2>6
<1>4. CASE (\E n \in Node : Nic(NicStep(n))) \/ UNCHANGED vars
  <2>1. UNCHANGED <<pcC, doneC, pcS, imm>> /\ Early
    BY <1>4 DEF Nic, vars, clientVars, serverVars, Early
  <2>2. ~ ClientWriteName /\ ~ ClientSendChunk
    BY <2>1 DEF ClientWriteName, ClientSendChunk
  <2>3. ~ Comes("server", "WRITE_IMM", 0)'
    BY <2>1, <2>2, ComesStep DEF EndsLater
  <2> QED BY <2>1, <2>3 DEF EndsLater, Finishing
<1> QED BY <1>1, <1>2, <1>3, <1>4 DEF Next

\* No step of the client, of an adapter or of the network adds to what is on its way
\* to the client.
LEMMA SumLess ==
  ASSUME QueuedS \in Nat, WireC \in Nat, ArrivedC \in Nat, ClientHolds \in Nat,
         QueuedS' \in Nat, WireC' \in Nat, ArrivedC' \in Nat, ClientHolds' \in Nat,
         QueuedS' <= QueuedS, WireC' <= WireC,
         ArrivedC' + ClientHolds' <= ArrivedC + ClientHolds
  PROVE  ToClient' <= ToClient
<1>1. PICK q \in Nat, w \in Nat, a \in Nat, h \in Nat :
        q = QueuedS /\ w = WireC /\ a = ArrivedC /\ h = ClientHolds
  OBVIOUS
<1>2. PICK q2 \in Nat, w2 \in Nat, a2 \in Nat, h2 \in Nat :
        q2 = QueuedS' /\ w2 = WireC' /\ a2 = ArrivedC' /\ h2 = ClientHolds'
  OBVIOUS
<1>3. q2 <= q /\ w2 <= w /\ a2 + h2 <= a + h
  BY <1>1, <1>2
<1>4. q2 + w2 + a2 + h2 <= q + w + a + h
  BY <1>3
<1>5. ToClient = q + w + a + h /\ ToClient' = q2 + w2 + a2 + h2
  BY <1>1, <1>2 DEF ToClient
<1> QED BY <1>4, <1>5

LEMMA ClientTakes ==
  ASSUME IInv, ClientNext
  PROVE  ToClient' <= ToClient
<1>0. /\ TypeOK /\ VerbsTypeOK
      /\ QueuedS \in Nat /\ WireC \in Nat /\ ArrivedC \in Nat /\ ClientHolds \in {0, 1}
  BY Counts DEF IInv, TypeOK
<1>1. QueuedS' = QueuedS /\ WireC' = WireC
  <2>1. ASSUME NEW r \in Region, NEW p, NEW w, Post("client", r, p, w)
        PROVE  sq'["server"] = sq["server"]
    BY <1>0, <2>1, Ends, PostKeeps
  <2>2. sq'["server"] = sq["server"] /\ wire' = wire
    <3>1. CASE ClientWriteName \/ ClientGiveUp \/ ClientSendChunk
      BY <2>1, <3>1, Ends DEF ClientWriteName, ClientGiveUp, ClientSendChunk, WriteNext, PostWrite,
         PostEmptyWrite, PostSend, NoSend, NoPoll
    <3>2. CASE ClientArm \/ ClientPrepost \/ ClientOther \/ ClientPollBegin \/ ClientPoll
      BY <3>2 DEF ClientArm, ClientPrepost, ClientOther, ClientPollBegin, ClientPoll, NoSend, NoPoll,
         PollSend, PollRecv
    <3>3. CASE ClientClose
      BY <1>0, <3>3, Ends, CloseEffect DEF ClientClose
    <3> QED BY <3>1, <3>2, <3>3 DEF ClientNext
  <2> QED BY <2>2 DEF QueuedS, WireC
<1>2. /\ ArrivedC' \in Nat /\ ClientHolds' \in {0, 1}
      /\ ArrivedC' + ClientHolds' <= ArrivedC + ClientHolds
  <2>1. CASE PollRecv("client") /\ pcC \in {"begin", "loop"} /\ pcC' \in {"check", "handle"}
    <3>1. ArrivedC' = ArrivedC - 1 /\ ArrivedC # 0
      BY <1>0, <2>1, Ends, PollRecvEffect, NodeTypes, EmptyFacts DEF ArrivedC
    <3>2. ClientHolds = 0 /\ ClientHolds' = 1
      BY <2>1 DEF ClientHolds
    <3> QED BY <1>0, <3>1, <3>2
  <2>2. CASE PollSend("client") /\ pcC' = pcC
    BY <1>0, <2>2 DEF PollSend, ArrivedC, ClientHolds
  <2>3. CASE ClientArm \/ ClientPrepost \/ ClientOther \/ ClientWriteName \/ ClientGiveUp
             \/ ClientSendChunk
    <3>1. rcq' = rcq /\ pcC' \notin {"check", "handle"}
      BY <2>3 DEF ClientArm, ClientPrepost, ClientOther, ClientWriteName, ClientGiveUp,
         ClientSendChunk, NoPoll
    <3>2. ArrivedC' = ArrivedC /\ ClientHolds' = 0
      BY <3>1 DEF ArrivedC, ClientHolds
    <3> QED BY <1>0, <3>2
  <2>4. CASE ClientClose
    <3>1. ArrivedC' = 0 /\ ClientHolds' = 0
      BY <1>0, <2>4, Ends, CloseEffect DEF ClientClose, ArrivedC, ClientHolds
    <3> QED BY <1>0, <3>1
  <2> QED BY <1>1, <2>1, <2>2, <2>3, <2>4 DEF ClientNext, ClientPollBegin, ClientPoll
<1>3. /\ QueuedS \in Nat /\ WireC \in Nat /\ ArrivedC \in Nat /\ ClientHolds \in Nat
  BY <1>0
<1>4. QueuedS' \in Nat /\ WireC' \in Nat /\ QueuedS' <= QueuedS /\ WireC' <= WireC
  BY <1>1, <1>3
<1>5. ClientHolds' \in Nat
  BY <1>2
<1>6. ArrivedC' \in Nat
  BY <1>2
<1>7. ArrivedC' + ClientHolds' <= ArrivedC + ClientHolds
  BY <1>2
<1> QED BY <1>3, <1>4, <1>5, <1>6, <1>7, SumLess

LEMMA NetworkTakes ==
  ASSUME IInv, (\E k \in Node : Nic(NicStep(k))) \/ UNCHANGED vars
  PROVE  ToClient' <= ToClient
<1>1. VerbsTypeOK /\ ClientHolds \in {0, 1} /\ ToClient \in Nat
  BY Counts DEF IInv, TypeOK
<1>2. ToClient = Transit("client") + ClientHolds /\ ToClient' = Transit("client")' + ClientHolds'
  BY Constants DEF ToClient, Transit, QueuedS, WireC, ArrivedC
<1>3. CASE \E k \in Node : Nic(NicStep(k))
  <2>1. PICK k \in Node : Nic(NicStep(k))
    BY <1>3
  <2>2. ClientHolds' = ClientHolds
    BY <2>1 DEF Nic, clientVars, ClientHolds
  <2>3. Transit("client") \in Nat /\ Transit("client")' \in Nat
        /\ Transit("client")' <= Transit("client")
    BY <1>1, <2>1, Ends, NicMail DEF Nic
  <2> QED BY <1>1, <1>2, <2>2, <2>3
<1>4. CASE UNCHANGED vars
  <2>1. ToClient' = ToClient
    BY <1>4 DEF vars, verbsVars, clientVars, ToClient, QueuedS, WireC, ArrivedC, ClientHolds
  <2> QED BY <1>1, <2>1
<1> QED BY <1>3, <1>4

LEMMA LastTextsStep ==
  ASSUME IInv, LastTexts, [Next]_vars
  PROVE  LastTexts'
<1>0. /\ TypeOK /\ VerbsTypeOK
      /\ QueuedS \in Nat /\ WireC \in Nat /\ ArrivedC \in Nat /\ ClientHolds \in {0, 1}
      /\ ToClient \in Nat
  BY Counts DEF IInv, TypeOK
<1>type. ToClient' \in Nat
  <2>1. TypeOK'
    BY TypeStep DEF IInv
  <2>2. /\ sq'["server"] \in Seq(WorkRequest) /\ wire'["client"] \in Seq(Message)
        /\ rcq'["client"] \in Seq(Completion)
    BY <2>1, Ends DEF TypeOK, VerbsTypeOK
  <2>3. QueuedS' \in Nat /\ WireC' \in Nat /\ ArrivedC' \in Nat /\ ClientHolds' \in Nat
    BY <2>2, EmptyFacts DEF QueuedS, WireC, ArrivedC, ClientHolds
  <2>4. PICK q \in Nat, w \in Nat, a \in Nat, h \in Nat :
          q = QueuedS' /\ w = WireC' /\ a = ArrivedC' /\ h = ClientHolds'
    BY <2>3
  <2>5. ToClient' = q + w + a + h
    BY <2>4 DEF ToClient
  <2> QED BY <2>5
<1>1. ASSUME pcS' = pcS, ToClient' <= ToClient PROVE LastTexts'
  BY <1>0, <1>type, <1>1 DEF LastTexts, Finishing
<1>2. CASE ClientNext
  BY <1>1, <1>2, ClientTakes DEF ClientNext, ClientArm, ClientPollBegin, ClientWriteName,
     ClientGiveUp, ClientPrepost, ClientPoll, ClientSendChunk, ClientOther, ClientClose, serverVars
<1>3. CASE (\E k \in Node : Nic(NicStep(k))) \/ UNCHANGED vars
  BY <1>1, <1>3, NetworkTakes DEF Nic, vars, serverVars
<1>4. CASE ServerNext
  <2>0. ASSUME NEW p, PostSend("server", "msg_mr", p), NoPoll, pcC' = pcC
        PROVE  ToClient' = ToClient + 1
    <3>1. /\ sq' = [sq EXCEPT !["server"] = Append(@, [op |-> "SEND", mr |-> "msg_mr",
                                                       len |-> 1, imm |-> 0])]
          /\ [op |-> "SEND", mr |-> "msg_mr", len |-> 1, imm |-> 0] \in WorkRequest
      BY <2>0, Ends DEF PostSend, Post, WorkRequest
    <3>2. QueuedS' = QueuedS + 1
      BY <1>0, <3>1, Ends, QueueTypes, AppendFacts DEF QueuedS
    <3>3. WireC' = WireC /\ ArrivedC' = ArrivedC /\ ClientHolds' = ClientHolds
      BY <2>0 DEF NoPoll, WireC, ArrivedC, ClientHolds
    <3> QED BY <1>0, <3>2, <3>3 DEF ToClient
  <2>1. CASE ServerStart \/ ServerPoll \/ ServerCreate \/ ServerRepost \/ ServerSave
    <3>1. ~ Finishing'
      BY <2>1 DEF Finishing, ServerStart, ServerPoll, ServerCreate, ServerRepost, ServerSave
    <3> QED BY <3>1 DEF LastTexts
  <2>2. CASE ServerMessage
    <3>1. mem["server"]["file_mr"] = Text("oserr") /\ Text("oserr") # Text("err")
      BY <2>2 DEF ServerMessage, IInv, ClientMessages, ClientSent, Text
    <3>2. ~ Finishing'
      BY <2>2, <3>1 DEF ServerMessage, Finishing
    <3> QED BY <3>2 DEF LastTexts
  <2>3. CASE ServerEnd
    <3>1. ToClient = 0
      <4>1. ServerHolds = 1
        BY <2>3 DEF ServerEnd, ServerHolds
      <4> QED BY <4>1, ServerAlone DEF ToClient
    <3>2. ToClient' = 1
      BY <2>0, <2>3, <3>1 DEF ServerEnd, clientVars
    <3> QED BY <3>2 DEF LastTexts
  <2>4. CASE ServerFinish
    <3>1. Finishing /\ named /\ pcS = "finish" /\ pcS' = "drain"
      BY <2>4, NothingToServer DEF ServerFinish, Finishing
    <3>2. ToClient <= 1 /\ ToClient' = ToClient + 1
      BY <2>0, <2>4, <3>1 DEF ServerFinish, LastTexts, clientVars
    <3>3. ToClient' <= 2
      BY <1>0, <3>2
    <3> QED BY <3>1, <3>3 DEF LastTexts
  <2>5. CASE ServerDrain \/ ServerClose
    <3>1. pcS \in {"drain", "handler"} /\ pcS' # "finish" /\ pcC' = pcC /\ Finishing
      BY <2>5 DEF ServerDrain, ServerClose, clientVars, Finishing
    <3>2. QueuedS' \in Nat /\ QueuedS' <= QueuedS /\ WireC' = WireC /\ ArrivedC' = ArrivedC
      <4>1. CASE ServerDrain
        BY <1>0, <4>1, Ends, PollSendEffect, PollRecvEffect DEF ServerDrain, PollAny, QueuedS, WireC,
           ArrivedC
      <4>2. CASE ServerClose
        BY <1>0, <4>2, Ends, CloseEffect DEF ServerClose, QueuedS, WireC, ArrivedC
      <4> QED BY <2>5, <4>1, <4>2
    <3>3. ToClient' <= ToClient
      <4>1. ClientHolds' = ClientHolds /\ ClientHolds \in Nat
        BY <3>1 DEF ClientHolds
      <4>2. /\ QueuedS \in Nat /\ WireC \in Nat /\ ArrivedC \in Nat /\ ClientHolds' \in Nat
            /\ WireC' \in Nat /\ ArrivedC' \in Nat /\ WireC' <= WireC
            /\ ArrivedC' + ClientHolds' <= ArrivedC + ClientHolds
        BY <1>0, <3>2, <4>1
      <4> QED BY <3>2, <4>1, <4>2, SumLess
    <3> QED BY <1>0, <1>type, <3>1, <3>3 DEF LastTexts
  <2> QED BY <1>4, <2>1, <2>2, <2>3, <2>4, <2>5 DEF ServerNext
<1> QED BY <1>2, <1>3, <1>4 DEF Next

LEMMA ReceiveInit ==
  ASSUME Init
  PROVE  ReceiveInv
<1>1. /\ \A n \in Node : sq[n] = <<>> /\ wire[n] = <<>> /\ rcq[n] = <<>>
      /\ rq["client"] = <<"recv_mr">> /\ rq["server"] = <<>>
      /\ pcC = "arm" /\ pcS = "start" /\ doneC = FALSE
  BY Ends DEF Init, VerbsInit
<1>2. Receives("client") = 1 /\ Receives("server") = 0
  BY <1>1, Ends DEF Receives
<1>3. \A o, v : ~ Comes("server", o, v)
  BY <1>1, Ends, Constants DEF Comes
<1> QED BY <1>1, <1>2, <1>3 DEF ReceiveInv, ClientReceives, ServerReceives, ErrorLast, EndsLater,
        Early, LastTexts, Finishing

LEMMA ReceiveStep ==
  ASSUME IInv, ReceiveInv, [Next]_vars
  PROVE  ReceiveInv'
<1>1. ClientReceives /\ ServerReceives /\ ErrorLast /\ EndsLater /\ LastTexts
  BY DEF ReceiveInv
<1>2. ClientReceives' /\ ServerReceives'
  BY <1>1, ClientReceivesStep, ServerReceivesStep
<1>3. ErrorLast' /\ EndsLater' /\ LastTexts'
  BY <1>1, ErrorLastStep, EndsLaterStep, LastTextsStep
<1> QED BY <1>2, <1>3 DEF ReceiveInv

\* Every step keeps what the sides know of their receives.
THEOREM ReceivesInvariance == Spec => [](IInv /\ ReceiveInv)
<1>1. Init => IInv /\ ReceiveInv
  BY IInvInit, ReceiveInit
<1>2. IInv /\ ReceiveInv /\ [Next]_vars => (IInv /\ ReceiveInv)'
  BY IInvStep, ReceiveStep
<1> QED BY <1>1, <1>2, PTL DEF Spec

LEMMA ServerReady ==
  ASSUME IInv, ReceiveInv, wire["server"] # <<>>
  PROVE  rq["server"] # <<>>
<1>1. /\ QueuedC \in Nat /\ WireS \in Nat /\ ArrivedS \in Nat /\ ServerHolds \in {0, 1}
      /\ WireS # 0 /\ (ArrivedS = 0 => rcq["server"] = <<>>)
  BY Counts DEF IInv
<1>2. ToServer = 1 /\ ~ Finishing /\ pcS # "start"
  <2>1. ToServer # 0
    BY <1>1 DEF ToServer
  <2> QED BY <2>1, OneMessage
<1>3. ArrivedS = 0 /\ ServerHolds = 0
  BY <1>1, <1>2 DEF ToServer
<1>4. pcS = "loop"
  BY <1>2, <1>3 DEF ServerHolds, Finishing, IInv, TypeOK
<1>5. Receives("server") = 1
  BY <1>4 DEF ReceiveInv, ServerReceives
<1> QED BY <1>1, <1>3, <1>5, StillPosted

LEMMA ClientReady ==
  ASSUME IInv, ReceiveInv, wire["client"] # <<>>, up["client"]
  PROVE  rq["client"] # <<>>
<1> SUFFICES ASSUME rq["client"] = <<>> PROVE FALSE
  OBVIOUS
<1>1. /\ QueuedS \in Nat /\ WireC \in Nat /\ ArrivedC \in Nat /\ ClientHolds \in {0, 1}
      /\ WireC # 0 /\ ToServer \in Nat /\ ToClient \in Nat
  BY Counts DEF IInv
<1>2. ArrivedC = Receives("client")
  <2>1. Len(rq["client"]) = 0
    OBVIOUS
  <2> QED BY <1>1, <2>1 DEF Receives, ArrivedC
<1>3. /\ pcC # "closed" /\ Receives("client") \in {1, 2}
      /\ Receives("client") = 1 => ~ (pcC \in {"begin", "loop"} \/ (pcC = "close" /\ doneC))
  BY DEF ReceiveInv, ClientReceives
<1>4. ToClient >= 2
  BY <1>1, <1>2, <1>3 DEF ToClient
<1>5. Finishing
  BY <1>1, <1>4 DEF IInv, Token
<1>6. ToClient <= 2
  BY <1>1, <1>5 DEF ReceiveInv, LastTexts
<1>7. ArrivedC = 1 /\ ClientHolds = 0
  BY <1>1, <1>2, <1>3, <1>6 DEF ToClient
<1>8. pcC \notin {"arm", "begin", "check", "handle", "closed", "loop"} /\ ~ (pcC = "close" /\ doneC)
  BY <1>2, <1>3, <1>5, <1>7, NothingToServer DEF ClientHolds
<1>9. Early
  BY <1>8 DEF Early, IInv, TypeOK
<1> QED BY <1>5, <1>9 DEF ReceiveInv, EndsLater

\* A message for a queue pair that is up finds a posted receive: UC drops none for want
\* of one.  No more receives are posted than the queue pair was made for.
THEOREM ReceivesCorrect == Spec => []ReceivesPosted
<1>1. IInv /\ ReceiveInv => ReceivesPosted
  <2> SUFFICES ASSUME IInv, ReceiveInv, NEW n \in Node
               PROVE  Ready(n) /\ Len(rq[n]) <= MaxRecvWr
    BY DEF ReceivesPosted
  <2>1. Ready(n)
    BY ServerReady, ClientReady, Ends DEF Ready
  <2>2. Receives(n) \in {0, 1, 2}
    BY Ends DEF ReceiveInv, ClientReceives, ServerReceives
  <2>3. Len(rq[n]) \in Nat /\ Len(rcq[n]) \in Nat
    BY NodeTypes DEF IInv, TypeOK
  <2>4. PICK p \in Nat, c \in Nat : p = Len(rq[n]) /\ c = Len(rcq[n])
    BY <2>3
  <2>5. p + c \in {0, 1, 2}
    BY <2>2, <2>4 DEF Receives
  <2>6. p <= MaxRecvWr
    BY <2>5 DEF MaxRecvWr
  <2> QED BY <2>1, <2>4, <2>6
<1> QED BY <1>1, ReceivesInvariance, PTL

LEMMA SendBufferStep ==
  ASSUME IInv, [Next]_vars
  PROVE  \A n \in Node : SendBufferHeld(n)
<1>0. TypeOK /\ VerbsTypeOK /\ Region = {"msg_mr", "recv_mr", "file_mr"}
  BY Ends DEF IInv, TypeOK
<1>1. ASSUME NEW n \in Node, mem'[n] = mem[n] PROVE SendBufferHeld(n)
  BY <1>1 DEF SendBufferHeld
<1>2. ASSUME NEW n \in Node, sq[n] = <<>> PROVE SendBufferHeld(n)
  BY <1>2 DEF SendBufferHeld
<1>3. CASE ClientNext
  <2>1. CASE ClientArm \/ ClientPollBegin \/ ClientPrepost \/ ClientPoll \/ ClientOther \/ ClientClose
    <3>1. mem' = mem
      BY <2>1 DEF ClientArm, ClientPollBegin, ClientPrepost, ClientPoll, ClientOther, ClientClose,
         NoSend, PollSend, PollRecv, CloseNode
    <3> QED BY <1>1, <3>1
  <2>2. CASE ClientWriteName \/ ClientGiveUp \/ ClientSendChunk
    <3>1. sq["client"] = <<>>
      BY <2>2, ClientPostsAlone
    <3>2. mem'["server"] = mem["server"]
      BY <1>0, <2>2, PostElsewhere DEF ClientWriteName, ClientGiveUp, ClientSendChunk, WriteNext,
         PostWrite, PostEmptyWrite, PostSend, NoSend
    <3> QED BY <1>1, <1>2, <3>1, <3>2, Ends
  <2> QED BY <1>3, <2>1, <2>2 DEF ClientNext
<1>4. CASE ServerNext
  <2>1. CASE ServerPoll \/ ServerMessage \/ ServerRepost \/ ServerDrain \/ ServerClose
    <3>1. mem' = mem
      BY <2>1 DEF ServerPoll, ServerMessage, ServerRepost, ServerDrain, ServerClose,
         NoSend, PollAny, PollSend, PollRecv, CloseNode
    <3> QED BY <1>1, <3>1
  <2>2. CASE ServerStart \/ ServerEnd \/ ServerCreate \/ ServerSave \/ ServerFinish
    <3>1. mem'["client"] = mem["client"]
      BY <1>0, <2>2, PostElsewhere DEF ServerStart, ServerEnd, ServerCreate, ServerSave,
         ServerFinish, PostSend, NoSend
    <3>2. CASE ServerStart
      <4>1. ToClient = 0
        BY <3>2 DEF ServerStart, IInv, Progress
      <4>2. QueuedS = 0
        BY <1>0, <4>1, Counts DEF ToClient
      <4> QED BY <1>0, <1>1, <1>2, <3>1, <4>2, Counts, Ends
    <3>3. CASE ServerEnd \/ ServerCreate \/ ServerSave
      <4>1. ServerHolds = 1
        BY <3>3 DEF ServerEnd, ServerCreate, ServerSave, ServerHolds
      <4> QED BY <1>0, <1>1, <1>2, <3>1, <4>1, ServerAlone, Counts, Ends
    <3>4. CASE ServerFinish
      <4>1. Finishing /\ named
        BY <3>4, NothingToServer DEF ServerFinish, Finishing
      <4>2. sq["server"] # <<>> => mem["server"]["msg_mr"] = Text("done")
        BY <4>1 DEF IInv, ServerMessages, ServerSent
      <4>3. mem'["server"]["msg_mr"] = Text("done")
        BY <1>0, <3>4, <4>1, PostMem, Ends DEF ServerFinish, PostSend, Region
      <4>4. sq["server"] # <<>> => mem'["server"]["msg_mr"] = mem["server"]["msg_mr"]
        BY <1>0, <4>2, <4>3, Ends DEF VerbsTypeOK
      <4>5. \A i \in 1..Len(sq["server"]) : sq["server"][i].mr = "msg_mr"
        BY DEF IInv, ServerMessages
      <4>6. SendBufferHeld("server")
        <5>1. ASSUME NEW i \in 1..Len(sq["server"])
              PROVE  mem'["server"][sq["server"][i].mr] = mem["server"][sq["server"][i].mr]
          <6>1. sq["server"] # <<>> /\ sq["server"][i].mr = "msg_mr"
            BY <1>0, <4>5, Counts
          <6> QED BY <4>4, <6>1
        <5> QED BY <5>1 DEF SendBufferHeld
      <4> QED BY <1>1, <3>1, <4>6, Ends
    <3> QED BY <2>2, <3>2, <3>3, <3>4
  <2> QED BY <1>4, <2>1, <2>2 DEF ServerNext
<1>5. CASE \E k \in Node : Nic(NicStep(k))
  <2>1. PICK k \in Node : NicStep(k)
    BY <1>5 DEF Nic
  <2>2. CASE Execute(k)
    <3>1. mem' = mem
      BY <2>2 DEF Execute, Transmit
    <3> QED BY <1>1, <3>1
  <2>3. CASE Deliver(k) \/ Discard(k)
    <3>1. wire[k] # <<>> /\ \A n \in Node \ {k} : mem'[n] = mem[n]
      BY <1>0, <2>3, DeliverEffect, DiscardEffect
    <3>2. sq[k] = <<>>
      <4>1. CASE k = "client"
        <5>1. QueuedC \in Nat /\ WireS \in Nat /\ ArrivedS \in Nat /\ ServerHolds \in {0, 1}
              /\ (QueuedC = 0 => sq["client"] = <<>>)
          BY <1>0, Counts
        <5>2. QueuedC # 0 => ToServer # 0
          BY <5>1 DEF ToServer
        <5> QED BY <3>1, <4>1, <5>1, <5>2, OneMessage
      <4>2. CASE k = "server"
        <5>1. WireS # 0 /\ QueuedC \in Nat /\ WireS \in Nat /\ ArrivedS \in Nat
              /\ ServerHolds \in {0, 1}
          BY <1>0, <3>1, <4>2, Counts
        <5>2. ToServer # 0
          BY <5>1 DEF ToServer
        <5> QED BY <4>2, <5>2, OneMessage
      <4> QED BY <4>1, <4>2, Ends
    <3> QED BY <1>1, <1>2, <3>1, <3>2
  <2> QED BY <2>1, <2>2, <2>3 DEF NicStep, Drop, Lose
<1>6. CASE UNCHANGED vars
  <2>1. mem' = mem
    BY <1>6 DEF vars, verbsVars
  <2> QED BY <1>1, <2>1
<1> QED BY <1>3, <1>4, <1>5, <1>6 DEF Next

\* A region whose send is still queued is not overwritten: the wait for the peer's answer
\* is enough, though neither side waits for its send completions.
THEOREM SendBuffersCorrect == Spec => SendBuffersHeld
<1>1. IInv /\ [Next]_vars => [\A n \in Node : SendBufferHeld(n)]_vars
  BY SendBufferStep
<1> QED BY <1>1, Invariance, PTL DEF Spec, SendBuffersHeld

-----------------------------------------------------------------------------
(* The places in the send queues. *)

\* The most sends of each side whose completion can be left, at the place where it
\* is: a message that is polled leaves one, and every post adds one.
ClientPlaces ==
  /\ Sends("client") <= 2
  /\ pcC \in {"prepost", "handle"} => Sends("client") <= 1
  /\ pcC \in {"arm", "begin", "check", "closed"} => Sends("client") = 0

ServerPlaces ==
  /\ Sends("server") <= 3
  /\ pcS \in {"loop", "finish"} => Sends("server") <= 2
  /\ pcS \in {"msg", "imm", "save"} => Sends("server") <= 1
  /\ pcS \in {"start", "closed"} => Sends("server") = 0

\* What has arrived at one side was sent after all that this side had to send.
LEMMA PushAnswered == ASSUME IInv PROVE Answered
<1>1. /\ QueuedC \in Nat /\ WireS \in Nat /\ ArrivedS \in Nat
      /\ QueuedS \in Nat /\ WireC \in Nat /\ ArrivedC \in Nat
      /\ ServerHolds \in {0, 1} /\ ClientHolds \in {0, 1}
      /\ (QueuedC = 0 => sq["client"] = <<>>) /\ (QueuedS = 0 => sq["server"] = <<>>)
      /\ (rcq["client"] # <<>> => ArrivedC > 0) /\ (rcq["server"] # <<>> => ArrivedS > 0)
  BY Counts DEF IInv
<1>2. CASE Finishing
  BY <1>2, NothingToServer, Ends DEF Answered
<1>3. CASE ~ Finishing
  <2>1. ToServer + ToClient <= 1
    BY <1>3 DEF IInv, Token
  <2>2. ArrivedC > 0 => QueuedC = 0
    BY <1>1, <2>1 DEF ToServer, ToClient
  <2>3. ArrivedS > 0 => QueuedS = 0
    BY <1>1, <2>1 DEF ToServer, ToClient
  <2> QED BY <1>1, <2>2, <2>3, Ends DEF Answered
<1> QED BY <1>2, <1>3

\* What a side does leaves the sends of the other alone.
LEMMA ServerKeepsSends ==
  ASSUME VerbsTypeOK, ServerNext
  PROVE  OthersKeep("server")
<1>1. CASE NoSend /\ scq' = scq
  BY <1>1, NoSendSends DEF OthersKeep
<1>2. CASE (\E k : PostSend("server", "msg_mr", Text(k))) /\ scq' = scq
  BY <1>2, Ends, PostSends
<1>3. CASE PollAny("server")
  BY <1>3, Ends, PollSame DEF OthersKeep, Same, Sends
<1>4. CASE CloseNode("server")
  BY <1>4, Ends, CloseSends
<1> QED BY <1>1, <1>2, <1>3, <1>4 DEF ServerNext, ServerStart, ServerPoll, ServerMessage,
        ServerEnd, ServerCreate, ServerRepost, ServerSave, ServerFinish, ServerDrain,
        ServerClose, NoPoll, PollAny

LEMMA ClientPosts ==
  ASSUME VerbsTypeOK, ClientWriteName \/ ClientGiveUp \/ ClientSendChunk
  PROVE  /\ Sends("client")' = Sends("client") + 1 \/ Sends("client")' = Sends("client")
         /\ OthersKeep("client")
<1>1. scq' = scq
  BY DEF ClientWriteName, ClientGiveUp, ClientSendChunk, NoPoll
<1>2. CASE NoSend
  BY <1>1, <1>2, NoSendSends DEF OthersKeep
<1>3. CASE \E r \in Region : \E p : \/ PostSend("client", r, p)
                                      \/ (\E i : PostWrite("client", r, p, i))
                                      \/ PostEmptyWrite("client", r)
  BY <1>1, <1>3, Ends, PostSends
<1>4. /\ ClientWriteName => \E i : PostWrite("client", "file_mr", Text("name"), i)
      /\ ClientSendChunk => \/ \E p, i : PostWrite("client", "file_mr", p, i)
                            \/ PostEmptyWrite("client", "file_mr")
      /\ ClientGiveUp => NoSend \/ PostSend("client", "msg_mr", Text("oserr"))
  BY DEF ClientWriteName, ClientGiveUp, ClientSendChunk, WriteNext
<1> QED BY <1>2, <1>3, <1>4, Ends

LEMMA ClientKeepsSends ==
  ASSUME VerbsTypeOK, ClientNext
  PROVE  OthersKeep("client")
<1>1. CASE NoSend /\ scq' = scq
  BY <1>1, NoSendSends DEF OthersKeep
<1>2. CASE ClientWriteName \/ ClientGiveUp \/ ClientSendChunk
  BY <1>2, ClientPosts
<1>3. CASE PollAny("client")
  BY <1>3, Ends, PollSame DEF OthersKeep, Same, Sends
<1>4. CASE CloseNode("client")
  BY <1>4, Ends, CloseSends
<1> QED BY <1>1, <1>2, <1>3, <1>4 DEF ClientNext, ClientArm, ClientPollBegin, ClientPrepost,
        ClientPoll, ClientOther, ClientClose, NoPoll, PollAny

LEMMA ClientPlacesStep ==
  ASSUME IInv, ClientPlaces, [Next]_vars, InTurn
  PROVE  ClientPlaces'
<1>0. VerbsTypeOK /\ Answered /\ Sends("client") \in Nat
  BY PushAnswered, SendsType, Ends DEF IInv, TypeOK
<1>1. CASE ClientNext
  <2>1. CASE ClientArm \/ ClientPrepost
    BY <1>0, <2>1, NoSendSends DEF ClientArm, ClientPrepost, NoPoll, ClientPlaces
  <2>2. CASE PollRecv("client") /\ (\/ pcC = "begin" /\ pcC' = "check"
                                    \/ pcC = "loop" /\ pcC' = "handle")
    <3>1. Sends("client")' = Sends("client") /\ Sends("client")' <= 1
      BY <1>0, <2>2, Ends, PollSends
    <3> QED BY <2>2, <3>1 DEF ClientPlaces
  <2>3. CASE PollSend("client") /\ pcC = "loop" /\ pcC' = "loop"
    <3>1. Sends("client")' = Sends("client") - 1
      BY <1>0, <2>3, Ends, PollSendCounts
    <3> QED BY <1>0, <2>3, <3>1 DEF ClientPlaces
  <2>4. CASE ClientWriteName \/ ClientGiveUp \/ ClientSendChunk
    <3>1. Sends("client")' = Sends("client") + 1 \/ Sends("client")' = Sends("client")
      BY <1>0, <2>4, ClientPosts
    <3>2. \/ pcC = "check" /\ pcC' \in {"prepost", "close"}
          \/ pcC = "handle" /\ pcC' = "loop"
      BY <2>4 DEF ClientWriteName, ClientGiveUp, ClientSendChunk
    <3> QED BY <1>0, <3>1, <3>2 DEF ClientPlaces
  <2>5. CASE ClientOther
    <3>1. Sends("client")' = Sends("client")
      BY <2>5, NoSendSends DEF ClientOther, NoPoll
    <3> QED BY <1>0, <2>5, <3>1 DEF ClientOther, ClientPlaces
  <2>6. CASE ClientClose
    BY <1>0, <2>6, Ends, CloseSends DEF ClientClose, ClientPlaces
  <2> QED BY <1>1, <2>1, <2>2, <2>3, <2>4, <2>5, <2>6
          DEF ClientNext, ClientPollBegin, ClientPoll
<1>2. CASE ServerNext
  <2>1. pcC' = pcC
    BY <1>2 DEF ServerNext, ServerStart, ServerPoll, ServerMessage, ServerEnd, ServerCreate,
       ServerRepost, ServerSave, ServerFinish, ServerDrain, ServerClose, clientVars
  <2>2. OthersKeep("server")
    BY <1>0, <1>2, ServerKeepsSends
  <2> QED BY <2>1, <2>2, Ends DEF OthersKeep, ClientPlaces
<1>3. ASSUME NEW k \in Node, Nic(NicStep(k)) PROVE ClientPlaces'
  BY <1>0, <1>3, Ends, NicKeeps DEF Nic, clientVars, ClientPlaces
<1>4. CASE UNCHANGED vars
  BY <1>4 DEF vars, verbsVars, clientVars, ClientPlaces, Sends
<1> QED BY <1>1, <1>2, <1>3, <1>4 DEF Next

LEMMA ServerPlacesStep ==
  ASSUME IInv, ServerPlaces, [Next]_vars, InTurn
  PROVE  ServerPlaces'
<1>0. VerbsTypeOK /\ Answered /\ Sends("server") \in Nat
  BY PushAnswered, SendsType, Ends DEF IInv, TypeOK
<1>1. CASE ServerNext
  <2>1. CASE ServerStart \/ ServerEnd \/ ServerCreate \/ ServerSave
    <3>1. (\E k : PostSend("server", "msg_mr", Text(k))) /\ scq' = scq
      BY <2>1 DEF ServerStart, ServerEnd, ServerCreate, ServerSave, NoPoll
    <3>2. Sends("server")' = Sends("server") + 1
      BY <1>0, <3>1, Ends, PostSends
    <3>3. \/ pcS = "start" /\ pcS' = "loop"
          \/ pcS = "imm" /\ pcS' \in {"finish", "loop"}
          \/ pcS = "save" /\ pcS' = "loop"
      BY <2>1 DEF ServerStart, ServerEnd, ServerCreate, ServerSave
    <3> QED BY <1>0, <3>2, <3>3 DEF ServerPlaces
  <2>2. CASE ServerMessage \/ ServerRepost
    <3>1. Sends("server")' = Sends("server")
      BY <2>2, NoSendSends DEF ServerMessage, ServerRepost, NoPoll
    <3>2. \/ pcS = "msg" /\ pcS' \in {"finish", "loop"}
          \/ pcS = "imm" /\ pcS' = "save"
      BY <2>2 DEF ServerMessage, ServerRepost
    <3> QED BY <1>0, <3>1, <3>2 DEF ServerPlaces
  <2>3. CASE ServerFinish
    <3>1. Sends("server")' = Sends("server") + 1 \/ Sends("server")' = Sends("server")
      <4>1. scq' = scq /\ (NoSend \/ PostSend("server", "msg_mr", Text("done")))
        BY <2>3 DEF ServerFinish, NoPoll
      <4> QED BY <1>0, <4>1, Ends, PostSends, NoSendSends
    <3>2. pcS = "finish" /\ pcS' \in {"drain", "handler"}
      BY <2>3 DEF ServerFinish
    <3> QED BY <1>0, <3>1, <3>2 DEF ServerPlaces
  <2>4. CASE PollSend("server") /\ (pcS' = pcS \/ (pcS = "drain" /\ pcS' = "handler"))
    <3>1. Sends("server")' = Sends("server") - 1 /\ Sends("server") > 0
      BY <1>0, <2>4, Ends, PollSendCounts
    <3> QED BY <1>0, <2>4, <3>1 DEF ServerPlaces
  <2>5. CASE PollRecv("server") /\ pcS' \in {"imm", "msg", "handler"}
    <3>1. Sends("server")' <= 1 /\ Sends("server")' \in Nat
      BY <1>0, <2>5, Ends, PollSends
    <3> QED BY <2>5, <3>1 DEF ServerPlaces
  <2>6. CASE ServerClose
    BY <1>0, <2>6, Ends, CloseSends DEF ServerClose, ServerPlaces
  <2> QED BY <1>1, <2>1, <2>2, <2>3, <2>4, <2>5, <2>6
          DEF ServerNext, ServerPoll, ServerDrain, PollAny
<1>2. CASE ClientNext
  <2>1. pcS' = pcS
    BY <1>2 DEF ClientNext, ClientArm, ClientPollBegin, ClientWriteName, ClientGiveUp,
       ClientPrepost, ClientPoll, ClientSendChunk, ClientOther, ClientClose, serverVars
  <2>2. OthersKeep("client")
    BY <1>0, <1>2, ClientKeepsSends
  <2> QED BY <2>1, <2>2, Ends DEF OthersKeep, ServerPlaces
<1>3. ASSUME NEW k \in Node, Nic(NicStep(k)) PROVE ServerPlaces'
  BY <1>0, <1>3, Ends, NicKeeps DEF Nic, serverVars, ServerPlaces
<1>4. CASE UNCHANGED vars
  BY <1>4 DEF vars, verbsVars, serverVars, ServerPlaces, Sends
<1> QED BY <1>1, <1>2, <1>3, <1>4 DEF Next

\* The queue pair and the completion queue of either side are never asked to hold
\* more than src/temp/config.py makes them for, for a file of any length and any
\* loss, if the completion queues return what they hold in turn.
THEOREM QueuesFitCorrect == TurnSpec => []QueuesFitInTurn
<1> DEFINE QInv == IInv /\ ReceiveInv /\ (inTurn => ClientPlaces /\ ServerPlaces)
<1>1. TurnInit => QInv
  <2>1. ASSUME Init PROVE ClientPlaces /\ ServerPlaces
    <3>1. /\ \A n \in Node : sq[n] = <<>> /\ scq[n] = 0
          /\ pcC = "arm" /\ pcS = "start"
      BY <2>1 DEF Init, VerbsInit
    <3>2. ASSUME NEW n \in Node PROVE Sends(n) = 0
      <4>1. Len(sq[n]) = 0 /\ scq[n] = 0
        BY <3>1
      <4>2. Sends(n) = 0 + 0
        BY <4>1 DEF Sends
      <4> QED BY <4>2
    <3> QED BY <3>1, <3>2, Ends DEF ClientPlaces, ServerPlaces
  <2> QED BY <2>1, IInvInit, ReceiveInit DEF TurnInit
<1>2. QInv /\ [TurnNext]_turnVars => QInv'
  <2> SUFFICES ASSUME QInv, [TurnNext]_turnVars PROVE QInv'
    OBVIOUS
  <2>1. [Next]_vars /\ inTurn' = inTurn
    BY DEF TurnNext, turnVars
  <2>2. IInv' /\ ReceiveInv'
    BY <2>1, IInvStep, ReceiveStep
  <2>3. CASE ~ inTurn
    BY <2>1, <2>2, <2>3
  <2>4. CASE inTurn /\ InTurn
    BY <2>1, <2>2, <2>4, ClientPlacesStep, ServerPlacesStep
  <2>5. CASE UNCHANGED vars
    BY <2>1, <2>2, <2>5
       DEF vars, verbsVars, clientVars, serverVars, ClientPlaces, ServerPlaces, Sends
  <2> QED BY <2>3, <2>4, <2>5 DEF TurnNext, turnVars
<1>3. QInv => QueuesFitInTurn
  <2> SUFFICES ASSUME QInv, inTurn PROVE QueuesFit
    BY DEF QueuesFitInTurn
  <2>1. VerbsTypeOK
    BY DEF IInv, TypeOK
  <2>2. ASSUME NEW n \in Node PROVE Receives(n) <= 2
    BY Ends DEF ReceiveInv, ClientReceives, ServerReceives
  <2>3. Sends("client") <= 3 /\ Sends("server") <= 3
    BY <2>1, Ends, SendsType DEF ClientPlaces, ServerPlaces
  <2>4. \A n \in Node : Sends(n) <= 3
    BY <2>3, Ends
  <2> QED BY <2>1, <2>2, <2>4, WithinLimits
<1> QED BY <1>1, <1>2, <1>3, PTL DEF TurnSpec
=============================================================================
