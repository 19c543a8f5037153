-------------------------- MODULE PullFile_proofs --------------------------
(***************************************************************************)
(* Proofs about the pull of a file, for any number of chunks and any       *)
(* number of lost messages.                                                *)
(***************************************************************************)
EXTENDS PullFile, Verbs_proofs

-----------------------------------------------------------------------------
(* The inductive invariant behind the pull's safety properties. Its core   *)
(* is that at most one message is on its way, in one of the two            *)
(* directions, and none while a process has one in hand; the rest says     *)
(* which message that can be and how many receives are posted at each      *)
(* place.                                                                  *)

\* The messages that can be on their way to the client, and to the server.
ForClient(l) ==
  \/ l = Sent("begin") /\ pcC = "begin" /\ pcS \in {"pollA", "pollB"}
  \/ /\ l = Sent("err") /\ ~ canOpen
     /\ pcC \in {"prepost", "loop"} /\ pcS = "handler"
  \/ /\ l = Written(Chunk(pos), 1) /\ pos = Len(dst) + 1
     /\ pcC \in {"prepost", "loop"} /\ pcS \in {"prepost", "loop"}
  \/ /\ l = EmptyWrite /\ pos = NumChunks /\ Len(dst) = NumChunks
     /\ pcC \in {"prepost", "loop"} /\ pcS \in {"prepost", "loop"}

ForServer(l) ==
  \/ /\ l = Written(Text("name"), 1)
     /\ pcC \in {"prepost", "loop"} /\ pcS \in {"pollA", "pollB"}
  \/ /\ l = Sent("ready") /\ pos = Len(dst)
     /\ pcC = "loop" /\ pcS \in {"prepost", "loop"}
  \/ /\ l = Sent("done") /\ pos = NumChunks /\ Len(dst) = NumChunks
     /\ pcC \in {"close", "closed", "cut"} /\ pcS \in {"prepost", "loop"}

ClientRegion == IF pcC = "begin" THEN "recv_mr" ELSE "file_mr"
ServerRegion == IF pcS \in {"start", "pollA", "pollB", "serve"} THEN "file_mr" ELSE "recv_mr"

OneMessage ==
  /\ \/ Idle("client")
     \/ \E l \in {Sent("begin"), Sent("err"), Written(Chunk(pos), 1), EmptyWrite} :
           ForClient(l) /\ InFlight("client", ClientRegion, l)
  /\ \/ Idle("server")
     \/ \E l \in {Written(Text("name"), 1), Sent("ready"), Sent("done")} :
           ForServer(l) /\ InFlight("server", ServerRegion, l)
  /\ Idle("client") \/ Idle("server")

ClientHolds == pcC \in {"check", "msg", "imm", "save"}
ServerHolds == \/ pcS \in {"start", "serve", "repost", "handle"}
               \/ pcS = "pollB" /\ wcS # "SEND"

InHand ==
  /\ ClientHolds \/ ServerHolds => Idle("client") /\ Idle("server")
  /\ ~ (ClientHolds /\ ServerHolds)
  /\ pcC = "check" => mem["client"]["recv_mr"] = Text("begin")
  /\ pcC = "msg"   => mem["client"]["file_mr"] = Text("err")
  /\ pcC \in {"imm", "save"} => pcS \in {"prepost", "loop"}
  /\ pcC = "imm" /\ immC = 0 => pos = NumChunks /\ Len(dst) = NumChunks
  /\ (pcC = "imm" /\ immC # 0) \/ pcC = "save" =>
       mem["client"]["file_mr"] = Chunk(pos) /\ pos = Len(dst) + 1
  /\ pcS \in {"repost", "handle"} =>
       /\ pos = Len(dst)
       /\ \/ mem["server"]["recv_mr"] = Text("ready") /\ pcC = "loop"
          \/ mem["server"]["recv_mr"] = Text("done") /\ pos = NumChunks

Progress ==
  /\ \A i \in 1..Len(dst) : dst[i] = i
  /\ Len(dst) <= pos
  /\ pcC \in {"begin", "check"} => pcS \in {"start", "pollA", "pollB"}
  /\ pcS \in {"start", "pollA", "pollB", "serve"} => pos = 0
  /\ pcS = "start" => pcC = "begin"
  /\ pcS = "serve" \/ (pcS = "pollB" /\ wcS # "SEND") => pcC \in {"prepost", "loop"}
  /\ doneS => Len(dst) = NumChunks

Posted ==
  /\ AllPosted("client", ClientRegion) /\ AllPosted("server", ServerRegion)
  /\ Receives("client") = IF pcC \in {"begin", "loop", "save"} THEN 1 ELSE 0
  /\ pcS # "handler" =>
       Receives("server") = IF \/ pcS \in {"pollA", "loop", "handle"}
                               \/ pcS = "pollB" /\ wcS = "SEND" THEN 1 ELSE 0
  /\ pcS = "start" => Sends("server") = 0
  /\ pcS = "pollA" => Sends("server") = 1
  /\ pcS = "pollB" /\ wcS = "SEND" => Sends("server") = 0

\* The strengthening of the pull's safety properties: inductive as it stands.
IInv == TypeOK /\ OneMessage /\ InHand /\ Progress /\ Posted

-----------------------------------------------------------------------------
(* The proofs. *)

LEMMA Constants ==
  /\ Node = {"client", "server"}
  /\ "client" \in Node /\ "server" \in Node
  /\ Peer["client"] = "server" /\ Peer["server"] = "client"
  /\ Node \ {"client"} = {"server"} /\ Node \ {"server"} = {"client"}
  /\ NumChunks \in Nat /\ MaxLoss \in Nat
  /\ Paired
BY PullAssumption, VerbsAssumption DEF Paired

-----------------------------------------------------------------------------
(* Type correctness. *)

LEMMA TypeInit == Init => TypeOK
<1> SUFFICES ASSUME Init PROVE TypeOK
  OBVIOUS
<1>1. <<"recv_mr">> \in Seq(Region) /\ \A S : <<>> \in Seq(S)
  BY DEF Region
<1>2. rq \in [Node -> Seq(Region)]
  BY <1>1 DEF Init, VerbsInit
<1>3. mem \in [Node -> [Part -> Payload]]
  BY PayloadFacts DEF Init, VerbsInit, Nothing
<1>4. VerbsTypeOK
  BY <1>1, <1>2, <1>3, Constants DEF Init, VerbsInit, VerbsTypeOK
<1>5. dst \in Seq(Nat) /\ pos \in 0..NumChunks /\ immC \in 0..1
  BY <1>1, Constants DEF Init
<1>6. /\ pcC = "begin" /\ pcS = "start" /\ canOpen \in BOOLEAN
      /\ wcS = "none" /\ doneS = FALSE
  BY DEF Init
<1> QED BY <1>4, <1>5, <1>6 DEF TypeOK

LEMMA ClientTypeStep ==
  ASSUME TypeOK, ClientNext
  PROVE  TypeOK'
<1> USE Constants, PayloadFacts DEF TypeOK, Region, serverVars
<1>0. VerbsTypeOK /\ UNCHANGED serverVars
  BY DEF ClientNext
<1>1. CASE ClientPollBegin /\ UNCHANGED <<immC, dst>>
  BY <1>0, <1>1, PollType DEF ClientPollBegin, PollAny, Moves
<1>2. CASE ClientCheck /\ UNCHANGED <<immC, dst>>
  <2>1. CASE PostWrite("client", "msg_mr", Text("name"), 1)
    BY <1>0, <1>2, <2>1, WriteType DEF ClientCheck, NoRecv, NoPoll, VerbsTypeOK, Moves
  <2>2. CASE NoSend
    BY <1>0, <1>2, <2>2 DEF ClientCheck, NoSend, NoRecv, NoPoll, VerbsTypeOK, Moves
  <2> QED BY <1>2, <2>1, <2>2 DEF ClientCheck
<1>3. CASE ClientPrepost /\ UNCHANGED <<immC, dst>>
  BY <1>0, <1>3, PostRecvType DEF ClientPrepost, ClientPreposts, NoSend, NoPoll, VerbsTypeOK, Moves
<1>4. CASE ClientPoll /\ UNCHANGED dst
  <2>1. CASE PollSend("client") /\ Moves(pcC, "loop", "loop") /\ UNCHANGED immC
    BY <1>0, <1>4, <2>1, PollType DEF PollAny, Moves
  <2>2. CASE PollRecv("client") /\ immC' = Head(rcq["client"]).imm /\ pcC' \in {"imm", "msg"}
    <3>1. Head(rcq["client"]) \in Completion
      BY <2>2, TailFacts DEF PollRecv, VerbsTypeOK
    <3>2. immC' \in 0..1
      BY <2>2, <3>1 DEF Completion
    <3> QED BY <1>0, <1>4, <2>2, <3>2, PollType DEF PollAny
  <2> QED BY <1>4, <2>1, <2>2 DEF ClientPoll, Moves
<1>5. CASE ClientMessage /\ UNCHANGED <<immC, dst>>
  BY <1>0, <1>5 DEF ClientMessage, NoRecv, NoSend, NoPoll, VerbsTypeOK, Moves
<1>6. CASE ClientEnd /\ UNCHANGED <<immC, dst>>
  BY <1>0, <1>6, SendType DEF ClientEnd, NoRecv, NoPoll, VerbsTypeOK, Moves
<1>7. CASE ClientRepost /\ UNCHANGED <<immC, dst>>
  BY <1>0, <1>7, PostRecvType DEF ClientRepost, ClientReposts, NoSend, NoPoll, VerbsTypeOK, Moves
<1>8. CASE ClientSave /\ UNCHANGED immC
  <2>1. mem["client"]["file_mr"].idx \in Nat
    BY DEF VerbsTypeOK, Payload, Region, Part
  <2>2. dst' \in Seq(Nat)
    BY <1>8, <2>1, AppendFacts DEF ClientSave, ClientSaves
  <2> QED BY <1>0, <1>8, <2>2, SendType DEF ClientSave, ClientSaves, NoRecv, NoPoll,
          VerbsTypeOK, Moves
<1>9. CASE ClientClose /\ UNCHANGED <<immC, dst>>
  <2>1. VerbsTypeOK'
    BY <1>0, <1>9, CloseType DEF ClientClose
  <2> QED BY <1>0, <1>9, <2>1 DEF ClientClose, Moves
<1> QED BY <1>1, <1>2, <1>3, <1>4, <1>5, <1>6, <1>7, <1>8, <1>9 DEF ClientNext

LEMMA WriteNextType ==
  ASSUME TypeOK, WriteNext
  PROVE  /\ mem' \in [Node -> [Part -> Payload]] /\ sq' \in [Node -> Seq(WorkRequest)]
         /\ pos' \in 0..NumChunks
<1> USE Constants, PayloadFacts DEF TypeOK, Region
<1>1. CASE pos < NumChunks /\ WriteChunk
  <2>1. Chunk(pos + 1) \in Payload /\ pos' \in 0..NumChunks
    BY <1>1 DEF WriteChunk
  <2> QED BY <1>1, <2>1, WriteType DEF WriteChunk
<1>2. CASE pos = NumChunks /\ pos' = pos /\ PostEmptyWrite("server", "file_mr")
  BY <1>2, EmptyWriteType
<1> QED BY <1>1, <1>2 DEF WriteNext

LEMMA ServerTypeStep ==
  ASSUME TypeOK, ServerNext
  PROVE  TypeOK'
<1> USE Constants, PayloadFacts DEF TypeOK, Region, clientVars
<1>0. VerbsTypeOK /\ UNCHANGED <<clientVars, canOpen>>
  BY DEF ServerNext
<1>1. CASE ServerStart /\ UNCHANGED <<pos, wcS, doneS>>
  BY <1>0, <1>1, PostRecvType, SendType DEF ServerStart, Welcome, NoPoll, VerbsTypeOK, Moves
<1>2. CASE ServerPollTwice /\ UNCHANGED <<pos, doneS>>
  <2>1. wcS' \in {"SEND", "RECV", "RECV_IMM"}
    <3>1. CASE PollRecv("server") /\ wcS' = Head(rcq["server"]).op
      <4>1. Head(rcq["server"]) \in Completion
        BY <3>1, TailFacts DEF PollRecv, VerbsTypeOK
      <4> QED BY <3>1, <4>1 DEF Completion
    <3> QED BY <1>2, <3>1 DEF ServerPollTwice
  <2>2. VerbsTypeOK'
    BY <1>2, PollType DEF ServerPollTwice, PollAny
  <2> QED BY <1>0, <1>2, <2>1, <2>2 DEF ServerPollTwice, Moves
<1>3. CASE ServerOpen /\ UNCHANGED <<wcS, doneS>>
  <2>1. CASE WriteNext /\ Moves(pcS, "serve", "prepost")
    BY <1>0, <1>3, <2>1, WriteNextType DEF ServerOpen, ServerOpens, NoRecv, NoPoll,
       VerbsTypeOK, Moves
  <2>2. CASE PostSend("server", "msg_mr", Text("err")) /\ pos' = pos /\ Moves(pcS, "serve", "handler")
    BY <1>0, <1>3, <2>2, SendType DEF ServerOpen, ServerOpens, NoRecv, NoPoll,
       VerbsTypeOK, Moves
  <2> QED BY <1>3, <2>1, <2>2 DEF ServerOpen, ServerOpens
<1>4. CASE ServerPrepost /\ UNCHANGED <<pos, wcS, doneS>>
  BY <1>0, <1>4, PostRecvType DEF ServerPrepost, NoSend, NoPoll, VerbsTypeOK, Moves
<1>5. CASE ServerPoll /\ UNCHANGED <<pos, wcS, doneS>>
  BY <1>0, <1>5, PollType DEF ServerPoll, AwaitRecv, PollAny, Moves
<1>6. CASE ServerRepost /\ UNCHANGED <<pos, wcS, doneS>>
  BY <1>0, <1>6, PostRecvType DEF ServerRepost, NoSend, NoPoll, VerbsTypeOK, Moves
<1>7. CASE ServerSendChunk /\ UNCHANGED <<wcS, doneS>>
  BY <1>0, <1>7, WriteNextType DEF ServerSendChunk, ServerSends, NoRecv, NoPoll,
     VerbsTypeOK, Moves
<1>8. CASE ServerOther /\ UNCHANGED <<pos, wcS>>
  BY <1>0, <1>8 DEF ServerOther, NoRecv, NoSend, NoPoll, VerbsTypeOK, Moves
<1>9. CASE ServerClose /\ UNCHANGED <<pos, wcS, doneS>>
  BY <1>0, <1>9, CloseType DEF ServerClose, Moves
<1> QED BY <1>1, <1>2, <1>3, <1>4, <1>5, <1>6, <1>7, <1>8, <1>9 DEF ServerNext

LEMMA TypeStep ==
  ASSUME TypeOK, [Next]_vars
  PROVE  TypeOK'
<1>1. CASE ClientNext
  BY <1>1, ClientTypeStep
<1>2. CASE ServerNext
  BY <1>2, ServerTypeStep
<1>3. ASSUME NEW n \in Node, Nic(NicStep(n)) PROVE TypeOK'
  BY <1>3, NicType DEF Nic, TypeOK, clientVars, serverVars
<1>4. CASE UNCHANGED vars
  BY <1>4 DEF vars, verbsVars, clientVars, serverVars, TypeOK, VerbsTypeOK
<1> QED BY <1>1, <1>2, <1>3, <1>4 DEF Next

\* Every variable of the pull keeps its type: in particular the server never
\* reads past the end of its file.
THEOREM TypeCorrect == Spec => []TypeOK
<1>1. Init => TypeOK
  BY TypeInit
<1>2. TypeOK /\ [Next]_vars => TypeOK'
  BY TypeStep
<1> QED BY <1>1, <1>2, PTL DEF Spec

-----------------------------------------------------------------------------
(* The inductive invariant. *)

LEMMA InitIInv == Init => IInv
<1> SUFFICES ASSUME Init PROVE IInv
  OBVIOUS
<1>1. TypeOK
  BY TypeInit
<1>2. /\ \A n \in Node : sq[n] = <<>> /\ wire[n] = <<>> /\ rcq[n] = <<>> /\ scq[n] = 0
      /\ rq["client"] = <<"recv_mr">> /\ rq["server"] = <<>>
      /\ pcC = "begin" /\ pcS = "start" /\ dst = <<>> /\ pos = 0 /\ doneS = FALSE
  BY Constants DEF Init, VerbsInit
<1>3. Idle("client") /\ Idle("server")
  BY <1>2, Constants DEF Idle
<1>4. Posted
  BY <1>2, Constants DEF Posted, AllPosted, Receives, Sends, ClientRegion
<1>5. OneMessage /\ InHand /\ Progress
  BY <1>2, <1>3 DEF OneMessage, InHand, Progress, ClientHolds
<1> QED BY <1>1, <1>4, <1>5 DEF IInv

LEMMA StepNic ==
  ASSUME IInv, TypeOK', NEW k \in Node, Nic(NicStep(k))
  PROVE  IInv'
<1>1. /\ UNCHANGED <<pcC, immC, dst, pcS, canOpen, pos, wcS, doneS>>
      /\ NicStep(k) /\ VerbsTypeOK /\ pos \in Nat
  BY Constants DEF Nic, clientVars, serverVars, IInv, TypeOK
<1>2. \A n \in {"client", "server"} :
        /\ Receives(n)' = Receives(n) /\ Sends(n)' = Sends(n)
        /\ \A r : AllPosted(n, r) => AllPosted(n, r)'
        /\ Idle(n) => Idle(n)'
        /\ Idle(n) => mem'[n] = mem[n]
  BY <1>1, NicKeeps, Constants DEF Idle
<1>3. OneMessage'
  <2>1. ASSUME ~ Idle("client")'
        PROVE  \E l \in {Sent("begin"), Sent("err"), Written(Chunk(pos), 1), EmptyWrite} :
                  ForClient(l) /\ InFlight("client", ClientRegion, l)'
    <3>1. ~ Idle("client")
      BY <1>2, <2>1
    <3>2. PICK l \in {Sent("begin"), Sent("err"), Written(Chunk(pos), 1), EmptyWrite} :
            ForClient(l) /\ InFlight("client", ClientRegion, l)
      BY <3>1 DEF IInv, OneMessage
    <3>3. l \in Message
      BY <1>1, LetterFacts, PayloadFacts
    <3>4. wire["server"] = <<>> /\ AllPosted("client", ClientRegion)
      BY <3>1 DEF IInv, OneMessage, Posted, Idle
    <3>5. PICK r : r = ClientRegion
      OBVIOUS
    <3>6. InFlight("client", r, l)'
      BY <1>1, <2>1, <3>2, <3>3, <3>4, <3>5, NicInFlight, Constants
    <3>7. ClientRegion' = r
      BY <1>1, <3>5 DEF ClientRegion
    <3> QED BY <3>2, <3>6, <3>7
  <2>2. ASSUME ~ Idle("server")'
        PROVE  \E l \in {Written(Text("name"), 1), Sent("ready"), Sent("done")} :
                  ForServer(l) /\ InFlight("server", ServerRegion, l)'
    <3>1. ~ Idle("server")
      BY <1>2, <2>2
    <3>2. PICK l \in {Written(Text("name"), 1), Sent("ready"), Sent("done")} :
            ForServer(l) /\ InFlight("server", ServerRegion, l)
      BY <3>1 DEF IInv, OneMessage
    <3>3. l \in Message
      BY <1>1, LetterFacts, PayloadFacts
    <3>4. wire["client"] = <<>> /\ AllPosted("server", ServerRegion)
      BY <3>1 DEF IInv, OneMessage, Posted, Idle
    <3>5. PICK r : r = ServerRegion
      OBVIOUS
    <3>6. InFlight("server", r, l)'
      BY <1>1, <2>2, <3>2, <3>3, <3>4, <3>5, NicInFlight, Constants
    <3>7. ServerRegion' = r
      BY <1>1, <3>5 DEF ServerRegion
    <3> QED BY <3>2, <3>6, <3>7
  <2>3. Idle("client")' \/ Idle("server")'
    BY <1>2 DEF IInv, OneMessage
  <2> QED BY <1>1, <2>1, <2>2, <2>3 DEF OneMessage, ForClient, ForServer
<1>4. InHand'
  BY <1>1, <1>2 DEF IInv, InHand, ClientHolds, ServerHolds
<1>5. Progress'
  BY <1>1 DEF IInv, Progress
<1>6. Posted'
  BY <1>1, <1>2 DEF IInv, Posted, ClientRegion, ServerRegion
<1> QED BY <1>3, <1>4, <1>5, <1>6 DEF IInv

\* While a process has a message in hand, or once nothing is on its way, the step
\* of a process leaves nothing on its way but what it posts.
LEMMA Quiet ==
  ASSUME Idle("client")', Idle("server")'
  PROVE  OneMessage'
BY DEF OneMessage

\* A receive that the client polls, and one that the server polls.
LEMMA ClientReceives ==
  ASSUME IInv, PollRecv("client")
  PROVE  /\ \E l \in {Sent("begin"), Sent("err"), Written(Chunk(pos), 1), EmptyWrite} :
              ForClient(l) /\ IsReceived("client", ClientRegion, l)
         /\ ~ Idle("client") /\ ~ ClientHolds /\ ~ ServerHolds
         /\ Idle("client")' /\ Idle("server")'
         /\ UNCHANGED <<mem, scq>>
<1>1. VerbsTypeOK /\ "client" \in Node /\ "server" \in Node
  BY Constants DEF IInv, TypeOK
<1>2. rcq["client"] # <<>>
  BY <1>1, PollRecvEffect
<1>3. ~ Idle("client")
  BY <1>2 DEF Idle
<1>4. Idle("server") /\ ~ ClientHolds /\ ~ ServerHolds
  BY <1>3 DEF IInv, OneMessage, InHand
<1>5. PICK l \in {Sent("begin"), Sent("err"), Written(Chunk(pos), 1), EmptyWrite} :
        ForClient(l) /\ InFlight("client", ClientRegion, l)
  BY <1>3 DEF IInv, OneMessage
<1>6. IsReceived("client", ClientRegion, l) /\ Idle("client")' /\ UNCHANGED <<mem, scq>>
  BY <1>1, <1>5, PollRecvEffect
<1>7. Idle("server")'
  BY <1>1, <1>4, PollCounts
<1> QED BY <1>3, <1>4, <1>5, <1>6, <1>7

LEMMA ServerReceives ==
  ASSUME IInv, PollRecv("server")
  PROVE  /\ \E l \in {Written(Text("name"), 1), Sent("ready"), Sent("done")} :
              ForServer(l) /\ IsReceived("server", ServerRegion, l)
         /\ ~ Idle("server") /\ ~ ClientHolds /\ ~ ServerHolds
         /\ Idle("client")' /\ Idle("server")'
         /\ UNCHANGED <<mem, scq>>
<1>1. VerbsTypeOK /\ "client" \in Node /\ "server" \in Node
  BY Constants DEF IInv, TypeOK
<1>2. rcq["server"] # <<>>
  BY <1>1, PollRecvEffect
<1>3. ~ Idle("server")
  BY <1>2 DEF Idle
<1>4. Idle("client") /\ ~ ClientHolds /\ ~ ServerHolds
  BY <1>3 DEF IInv, OneMessage, InHand
<1>5. PICK l \in {Written(Text("name"), 1), Sent("ready"), Sent("done")} :
        ForServer(l) /\ InFlight("server", ServerRegion, l)
  BY <1>3 DEF IInv, OneMessage
<1>6. IsReceived("server", ServerRegion, l) /\ Idle("server")' /\ UNCHANGED <<mem, scq>>
  BY <1>1, <1>5, PollRecvEffect
<1>7. Idle("client")'
  BY <1>1, <1>4, PollCounts
<1> QED BY <1>3, <1>4, <1>5, <1>6, <1>7

LEMMA LettersApart ==
  /\ \A k, j : Sent(k) = Sent(j) <=> k = j
  /\ \A k, p, i : Sent(k) # Written(p, i) /\ Sent(k) # EmptyWrite
  /\ \A p, i : Written(p, i) # EmptyWrite
  /\ \A p, q, i, j : Written(p, i) = Written(q, j) <=> p = q /\ i = j
  /\ \A k : Sent(k).op = "SEND" /\ Sent(k).len = 1 /\ Sent(k).imm = 0 /\ Sent(k).data = Text(k)
  /\ \A p, i : /\ Written(p, i).op = "WRITE_IMM" /\ Written(p, i).len = 1
               /\ Written(p, i).imm = i /\ Written(p, i).data = p
  /\ EmptyWrite.op = "WRITE_IMM" /\ EmptyWrite.len = 0 /\ EmptyWrite.imm = 0
  /\ \A k, j : Text(k) = Text(j) <=> k = j
BY DEF Sent, Written, EmptyWrite, Text

LEMMA StepPollBegin ==
  ASSUME IInv, TypeOK', ClientPollBegin, UNCHANGED <<immC, dst>>, UNCHANGED serverVars
  PROVE  IInv'
<1>1. /\ pcC = "begin" /\ pcC' = "check" /\ PollRecv("client")
      /\ UNCHANGED <<immC, dst, pcS, canOpen, pos, wcS, doneS>>
      /\ VerbsTypeOK /\ "client" \in Node /\ "server" \in Node \ {"client"}
  BY Constants DEF ClientPollBegin, Moves, serverVars, IInv, TypeOK
<1>2. /\ ~ ServerHolds /\ Idle("client")' /\ Idle("server")' /\ UNCHANGED <<mem, scq>>
  BY <1>1, ClientReceives
<1>3. mem'["client"]["recv_mr"] = Text("begin") /\ pcS \in {"pollA", "pollB"}
  <2>1. PICK l \in {Sent("begin"), Sent("err"), Written(Chunk(pos), 1), EmptyWrite} :
          ForClient(l) /\ IsReceived("client", ClientRegion, l)
    BY <1>1, ClientReceives
  <2>2. l = Sent("begin") /\ pcS \in {"pollA", "pollB"}
    BY <1>1, <2>1, LettersApart DEF ForClient
  <2> QED BY <1>1, <1>2, <2>1, <2>2, LettersApart DEF IsReceived, Filled, ClientRegion
<1>4. OneMessage'
  BY <1>2, Quiet
<1>5. InHand'
  BY <1>1, <1>2, <1>3 DEF InHand, ClientHolds, ServerHolds
<1>6. Progress'
  BY <1>1, <1>3 DEF IInv, Progress
<1>7. Posted'
  <2>1. Receives("client") = 1 /\ ClientRegion = "recv_mr"
    BY <1>1 DEF IInv, Posted, ClientRegion
  <2>2. /\ Receives("client")' = 0 /\ \A s : AllPosted("client", s)'
        /\ Receives("server")' = Receives("server") /\ Sends("server")' = Sends("server")
        /\ \A s : AllPosted("server", s) => AllPosted("server", s)'
    BY <1>1, <2>1, PollCounts
  <2> QED BY <1>1, <2>2 DEF IInv, Posted, ServerRegion
<1> QED BY <1>4, <1>5, <1>6, <1>7 DEF IInv

\* The client always finds BEGIN, so the ELSE branch is never taken.
LEMMA StepCheck ==
  ASSUME IInv, TypeOK', ClientCheck, UNCHANGED <<immC, dst>>, UNCHANGED serverVars
  PROVE  IInv'
<1>1. /\ pcC = "check" /\ VerbsTypeOK /\ Paired
      /\ "client" \in Node /\ "server" \in Node /\ Peer["client"] = "server"
      /\ "msg_mr" \in Region
      /\ UNCHANGED <<immC, dst, pcS, canOpen, pos, wcS, doneS>>
  BY Constants DEF ClientCheck, Moves, serverVars, IInv, TypeOK, Region
<1>2. /\ ~ ServerHolds /\ Idle("client") /\ Idle("server")
      /\ mem["client"]["recv_mr"] = Text("begin") /\ pcS \in {"pollA", "pollB"}
  BY <1>1 DEF IInv, InHand, ClientHolds, Progress, ServerHolds
<1>3. /\ pcC' = "prepost" /\ NoRecv /\ NoPoll
      /\ PostWrite("client", "msg_mr", Text("name"), 1)
  BY <1>1, <1>2 DEF ClientCheck, Moves
<1>4. /\ IsQueued("server", Written(Text("name"), 1))' /\ Idle("client")'
      /\ mem'["server"] = mem["server"]
      /\ Sends("server")' = Sends("server")
  BY <1>1, <1>2, <1>3, WriteAnswer
<1>5. OneMessage'
  BY <1>1, <1>2, <1>3, <1>4 DEF OneMessage, ForServer, InFlight
<1>6. InHand'
  BY <1>1, <1>2, <1>3 DEF InHand, ClientHolds, ServerHolds
<1>7. Progress'
  BY <1>1, <1>2, <1>3 DEF IInv, Progress
<1>8. Posted'
  BY <1>1, <1>3, <1>4 DEF IInv, Posted, ClientRegion, ServerRegion, NoRecv, NoPoll, Receives,
     AllPosted
<1> QED BY <1>5, <1>6, <1>7, <1>8 DEF IInv

\* A step that touches no queue and no region leaves the messages on their way.
LEMMA OneMessageKept ==
  ASSUME OneMessage, UNCHANGED <<sq, wire, rcq, mem>>, pos' = pos,
         ClientRegion' = ClientRegion, ServerRegion' = ServerRegion,
         \A l : ForClient(l) => ForClient(l)', \A l : ForServer(l) => ForServer(l)'
  PROVE  OneMessage'
<1>1. \A n : Idle(n)' <=> Idle(n)
  BY MailKept
<1>2. ASSUME ~ Idle("client")
      PROVE  \E l \in {Sent("begin"), Sent("err"), Written(Chunk(pos), 1), EmptyWrite} :
                ForClient(l)' /\ InFlight("client", ClientRegion, l)'
  <2>1. PICK l \in {Sent("begin"), Sent("err"), Written(Chunk(pos), 1), EmptyWrite} :
          ForClient(l) /\ InFlight("client", ClientRegion, l)
    BY <1>2 DEF OneMessage
  <2>2. PICK r : r = ClientRegion
    OBVIOUS
  <2>3. InFlight("client", r, l)' /\ ClientRegion' = r
    BY <2>1, <2>2, MailKept
  <2> QED BY <2>1, <2>3
<1>3. ASSUME ~ Idle("server")
      PROVE  \E l \in {Written(Text("name"), 1), Sent("ready"), Sent("done")} :
                ForServer(l)' /\ InFlight("server", ServerRegion, l)'
  <2>1. PICK l \in {Written(Text("name"), 1), Sent("ready"), Sent("done")} :
          ForServer(l) /\ InFlight("server", ServerRegion, l)
    BY <1>3 DEF OneMessage
  <2>2. PICK r : r = ServerRegion
    OBVIOUS
  <2>3. InFlight("server", r, l)' /\ ServerRegion' = r
    BY <2>1, <2>2, MailKept
  <2> QED BY <2>1, <2>3
<1> QED BY <1>1, <1>2, <1>3 DEF OneMessage

LEMMA StepPrepost ==
  ASSUME IInv, TypeOK', ClientPrepost, UNCHANGED <<immC, dst>>, UNCHANGED serverVars
  PROVE  IInv'
<1>1. /\ pcC = "prepost" /\ pcC' = "loop" /\ PostRecv("client", "file_mr")
      /\ UNCHANGED <<immC, dst, pcS, canOpen, pos, wcS, doneS, sq, mem, wire, rcq, scq>>
      /\ VerbsTypeOK /\ "client" \in Node /\ "server" \in Node \ {"client"}
      /\ "file_mr" \in Region
  BY Constants DEF ClientPrepost, ClientPreposts, Moves, NoSend, NoPoll, serverVars, IInv,
     TypeOK, Region
<1>2. OneMessage'
  BY <1>1, OneMessageKept DEF IInv, ForClient, ForServer, ClientRegion, ServerRegion
<1>3. InHand'
  BY <1>1, MailKept DEF IInv, InHand, ClientHolds, ServerHolds
<1>4. Progress'
  BY <1>1 DEF IInv, Progress
<1>5. Posted'
  BY <1>1, PostCounts DEF IInv, Posted, ClientRegion, ServerRegion, Sends
<1> QED BY <1>2, <1>3, <1>4, <1>5 DEF IInv

LEMMA StepClientPoll ==
  ASSUME IInv, TypeOK', ClientPoll, dst' = dst, UNCHANGED serverVars
  PROVE  IInv'
<1>1. /\ pcC = "loop" /\ UNCHANGED <<dst, pcS, canOpen, pos, wcS, doneS>>
      /\ VerbsTypeOK /\ "client" \in Node /\ "server" \in Node \ {"client"}
  BY Constants DEF ClientPoll, Moves, serverVars, IInv, TypeOK
<1>2. CASE PollSend("client") /\ pcC' = "loop" /\ immC' = immC
  <2>1. /\ UNCHANGED <<sq, rq, rcq, mem, wire>>
        /\ Receives("client")' = Receives("client") /\ Receives("server")' = Receives("server")
        /\ Sends("server")' = Sends("server")
    BY <1>1, <1>2, PollSendCounts
  <2>2. OneMessage'
    BY <1>1, <1>2, <2>1, OneMessageKept DEF IInv, ForClient, ForServer, ClientRegion, ServerRegion
  <2>3. InHand'
    BY <1>1, <1>2, <2>1, MailKept DEF IInv, InHand, ClientHolds, ServerHolds
  <2>4. Progress'
    BY <1>1, <1>2 DEF IInv, Progress
  <2>5. Posted'
    BY <1>1, <1>2, <2>1 DEF IInv, Posted, ClientRegion, ServerRegion, AllPosted
  <2> QED BY <2>2, <2>3, <2>4, <2>5 DEF IInv
<1>3. CASE /\ PollRecv("client") /\ immC' = Head(rcq["client"]).imm
           /\ pcC' = IF Head(rcq["client"]).op = "RECV_IMM" THEN "imm" ELSE "msg"
  <2>1. /\ ~ ServerHolds /\ Idle("client")' /\ Idle("server")' /\ UNCHANGED <<mem, scq>>
    BY <1>3, ClientReceives
  <2>2. PICK l \in {Sent("begin"), Sent("err"), Written(Chunk(pos), 1), EmptyWrite} :
          ForClient(l) /\ IsReceived("client", ClientRegion, l)
    BY <1>3, ClientReceives
  <2>3. /\ Head(rcq["client"]).op = (IF l.op = "SEND" THEN "RECV" ELSE "RECV_IMM")
        /\ Head(rcq["client"]).imm = l.imm
        /\ l.len = 1 => mem["client"]["file_mr"] = l.data
    BY <1>1, <2>2 DEF IsReceived, Filled, ClientRegion
  <2>4. \/ pcC' = "msg" /\ mem'["client"]["file_mr"] = Text("err")
        \/ /\ pcC' = "imm" /\ immC' = 1 /\ pcS \in {"prepost", "loop"}
           /\ mem'["client"]["file_mr"] = Chunk(pos) /\ pos = Len(dst) + 1
        \/ /\ pcC' = "imm" /\ immC' = 0 /\ pcS \in {"prepost", "loop"}
           /\ pos = NumChunks /\ Len(dst) = NumChunks
    <3>1. CASE l = Sent("begin")
      BY <1>1, <2>2, <3>1, LettersApart DEF ForClient
    <3>2. CASE l = Sent("err")
      BY <1>3, <2>1, <2>3, <3>2, LettersApart
    <3>3. CASE l = Written(Chunk(pos), 1)
      <4>1. pos = Len(dst) + 1 /\ pcS \in {"prepost", "loop"}
        BY <2>2, <3>3, LettersApart DEF ForClient
      <4> QED BY <1>3, <2>1, <2>3, <3>3, <4>1, LettersApart
    <3>4. CASE l = EmptyWrite
      <4>1. pos = NumChunks /\ Len(dst) = NumChunks /\ pcS \in {"prepost", "loop"}
        BY <2>2, <3>4, LettersApart DEF ForClient
      <4> QED BY <1>3, <2>1, <2>3, <3>4, <4>1, LettersApart
    <3> QED BY <2>2, <3>1, <3>2, <3>3, <3>4
  <2>5. OneMessage'
    BY <2>1, Quiet
  <2>6. InHand'
    BY <1>1, <2>1, <2>4 DEF IInv, InHand, ClientHolds, ServerHolds
  <2>7. Progress'
    BY <1>1, <2>1, <2>4 DEF IInv, Progress, ServerHolds
  <2>8. Posted'
    <3>1. Receives("client") = 1
      BY <1>1 DEF IInv, Posted
    <3>2. /\ Receives("client")' = 0 /\ \A s : AllPosted("client", s)'
          /\ Receives("server")' = Receives("server") /\ Sends("server")' = Sends("server")
          /\ \A s : AllPosted("server", s) => AllPosted("server", s)'
      BY <1>1, <1>3, <3>1, PollCounts
    <3> QED BY <1>1, <2>4, <3>2 DEF IInv, Posted, ServerRegion
  <2> QED BY <2>5, <2>6, <2>7, <2>8 DEF IInv
<1> QED BY <1>2, <1>3 DEF ClientPoll, Moves

\* The only SEND that the client can receive here is the error.
LEMMA StepMessage ==
  ASSUME IInv, TypeOK', ClientMessage, UNCHANGED <<immC, dst>>, UNCHANGED serverVars
  PROVE  IInv'
<1>1. /\ pcC = "msg" /\ mem["client"]["file_mr"] = Text("err")
      /\ Idle("client") /\ Idle("server") /\ ~ ServerHolds
  BY DEF ClientMessage, Moves, IInv, InHand, ClientHolds
<1>2. /\ pcC' = "close"
      /\ UNCHANGED <<immC, dst, pcS, canOpen, pos, wcS, doneS, sq, mem, rq, wire, rcq, scq>>
  BY <1>1 DEF ClientMessage, Moves, NoSend, NoRecv, NoPoll, serverVars
<1>3. Idle("client")' /\ Idle("server")'
  BY <1>1, <1>2, MailKept
<1>4. OneMessage'
  BY <1>3, Quiet
<1>5. InHand'
  BY <1>1, <1>2, <1>3 DEF InHand, ClientHolds, ServerHolds
<1>6. Progress'
  BY <1>1, <1>2 DEF IInv, Progress, ServerHolds
<1>7. Posted'
  BY <1>1, <1>2 DEF IInv, Posted, ClientRegion, ServerRegion, Receives, Sends, AllPosted
<1> QED BY <1>4, <1>5, <1>6, <1>7 DEF IInv

LEMMA StepEnd ==
  ASSUME IInv, TypeOK', ClientEnd, UNCHANGED <<immC, dst>>, UNCHANGED serverVars
  PROVE  IInv'
<1>1. /\ pcC = "imm" /\ immC = 0 /\ pcC' = "close" /\ NoRecv /\ NoPoll
      /\ PostSend("client", "msg_mr", Text("done"))
      /\ UNCHANGED <<immC, dst, pcS, canOpen, pos, wcS, doneS>>
  BY DEF ClientEnd, Moves, serverVars
<1>2. /\ Idle("client") /\ Idle("server") /\ ~ ServerHolds
      /\ pcS \in {"prepost", "loop"} /\ pos = NumChunks /\ Len(dst) = NumChunks
  BY <1>1 DEF IInv, InHand, ClientHolds
<1>3. /\ IsQueued("server", Sent("done"))' /\ Idle("client")'
      /\ mem'["server"] = mem["server"] /\ Sends("server")' = Sends("server")
  BY <1>1, <1>2, SendAnswer, Constants DEF IInv, TypeOK, Region
<1>4. OneMessage'
  BY <1>1, <1>2, <1>3 DEF OneMessage, ForServer, InFlight
<1>5. InHand'
  BY <1>1, <1>2, <1>3 DEF InHand, ClientHolds, ServerHolds
<1>6. Progress'
  BY <1>1, <1>2 DEF IInv, Progress
<1>7. Posted'
  BY <1>1, <1>2, <1>3 DEF IInv, Posted, ClientRegion, ServerRegion, NoRecv, NoPoll, Receives,
     AllPosted
<1> QED BY <1>4, <1>5, <1>6, <1>7 DEF IInv

LEMMA StepRepost ==
  ASSUME IInv, TypeOK', ClientRepost, UNCHANGED <<immC, dst>>, UNCHANGED serverVars
  PROVE  IInv'
<1>1. /\ pcC = "imm" /\ immC # 0 /\ pcC' = "save" /\ PostRecv("client", "file_mr")
      /\ UNCHANGED <<immC, dst, pcS, canOpen, pos, wcS, doneS, sq, mem, wire, rcq, scq>>
      /\ VerbsTypeOK /\ "client" \in Node /\ "server" \in Node \ {"client"}
      /\ "file_mr" \in Region
  BY Constants DEF ClientRepost, ClientReposts, Moves, NoSend, NoPoll, serverVars, IInv,
     TypeOK, Region
<1>2. /\ Idle("client")' /\ Idle("server")' /\ ~ ServerHolds
      /\ pcS \in {"prepost", "loop"}
      /\ mem["client"]["file_mr"] = Chunk(pos) /\ pos = Len(dst) + 1
  BY <1>1, MailKept DEF IInv, InHand, ClientHolds
<1>3. OneMessage'
  BY <1>2, Quiet
<1>4. InHand'
  BY <1>1, <1>2 DEF InHand, ClientHolds, ServerHolds
<1>5. Progress'
  BY <1>1, <1>2 DEF IInv, Progress
<1>6. Posted'
  BY <1>1, PostCounts DEF IInv, Posted, ClientRegion, ServerRegion, Sends
<1> QED BY <1>3, <1>4, <1>5, <1>6 DEF IInv

LEMMA StepSave ==
  ASSUME IInv, TypeOK', ClientSave, immC' = immC, UNCHANGED serverVars
  PROVE  IInv'
<1>1. /\ pcC = "save" /\ pcC' = "loop" /\ NoRecv /\ NoPoll
      /\ PostSend("client", "msg_mr", Text("ready"))
      /\ dst' = Append(dst, mem["client"]["file_mr"].idx)
      /\ UNCHANGED <<immC, pcS, canOpen, pos, wcS, doneS>>
  BY DEF ClientSave, ClientSaves, Moves, serverVars
<1>2. /\ Idle("client") /\ Idle("server") /\ ~ ServerHolds /\ pcS \in {"prepost", "loop"}
      /\ mem["client"]["file_mr"] = Chunk(pos) /\ pos = Len(dst) + 1
  BY <1>1 DEF IInv, InHand, ClientHolds
<1>3. /\ IsQueued("server", Sent("ready"))' /\ Idle("client")'
      /\ mem'["server"] = mem["server"] /\ Sends("server")' = Sends("server")
  BY <1>1, <1>2, SendAnswer, Constants DEF IInv, TypeOK, Region
<1>4. /\ dst' = Append(dst, Len(dst) + 1) /\ dst \in Seq(Nat) /\ pos \in Nat
      /\ Len(dst) + 1 \in Nat
  BY <1>1, <1>2, Constants DEF Chunk, IInv, TypeOK
<1>5. Len(dst') = pos /\ \A i \in 1..Len(dst') : dst'[i] = i
  BY <1>2, <1>4, AppendFacts DEF IInv, Progress
<1>6. OneMessage'
  BY <1>1, <1>2, <1>3, <1>5 DEF OneMessage, ForServer, InFlight
<1>7. InHand'
  BY <1>1, <1>2, <1>3 DEF InHand, ClientHolds, ServerHolds
<1>8. Progress'
  <2>1. ~ doneS
    BY <1>2, <1>4, Constants DEF IInv, Progress, TypeOK
  <2> QED BY <1>1, <1>2, <1>4, <1>5, <2>1 DEF Progress
<1>9. Posted'
  BY <1>1, <1>2, <1>3 DEF IInv, Posted, ClientRegion, ServerRegion, NoRecv, NoPoll, Receives,
     AllPosted
<1> QED BY <1>6, <1>7, <1>8, <1>9 DEF IInv

LEMMA StepClientClose ==
  ASSUME IInv, TypeOK', ClientClose, UNCHANGED <<immC, dst>>, UNCHANGED serverVars
  PROVE  IInv'
<1>1. /\ pcC = "close" /\ pcC' \in {"closed", "cut"} /\ CloseNode("client")
      /\ UNCHANGED <<immC, dst, pcS, canOpen, pos, wcS, doneS>>
      /\ VerbsTypeOK /\ Paired /\ "client" \in Node /\ "server" \in Node \ {"client"}
  BY Constants DEF ClientClose, Moves, serverVars, IInv, TypeOK
<1>2. Idle("client")
  BY <1>1 DEF IInv, OneMessage, ForClient
<1>3. /\ Idle("client")' /\ (Idle("server") => Idle("server")') /\ mem' = mem
      /\ Receives("client")' = 0 /\ (\A s : AllPosted("client", s)')
      /\ Sends("server")' = Sends("server") /\ Receives("server")' = Receives("server")
      /\ (\A s : AllPosted("server", s) => AllPosted("server", s)')
  <2>1. /\ \A k \in Node : Idle(k) => Idle(k)'
        /\ \A k \in Node \ {"client"} : /\ sq'[k] = sq[k] /\ rq'[k] = rq[k]
                                       /\ rcq'[k] = rcq[k] /\ scq'[k] = scq[k]
        /\ Receives("client")' = 0 /\ (\A s : AllPosted("client", s)')
        /\ mem' = mem
    BY <1>1, CloseEffect
  <2> QED BY <1>1, <1>2, <2>1 DEF Sends, Receives, AllPosted
<1>4. OneMessage'
  <2>1. ASSUME ~ Idle("server")'
        PROVE  \E l \in {Written(Text("name"), 1), Sent("ready"), Sent("done")} :
                  ForServer(l)' /\ InFlight("server", ServerRegion, l)'
    <3>1. PICK l \in {Written(Text("name"), 1), Sent("ready"), Sent("done")} :
            ForServer(l) /\ InFlight("server", ServerRegion, l)
      BY <1>3, <2>1 DEF IInv, OneMessage
    <3>2. PICK r : r = ServerRegion
      OBVIOUS
    <3>3. InFlight("server", r, l)' /\ ServerRegion' = r
      BY <1>1, <2>1, <3>1, <3>2, CloseEffect DEF ServerRegion
    <3>4. ForServer(l)'
      BY <1>1, <3>1, LettersApart DEF ForServer
    <3> QED BY <3>1, <3>3, <3>4
  <2> QED BY <1>3, <2>1 DEF OneMessage
<1>5. InHand'
  BY <1>1, <1>2, <1>3 DEF IInv, InHand, ClientHolds, ServerHolds
<1>6. Progress'
  BY <1>1 DEF IInv, Progress
<1>7. Posted'
  BY <1>1, <1>3 DEF IInv, Posted, ServerRegion
<1> QED BY <1>4, <1>5, <1>6, <1>7 DEF IInv

LEMMA StepStart ==
  ASSUME IInv, TypeOK', ServerStart, UNCHANGED <<pos, wcS, doneS>>,
         UNCHANGED <<clientVars, canOpen>>
  PROVE  IInv'
<1>1. /\ pcS = "start" /\ pcS' = "pollA" /\ PostRecv("server", "file_mr") /\ NoPoll
      /\ PostSend("server", "msg_mr", Text("begin"))
      /\ UNCHANGED <<pcC, immC, dst, canOpen, pos, wcS, doneS>>
  BY DEF ServerStart, Welcome, Moves, clientVars
<1>2. /\ VerbsTypeOK /\ Paired /\ "server" \in Node /\ "client" \in Node \ {"server"}
      /\ Peer["server"] = "client" /\ "msg_mr" \in Region /\ "file_mr" \in Region
  BY Constants DEF IInv, TypeOK, Region
<1>3. /\ Idle("client") /\ Idle("server") /\ pcC = "begin"
      /\ Receives("server") = 0 /\ Sends("server") = 0
  BY <1>1 DEF IInv, InHand, ServerHolds, Progress, Posted
<1>4. /\ IsQueued("client", Sent("begin"))' /\ Idle("server")' /\ Sends("server")' = 1
  BY <1>1, <1>2, <1>3, SendAnswer
<1>5. OneMessage'
  BY <1>1, <1>3, <1>4 DEF OneMessage, ForClient, InFlight
<1>6. InHand'
  BY <1>1, <1>3 DEF InHand, ClientHolds, ServerHolds
<1>7. Progress'
  BY <1>1, <1>3 DEF IInv, Progress
<1>8. Posted'
  BY <1>1, <1>2, <1>3, <1>4, PostCounts DEF IInv, Posted, ClientRegion, ServerRegion, NoPoll
<1> QED BY <1>5, <1>6, <1>7, <1>8 DEF IInv

\* The two polls return the completion of BEGIN and the name, in either order: a
\* third completion cannot be among them.
LEMMA StepPollTwice ==
  ASSUME IInv, TypeOK', ServerPollTwice, UNCHANGED <<pos, doneS>>,
         UNCHANGED <<clientVars, canOpen>>
  PROVE  IInv'
<1>1. /\ UNCHANGED <<pcC, immC, dst, canOpen, pos, doneS>>
      /\ VerbsTypeOK /\ "server" \in Node /\ "client" \in Node \ {"server"}
      /\ \/ pcS = "pollA" /\ pcS' = "pollB"
         \/ pcS = "pollB" /\ pcS' = IF wcS' = "RECV_IMM" THEN "serve" ELSE "prepost"
  BY Constants DEF ServerPollTwice, Moves, clientVars, IInv, TypeOK
<1>2. CASE PollSend("server") /\ wcS' = "SEND"
  <2>1. /\ Sends("server") > 0 /\ Sends("server")' = Sends("server") - 1
        /\ UNCHANGED <<sq, rq, rcq, mem, wire>>
        /\ Receives("client")' = Receives("client") /\ Receives("server")' = Receives("server")
    BY <1>1, <1>2, PollSendCounts
  <2>2. CASE pcS = "pollA"
    <3>1. pcS' = "pollB" /\ Sends("server")' = 0
      BY <1>1, <2>1, <2>2 DEF IInv, Posted
    <3>2. OneMessage'
      BY <1>1, <2>1, <2>2, <3>1, OneMessageKept
         DEF IInv, ForClient, ForServer, ClientRegion, ServerRegion
    <3>3. InHand'
      BY <1>1, <1>2, <2>1, <2>2, <3>1, MailKept DEF IInv, InHand, ClientHolds, ServerHolds
    <3>4. Progress'
      BY <1>1, <1>2, <2>2, <3>1 DEF IInv, Progress
    <3>5. Posted'
      BY <1>1, <1>2, <2>1, <2>2, <3>1 DEF IInv, Posted, ClientRegion, ServerRegion, AllPosted
    <3> QED BY <3>2, <3>3, <3>4, <3>5 DEF IInv
  <2>3. CASE pcS = "pollB"
    <3>1. wcS # "SEND" /\ pcS' = "prepost"
      BY <1>1, <1>2, <2>1, <2>3 DEF IInv, Posted
    <3>2. /\ Idle("client") /\ Idle("server") /\ ~ ClientHolds /\ pcC \in {"prepost", "loop"}
          /\ Receives("server") = 0
      BY <2>3, <3>1 DEF IInv, InHand, ServerHolds, Progress, Posted
    <3>3. Idle("client")' /\ Idle("server")'
      BY <2>1, <3>2, MailKept
    <3>4. OneMessage'
      BY <3>3, Quiet
    <3>5. InHand'
      BY <1>1, <3>1, <3>2 DEF InHand, ClientHolds, ServerHolds
    <3>6. Progress'
      BY <1>1, <3>1, <3>2 DEF IInv, Progress
    <3>7. AllPosted("server", "recv_mr")
      BY <1>1, <3>2, NoReceives
    <3>8. Posted'
      BY <1>1, <2>1, <3>1, <3>2, <3>7 DEF IInv, Posted, ClientRegion, ServerRegion, AllPosted
    <3> QED BY <3>4, <3>5, <3>6, <3>8 DEF IInv
  <2> QED BY <1>1, <2>2, <2>3
<1>3. CASE PollRecv("server") /\ wcS' = Head(rcq["server"]).op
  <2>1. /\ ~ ClientHolds /\ ~ ServerHolds /\ Idle("client")' /\ Idle("server")'
        /\ UNCHANGED <<mem, scq>>
    BY <1>3, ServerReceives
  <2>2. PICK l \in {Written(Text("name"), 1), Sent("ready"), Sent("done")} :
          ForServer(l) /\ IsReceived("server", ServerRegion, l)
    BY <1>3, ServerReceives
  <2>3. l = Written(Text("name"), 1) /\ pcC \in {"prepost", "loop"}
    BY <1>1, <2>2, LettersApart DEF ForServer
  <2>4. wcS' = "RECV_IMM"
    BY <1>3, <2>2, <2>3, LettersApart DEF IsReceived
  <2>5. /\ pcS = "pollA" \/ (pcS = "pollB" /\ wcS = "SEND")
        /\ \/ pcS = "pollA" /\ pcS' = "pollB"
           \/ pcS = "pollB" /\ pcS' = "serve"
    BY <1>1, <2>1, <2>4 DEF ServerHolds
  <2>6. OneMessage'
    BY <2>1, Quiet
  <2>7. InHand'
    BY <1>1, <2>1, <2>3, <2>5 DEF InHand, ClientHolds, ServerHolds
  <2>8. Progress'
    BY <1>1, <2>3, <2>4, <2>5 DEF IInv, Progress
  <2>9. Posted'
    <3>1. Receives("server") = 1
      BY <2>5 DEF IInv, Posted
    <3>2. /\ Receives("server")' = 0 /\ \A s : AllPosted("server", s)'
          /\ Receives("client")' = Receives("client")
          /\ \A s : AllPosted("client", s) => AllPosted("client", s)'
      BY <1>1, <1>3, <3>1, PollCounts
    <3> QED BY <1>1, <2>4, <2>5, <3>2 DEF IInv, Posted, ClientRegion
  <2> QED BY <2>6, <2>7, <2>8, <2>9 DEF IInv
<1> QED BY <1>2, <1>3 DEF ServerPollTwice

\* The next chunk, or the end of the file, becomes the one message.
LEMMA WriteNextEffect ==
  ASSUME IInv, WriteNext, NoPoll, Idle("client"), Idle("server"), pos = Len(dst)
  PROVE  /\ Idle("server")' /\ mem'["client"] = mem["client"]
         /\ \/ /\ IsQueued("client", Written(Chunk(pos), 1))' /\ pos' = Len(dst) + 1
            \/ /\ IsQueued("client", EmptyWrite)' /\ pos' = NumChunks /\ Len(dst) = NumChunks
<1>1. /\ VerbsTypeOK /\ Paired /\ "server" \in Node /\ Peer["server"] = "client"
      /\ "file_mr" \in Region /\ pos \in Nat
  BY Constants DEF IInv, TypeOK, Region
<1>2. CASE WriteChunk
  <2>1. PICK i : i = pos + 1
    OBVIOUS
  <2>2. pos' = i /\ i = Len(dst) + 1 /\ PostWrite("server", "file_mr", Chunk(i), 1)
    BY <1>2, <2>1 DEF WriteChunk
  <2>3. /\ IsQueued("client", Written(Chunk(i), 1))' /\ Idle("server")'
        /\ mem'["client"] = mem["client"]
    BY <1>1, <2>2, WriteAnswer
  <2> QED BY <2>2, <2>3
<1>3. CASE pos = NumChunks /\ pos' = pos /\ PostEmptyWrite("server", "file_mr")
  BY <1>1, <1>3, EmptyAnswer
<1> QED BY <1>2, <1>3 DEF WriteNext

LEMMA StepOpen ==
  ASSUME IInv, TypeOK', ServerOpen, UNCHANGED <<wcS, doneS>>, UNCHANGED <<clientVars, canOpen>>
  PROVE  IInv'
<1>1. /\ pcS = "serve" /\ NoRecv /\ NoPoll /\ UNCHANGED <<pcC, immC, dst, canOpen, wcS, doneS>>
  BY DEF ServerOpen, ServerOpens, Moves, clientVars
<1>2. /\ Idle("client") /\ Idle("server") /\ ~ ClientHolds /\ pcC \in {"prepost", "loop"}
      /\ pos = 0 /\ pos = Len(dst) /\ Receives("server") = 0
  BY <1>1, EmptyFacts DEF IInv, TypeOK, InHand, ServerHolds, Progress, Posted
<1>3. AllPosted("server", "recv_mr")
  BY <1>2, NoReceives, Constants DEF IInv, TypeOK
<1>4. /\ Receives("client")' = Receives("client") /\ Receives("server")' = 0
      /\ \A s : AllPosted("server", s) => AllPosted("server", s)'
      /\ \A s : AllPosted("client", s) => AllPosted("client", s)'
  BY <1>1, <1>2 DEF NoRecv, NoPoll, Receives, AllPosted
<1>5. CASE canOpen /\ WriteNext /\ pcS' = "prepost"
  <2>1. /\ Idle("server")'
        /\ \/ /\ IsQueued("client", Written(Chunk(pos), 1))' /\ pos' = Len(dst) + 1
           \/ /\ IsQueued("client", EmptyWrite)' /\ pos' = NumChunks /\ Len(dst) = NumChunks
    BY <1>1, <1>2, <1>5, WriteNextEffect
  <2>2. OneMessage'
    BY <1>1, <1>2, <1>5, <2>1 DEF OneMessage, ForClient, InFlight
  <2>3. InHand'
    BY <1>1, <1>2, <1>5 DEF InHand, ClientHolds, ServerHolds
  <2>4. Progress'
    BY <1>1, <1>2, <1>5, <2>1 DEF IInv, Progress
  <2>5. Posted'
    BY <1>1, <1>3, <1>4, <1>5 DEF IInv, Posted, ClientRegion, ServerRegion
  <2> QED BY <2>2, <2>3, <2>4, <2>5 DEF IInv
<1>6. CASE /\ ~ canOpen /\ pcS' = "handler" /\ pos' = pos
           /\ PostSend("server", "msg_mr", Text("err"))
  <2>1. IsQueued("client", Sent("err"))' /\ Idle("server")'
    BY <1>1, <1>2, <1>6, SendAnswer, Constants DEF IInv, TypeOK, Region
  <2>2. OneMessage'
    BY <1>1, <1>2, <1>6, <2>1 DEF OneMessage, ForClient, InFlight
  <2>3. InHand'
    BY <1>1, <1>2, <1>6 DEF InHand, ClientHolds, ServerHolds
  <2>4. Progress'
    BY <1>1, <1>2, <1>6 DEF IInv, Progress
  <2>5. Posted'
    BY <1>1, <1>3, <1>4, <1>6 DEF IInv, Posted, ClientRegion, ServerRegion
  <2> QED BY <2>2, <2>3, <2>4, <2>5 DEF IInv
<1> QED BY <1>5, <1>6 DEF ServerOpen, ServerOpens, Moves

LEMMA StepServerPrepost ==
  ASSUME IInv, TypeOK', ServerPrepost, UNCHANGED <<pos, wcS, doneS>>,
         UNCHANGED <<clientVars, canOpen>>
  PROVE  IInv'
<1>1. /\ pcS = "prepost" /\ pcS' = "loop" /\ PostRecv("server", "recv_mr")
      /\ UNCHANGED <<pcC, immC, dst, canOpen, pos, wcS, doneS, sq, mem, wire, rcq, scq>>
      /\ VerbsTypeOK /\ "server" \in Node /\ "client" \in Node \ {"server"}
      /\ "recv_mr" \in Region
  BY Constants DEF ServerPrepost, Moves, NoSend, NoPoll, clientVars, IInv, TypeOK, Region
<1>2. OneMessage'
  BY <1>1, OneMessageKept DEF IInv, ForClient, ForServer, ClientRegion, ServerRegion
<1>3. InHand'
  BY <1>1, MailKept DEF IInv, InHand, ClientHolds, ServerHolds
<1>4. Progress'
  BY <1>1 DEF IInv, Progress
<1>5. Posted'
  BY <1>1, PostCounts DEF IInv, Posted, ClientRegion, ServerRegion
<1> QED BY <1>2, <1>3, <1>4, <1>5 DEF IInv

LEMMA StepServerPoll ==
  ASSUME IInv, TypeOK', ServerPoll, UNCHANGED <<pos, wcS, doneS>>,
         UNCHANGED <<clientVars, canOpen>>
  PROVE  IInv'
<1>1. /\ pcS = "loop" /\ UNCHANGED <<pcC, immC, dst, canOpen, pos, wcS, doneS>>
      /\ VerbsTypeOK /\ "server" \in Node /\ "client" \in Node \ {"server"}
  BY Constants DEF ServerPoll, AwaitRecv, Moves, clientVars, IInv, TypeOK
<1>2. CASE PollSend("server") /\ pcS' = "loop"
  <2>1. /\ UNCHANGED <<sq, rq, rcq, mem, wire>>
        /\ Receives("client")' = Receives("client") /\ Receives("server")' = Receives("server")
    BY <1>1, <1>2, PollSendCounts
  <2>2. OneMessage'
    BY <1>1, <1>2, <2>1, OneMessageKept DEF IInv, ForClient, ForServer, ClientRegion, ServerRegion
  <2>3. InHand'
    BY <1>1, <1>2, <2>1, MailKept DEF IInv, InHand, ClientHolds, ServerHolds
  <2>4. Progress'
    BY <1>1, <1>2 DEF IInv, Progress
  <2>5. Posted'
    BY <1>1, <1>2, <2>1 DEF IInv, Posted, ClientRegion, ServerRegion, AllPosted
  <2> QED BY <2>2, <2>3, <2>4, <2>5 DEF IInv
<1>3. CASE PollRecv("server") /\ pcS' = "repost"
  <2>1. /\ ~ ClientHolds /\ Idle("client")' /\ Idle("server")' /\ UNCHANGED <<mem, scq>>
    BY <1>3, ServerReceives
  <2>2. PICK l \in {Written(Text("name"), 1), Sent("ready"), Sent("done")} :
          ForServer(l) /\ IsReceived("server", ServerRegion, l)
    BY <1>3, ServerReceives
  <2>3. /\ pos = Len(dst)
        /\ \/ l = Sent("ready") /\ pcC = "loop"
           \/ l = Sent("done") /\ pos = NumChunks
    BY <1>1, <2>2, LettersApart DEF ForServer
  <2>4. mem["server"]["recv_mr"] = l.data
    BY <1>1, <2>2, <2>3, LettersApart DEF IsReceived, Filled, ServerRegion
  <2>5. \/ mem["server"]["recv_mr"] = Text("ready") /\ pcC = "loop"
        \/ mem["server"]["recv_mr"] = Text("done") /\ pos = NumChunks
    BY <2>3, <2>4, LettersApart
  <2>6. OneMessage'
    BY <2>1, Quiet
  <2>7. InHand'
    BY <1>1, <1>3, <2>1, <2>3, <2>5 DEF IInv, InHand, ClientHolds, ServerHolds
  <2>8. Progress'
    BY <1>1, <1>3, <2>1, <2>3 DEF IInv, Progress, ClientHolds
  <2>9. Posted'
    <3>1. Receives("server") = 1
      BY <1>1 DEF IInv, Posted
    <3>2. /\ Receives("server")' = 0 /\ \A s : AllPosted("server", s)'
          /\ Receives("client")' = Receives("client")
          /\ \A s : AllPosted("client", s) => AllPosted("client", s)'
      BY <1>1, <1>3, <3>1, PollCounts
    <3> QED BY <1>1, <1>3, <3>2 DEF IInv, Posted, ClientRegion
  <2> QED BY <2>6, <2>7, <2>8, <2>9 DEF IInv
<1> QED BY <1>2, <1>3 DEF ServerPoll, AwaitRecv, Moves

LEMMA StepServerRepost ==
  ASSUME IInv, TypeOK', ServerRepost, UNCHANGED <<pos, wcS, doneS>>,
         UNCHANGED <<clientVars, canOpen>>
  PROVE  IInv'
<1>1. /\ pcS = "repost" /\ pcS' = "handle" /\ PostRecv("server", "recv_mr")
      /\ UNCHANGED <<pcC, immC, dst, canOpen, pos, wcS, doneS, sq, mem, wire, rcq, scq>>
      /\ VerbsTypeOK /\ "server" \in Node /\ "client" \in Node \ {"server"}
      /\ "recv_mr" \in Region
  BY Constants DEF ServerRepost, Moves, NoSend, NoPoll, clientVars, IInv, TypeOK, Region
<1>2. /\ Idle("client")' /\ Idle("server")'
  BY <1>1, MailKept DEF IInv, InHand, ServerHolds
<1>3. OneMessage'
  BY <1>2, Quiet
<1>4. InHand'
  BY <1>1, <1>2 DEF IInv, InHand, ClientHolds, ServerHolds
<1>5. Progress'
  BY <1>1 DEF IInv, Progress
<1>6. Posted'
  BY <1>1, PostCounts DEF IInv, Posted, ClientRegion, ServerRegion
<1> QED BY <1>3, <1>4, <1>5, <1>6 DEF IInv

LEMMA StepSendChunk ==
  ASSUME IInv, TypeOK', ServerSendChunk, UNCHANGED <<wcS, doneS>>,
         UNCHANGED <<clientVars, canOpen>>
  PROVE  IInv'
<1>1. /\ pcS = "handle" /\ pcS' = "loop" /\ WriteNext /\ NoRecv /\ NoPoll
      /\ mem["server"]["recv_mr"] = Text("ready")
      /\ UNCHANGED <<pcC, immC, dst, canOpen, wcS, doneS>>
  BY DEF ServerSendChunk, ServerSends, Moves, clientVars
<1>2. /\ Idle("client") /\ Idle("server") /\ ~ ClientHolds /\ pcC = "loop" /\ pos = Len(dst)
  BY <1>1, LettersApart DEF IInv, InHand, ServerHolds
<1>3. /\ Idle("server")'
      /\ \/ /\ IsQueued("client", Written(Chunk(pos), 1))' /\ pos' = Len(dst) + 1
         \/ /\ IsQueued("client", EmptyWrite)' /\ pos' = NumChunks /\ Len(dst) = NumChunks
  BY <1>1, <1>2, WriteNextEffect
<1>4. OneMessage'
  BY <1>1, <1>2, <1>3 DEF OneMessage, ForClient, InFlight
<1>5. InHand'
  BY <1>1, <1>2 DEF InHand, ClientHolds, ServerHolds
<1>6. Progress'
  <2>1. Len(dst) \in Nat
    BY EmptyFacts DEF IInv, TypeOK
  <2> QED BY <1>1, <1>2, <1>3, <2>1 DEF IInv, Progress
<1>7. Posted'
  BY <1>1 DEF IInv, Posted, ClientRegion, ServerRegion, NoRecv, NoPoll, Receives, AllPosted
<1> QED BY <1>4, <1>5, <1>6, <1>7 DEF IInv

\* What is not READY is DONE, and then the copy is whole.
LEMMA OtherIsDone ==
  ASSUME IInv, ServerOther
  PROVE  /\ doneS' = TRUE /\ pcS' = "handler" /\ pos = NumChunks /\ Len(dst) = NumChunks
         /\ Idle("client") /\ Idle("server") /\ ~ ClientHolds
<1>1. pcS = "handle" /\ mem["server"]["recv_mr"] # Text("ready")
  BY DEF ServerOther, Moves
<1>2. /\ mem["server"]["recv_mr"] = Text("done") /\ pos = NumChunks /\ pos = Len(dst)
      /\ Idle("client") /\ Idle("server") /\ ~ ClientHolds
  BY <1>1 DEF IInv, InHand, ServerHolds
<1> QED BY <1>1, <1>2 DEF ServerOther, Moves

LEMMA StepOther ==
  ASSUME IInv, TypeOK', ServerOther, UNCHANGED <<pos, wcS>>, UNCHANGED <<clientVars, canOpen>>
  PROVE  IInv'
<1>1. /\ pcS = "handle" /\ UNCHANGED <<pcC, immC, dst, canOpen, pos, wcS>>
      /\ UNCHANGED <<sq, mem, rq, scq, rcq, wire>>
  BY DEF ServerOther, Moves, clientVars, NoRecv, NoSend, NoPoll
<1>2. Idle("client")' /\ Idle("server")'
  BY <1>1, OtherIsDone, MailKept
<1>3. OneMessage'
  BY <1>2, Quiet
<1>4. InHand'
  BY <1>1, <1>2, OtherIsDone DEF InHand, ClientHolds, ServerHolds
<1>5. Progress'
  BY <1>1, OtherIsDone DEF IInv, Progress
<1>6. Posted'
  BY <1>1, OtherIsDone DEF IInv, Posted, ClientRegion, ServerRegion, Receives, AllPosted
<1> QED BY <1>3, <1>4, <1>5, <1>6 DEF IInv

LEMMA StepServerClose ==
  ASSUME IInv, TypeOK', ServerClose, UNCHANGED <<pos, wcS, doneS>>,
         UNCHANGED <<clientVars, canOpen>>
  PROVE  IInv'
<1>1. /\ pcS = "handler" /\ pcS' = "closed" /\ pcC \in {"closed", "cut"}
      /\ CloseNode("server") /\ UNCHANGED <<pcC, immC, dst, canOpen, pos, wcS, doneS>>
      /\ VerbsTypeOK /\ Paired /\ "server" \in Node /\ "client" \in Node \ {"server"}
  BY Constants DEF ServerClose, Moves, clientVars, IInv, TypeOK
<1>2. Idle("client") /\ Idle("server")
  BY <1>1 DEF IInv, OneMessage, ForClient, ForServer
<1>3. /\ Idle("client")' /\ Idle("server")'
      /\ Receives("server")' = 0 /\ (\A s : AllPosted("server", s)')
      /\ rq'["client"] = rq["client"] /\ rcq'["client"] = rcq["client"]
  BY <1>1, <1>2, CloseEffect
<1>4. OneMessage'
  BY <1>3, Quiet
<1>5. InHand'
  BY <1>1, <1>3 DEF InHand, ClientHolds, ServerHolds
<1>6. Progress'
  BY <1>1 DEF IInv, Progress
<1>7. Posted'
  BY <1>1, <1>3 DEF IInv, Posted, ClientRegion, Receives, AllPosted
<1> QED BY <1>4, <1>5, <1>6, <1>7 DEF IInv

LEMMA IInvStep ==
  ASSUME IInv, [Next]_vars
  PROVE  IInv'
<1>0. TypeOK'
  BY TypeStep DEF IInv
<1>1. CASE ClientNext
  BY <1>0, <1>1, StepPollBegin, StepCheck, StepPrepost, StepClientPoll, StepMessage, StepEnd,
     StepRepost, StepSave, StepClientClose DEF ClientNext
<1>2. CASE ServerNext
  BY <1>0, <1>2, StepStart, StepPollTwice, StepOpen, StepServerPrepost, StepServerPoll,
     StepServerRepost, StepSendChunk, StepOther, StepServerClose DEF ServerNext
<1>3. ASSUME NEW n \in Node, Nic(NicStep(n)) PROVE IInv'
  BY <1>0, <1>3, StepNic
<1>4. CASE UNCHANGED vars
  <2>1. /\ UNCHANGED <<pcC, immC, dst, pcS, canOpen, pos, wcS, doneS>>
        /\ UNCHANGED <<up, sq, scq, rq, rcq, mem, wire>>
    BY <1>4 DEF vars, verbsVars, clientVars, serverVars
  <2>2. OneMessage'
    BY <2>1, OneMessageKept DEF IInv, ForClient, ForServer, ClientRegion, ServerRegion
  <2>3. InHand'
    BY <2>1, MailKept DEF IInv, InHand, ClientHolds, ServerHolds
  <2>4. Progress' /\ Posted'
    BY <2>1 DEF IInv, Progress, Posted, ClientRegion, ServerRegion, Receives, Sends, AllPosted
  <2> QED BY <1>0, <2>2, <2>3, <2>4 DEF IInv
<1> QED BY <1>1, <1>2, <1>3, <1>4 DEF Next

\* IInv is inductive, so every state of the pull satisfies it.
THEOREM Invariance == Spec => []IInv
<1>1. Init => IInv
  BY InitIInv
<1>2. IInv /\ [Next]_vars => IInv'
  BY IInvStep
<1> QED BY <1>1, <1>2, PTL DEF Spec

-----------------------------------------------------------------------------
(* The safety properties and the refinement. *)

\* After the start every message that arrives finds its receive, so that of what
\* the adapters carry only the first answers can be dropped by a receiver.
THEOREM DropsCorrect == Spec => []DropsOnlyAtStart
<1>1. ASSUME IInv, wire["client"] # <<>> PROVE rq["client"] # <<>> \/ pcC = "prepost"
  <2>1. ~ Idle("client") /\ VerbsTypeOK /\ "client" \in Node
    BY <1>1, Constants DEF Idle, IInv, TypeOK
  <2>2. PICK l \in {Sent("begin"), Sent("err"), Written(Chunk(pos), 1), EmptyWrite} :
          ForClient(l) /\ InFlight("client", ClientRegion, l)
    BY <1>1, <2>1 DEF IInv, OneMessage
  <2>3. rcq["client"] = <<>>
    BY <1>1, <2>2 DEF InFlight, IsQueued, IsOnWire, IsReceived
  <2>4. pcC \in {"begin", "prepost", "loop"}
    BY <2>2 DEF ForClient
  <2>5. CASE pcC # "prepost"
    <3>1. Receives("client") = 1
      BY <1>1, <2>4, <2>5 DEF IInv, Posted
    <3> QED BY <2>3, <3>1, StillPosted
  <2> QED BY <2>5
<1>2. ASSUME IInv, wire["server"] # <<>> PROVE rq["server"] # <<>> \/ pcS = "prepost"
  <2>1. ~ Idle("server") /\ ~ ServerHolds
    BY <1>2 DEF Idle, IInv, InHand
  <2>2. PICK l \in {Written(Text("name"), 1), Sent("ready"), Sent("done")} :
          ForServer(l) /\ InFlight("server", ServerRegion, l)
    BY <1>2, <2>1 DEF IInv, OneMessage
  <2>3. rcq["server"] = <<>>
    BY <1>2, <2>2 DEF InFlight, IsQueued, IsOnWire, IsReceived
  <2>4. pcS \in {"pollA", "prepost", "loop"} \/ (pcS = "pollB" /\ wcS = "SEND")
    BY <2>1, <2>2 DEF ForServer, ServerHolds
  <2>5. CASE pcS # "prepost"
    <3>1. Receives("server") = 1
      BY <1>2, <2>4, <2>5 DEF IInv, Posted
    <3> QED BY <2>3, <3>1, StillPosted
  <2> QED BY <2>5
<1>3. IInv => DropsOnlyAtStart
  BY <1>1, <1>2 DEF DropsOnlyAtStart, Ready
<1> QED BY <1>3, Invariance, PTL

\* A process writes to a region only while nothing is on its way, and never to the
\* two regions that messages are read from.
LEMMA ProcessMemory ==
  ASSUME IInv, ClientNext \/ ServerNext
  PROVE  \/ mem' = mem
         \/ /\ sq["client"] = <<>> /\ sq["server"] = <<>>
            /\ mem'["client"]["file_mr"] = mem["client"]["file_mr"]
            /\ mem'["server"]["recv_mr"] = mem["server"]["recv_mr"]
<1> DEFINE Still == /\ sq["client"] = <<>> /\ sq["server"] = <<>>
                    /\ mem'["client"]["file_mr"] = mem["client"]["file_mr"]
                    /\ mem'["server"]["recv_mr"] = mem["server"]["recv_mr"]
<1>0. /\ VerbsTypeOK /\ Region = {"msg_mr", "recv_mr", "file_mr"}
      /\ "client" \in Node /\ "server" \in Node /\ "client" \in Node \ {"server"}
      /\ "server" \in Node \ {"client"}
  BY Constants DEF IInv, TypeOK, Region
<1>1. ASSUME ClientHolds \/ ServerHolds PROVE sq["client"] = <<>> /\ sq["server"] = <<>>
  BY <1>1, Constants DEF IInv, InHand, Idle
<1>2. ASSUME NEW p, NEW w, Post("client", "msg_mr", p, w), ClientHolds \/ ServerHolds PROVE Still
  BY <1>0, <1>1, <1>2, PostKeeps
<1>3. ASSUME NEW r \in {"msg_mr", "file_mr"}, NEW p, NEW w, Post("server", r, p, w),
             ClientHolds \/ ServerHolds
      PROVE  Still
  BY <1>0, <1>1, <1>3, PostKeeps
<1>4. CASE ClientNext
  <2>1. CASE ClientCheck
    BY <1>2, <2>1 DEF ClientCheck, Moves, ClientHolds, NoSend, PostWrite
  <2>2. CASE ClientEnd \/ ClientSave
    BY <1>2, <2>2 DEF ClientEnd, ClientSave, ClientSaves, Moves, ClientHolds, PostSend
  <2>3. CASE ClientPollBegin \/ ClientPrepost \/ ClientPoll \/ ClientMessage \/ ClientRepost
             \/ ClientClose
    BY <2>3 DEF ClientPollBegin, ClientPrepost, ClientPreposts, ClientPoll, ClientMessage,
                ClientRepost, ClientReposts, ClientClose, NoSend, PollSend, PollRecv, CloseNode
  <2> QED BY <1>4, <2>1, <2>2, <2>3 DEF ClientNext
<1>5. CASE ServerNext
  <2>1. CASE ServerStart
    BY <1>3, <2>1 DEF ServerStart, Welcome, Moves, ServerHolds, PostSend
  <2>2. CASE (WriteNext \/ PostSend("server", "msg_mr", Text("err"))) /\ pcS \in {"serve", "handle"}
    BY <1>3, <2>2 DEF WriteNext, WriteChunk, ServerHolds, PostSend, PostWrite, PostEmptyWrite
  <2>3. CASE ServerPollTwice \/ ServerPrepost \/ ServerPoll \/ ServerRepost \/ ServerOther
             \/ ServerClose
    BY <2>3 DEF ServerPollTwice, ServerPrepost, ServerPoll, AwaitRecv, ServerRepost, ServerOther,
                ServerClose, NoSend, PollSend, PollRecv, CloseNode
  <2> QED BY <1>5, <2>1, <2>2, <2>3 DEF ServerNext, ServerOpen, ServerOpens, ServerSendChunk,
          ServerSends, Moves
<1> QED BY <1>4, <1>5

LEMMA BufferStep ==
  ASSUME IInv, [Next]_vars
  PROVE  /\ pcC \in {"imm", "save", "msg"} =>
              mem'["client"]["file_mr"] = mem["client"]["file_mr"]
         /\ pcS \in {"repost", "handle"} =>
              (mem'["server"]["recv_mr"] = mem["server"]["recv_mr"])
         /\ \A n \in Node : SendBufferHeld(n)
<1> DEFINE Held == /\ pcC \in {"imm", "save", "msg"} =>
                         mem'["client"]["file_mr"] = mem["client"]["file_mr"]
                   /\ pcS \in {"repost", "handle"} =>
                         (mem'["server"]["recv_mr"] = mem["server"]["recv_mr"])
                   /\ \A n \in Node : SendBufferHeld(n)
<1>1. ASSUME mem' = mem PROVE Held
  BY <1>1 DEF SendBufferHeld
<1>2. CASE ClientNext \/ ServerNext
  <2>1. CASE /\ sq["client"] = <<>> /\ sq["server"] = <<>>
             /\ mem'["client"]["file_mr"] = mem["client"]["file_mr"]
             /\ mem'["server"]["recv_mr"] = mem["server"]["recv_mr"]
    BY <2>1, Constants DEF SendBufferHeld
  <2> QED BY <1>1, <1>2, <2>1, ProcessMemory
<1>3. ASSUME NEW k \in Node, Nic(NicStep(k)) PROVE Held
  <2>1. VerbsTypeOK /\ NicStep(k)
    BY <1>3 DEF IInv, TypeOK, Nic
  <2>2. \A n \in Node : Idle(n) => mem'[n] = mem[n]
    BY <2>1, NicKeeps, Constants DEF Idle
  <2>3. pcC \in {"imm", "save", "msg"} => mem'["client"]["file_mr"] = mem["client"]["file_mr"]
    BY <2>2, Constants DEF IInv, InHand, ClientHolds
  <2>4. pcS \in {"repost", "handle"} => mem'["server"]["recv_mr"] = mem["server"]["recv_mr"]
    BY <2>2, Constants DEF IInv, InHand, ServerHolds
  <2>5. ASSUME NEW n \in Node PROVE SendBufferHeld(n)
    <3>1. CASE Idle(n)
      BY <2>2, <3>1 DEF SendBufferHeld
    <3>2. CASE ~ Idle(n)
      <4>1. sq[n] = <<>>
        BY <3>2, Constants DEF IInv, OneMessage, Idle
      <4> QED BY <4>1 DEF SendBufferHeld
    <3> QED BY <3>1, <3>2
  <2> QED BY <2>3, <2>4, <2>5
<1>4. CASE UNCHANGED vars
  BY <1>1, <1>4 DEF vars, verbsVars
<1> QED BY <1>2, <1>3, <1>4 DEF Next

\* No region changes under its reader, on either side of either direction.
THEOREM BuffersCorrect == Spec => BuffersSafe
<1>1. IInv /\ [Next]_vars =>
        [/\ pcC \in {"imm", "save", "msg"} =>
              mem'["client"]["file_mr"] = mem["client"]["file_mr"]
         /\ pcS \in {"repost", "handle"} =>
              (mem'["server"]["recv_mr"] = mem["server"]["recv_mr"])
         /\ \A n \in Node : SendBufferHeld(n)]_vars
  BY BufferStep
<1> QED BY <1>1, Invariance, PTL DEF Spec, BuffersSafe

\* The blocks of the copy are the chunks of the file, by their numbers.
LEMMA WholeFile ==
  LET file == [i \in 1..NumChunks |-> i] IN
    Len(file) = NumChunks /\ \A i \in 1..NumChunks : file[i] = i
BY Constants

LEMMA TransferStep ==
  ASSUME IInv, [Next]_vars
  PROVE  [Transfer!Next]_(Transfer!vars)
<1>1. CASE ClientSave /\ UNCHANGED serverVars
  <2>1. mem["client"]["file_mr"] = Chunk(pos) /\ pos = Len(dst) + 1
    BY <1>1 DEF ClientSave, ClientSaves, Moves, IInv, InHand
  <2>2. dst' = Append(dst, Len(dst) + 1) /\ doneS' = doneS
    BY <1>1, <2>1 DEF ClientSave, ClientSaves, serverVars, Chunk
  <2>3. Len(dst) < NumChunks
    BY <2>1, EmptyFacts, Constants DEF IInv, TypeOK
  <2>4. Len(dst) + 1 \in 1..NumChunks
    BY <2>1, <2>3, EmptyFacts, Constants DEF IInv, TypeOK
  <2> DEFINE file == [i \in 1..NumChunks |-> i]
  <2>5. file[Len(dst) + 1] = Len(dst) + 1 /\ Len(file) = NumChunks
    BY <2>4, WholeFile
  <2> HIDE DEF file
  <2>6. Len(dst) < Len(file) /\ dst' = Append(dst, file[Len(dst) + 1]) /\ doneS' = doneS
    BY <2>2, <2>3, <2>5
  <2>7. Transfer!Save
    BY <2>6 DEF Transfer!Save, file
  <2> QED BY <2>7 DEF Transfer!Next
<1>2. CASE ServerOther /\ UNCHANGED <<clientVars, canOpen>>
  <2>1. doneS' = TRUE /\ dst' = dst /\ Len(dst) = NumChunks
    BY <1>2, OtherIsDone DEF clientVars
  <2> QED BY <2>1, WholeFile DEF Transfer!Next, Transfer!Acknowledge
<1>3. CASE ClientNext /\ ~ ClientSave
  BY <1>3 DEF ClientNext, serverVars, Transfer!vars
<1>4. CASE ServerNext /\ ~ ServerOther
  BY <1>4 DEF ServerNext, clientVars, Transfer!vars
<1>5. ASSUME NEW n \in Node, Nic(NicStep(n)) PROVE UNCHANGED <<dst, doneS>>
  BY <1>5 DEF Nic, clientVars, serverVars
<1>6. CASE UNCHANGED vars
  BY <1>6 DEF vars, clientVars, serverVars, Transfer!vars
<1> QED BY <1>1, <1>2, <1>3, <1>4, <1>5, <1>6 DEF Next, ClientNext, ServerNext, Transfer!vars

\* The pull, with any loss and whether the server can open the file or not,
\* implements the abstract transfer.
THEOREM Implements == Spec => TransferSpec
<1>1. Init => Transfer!Init
  BY Constants DEF Init, Transfer!Init
<1>2. IInv /\ [Next]_vars => [Transfer!Next]_(Transfer!vars)
  BY TransferStep
<1> QED BY <1>1, <1>2, Invariance, PTL DEF Spec, TransferSpec, Transfer!Spec

-----------------------------------------------------------------------------
(* The places in the queues. *)

\* The most sends of each side whose completion can be left, at the place where it
\* is: a message that is polled leaves one, and every post adds one.
ClientPlaces ==
  /\ Sends("client") <= 2
  /\ pcC \in {"prepost", "msg", "imm", "save"} => Sends("client") <= 1
  /\ pcC \in {"begin", "check", "closed", "cut"} => Sends("client") = 0

ServerPlaces ==
  /\ Sends("server") <= 2
  /\ pcS \in {"pollA", "pollB", "serve", "repost", "handle"} => Sends("server") <= 1
  /\ pcS \in {"start", "closed"} => Sends("server") = 0

\* What IInv says of the receives of the server in every other place.
HandlerReceives == pcS = "handler" => Receives("server") <= 1

LEMMA PullAnswered == ASSUME IInv PROVE Answered
<1>1. ASSUME NEW n \in Node, rcq[n] # <<>> PROVE sq[n] = <<>>
  <2>1. Idle(Peer[n]) /\ Peer[Peer[n]] = n
    BY <1>1, Constants DEF IInv, OneMessage, Idle
  <2> QED BY <2>1 DEF Idle
<1> QED BY <1>1 DEF Answered

LEMMA ClientPlacesStep ==
  ASSUME IInv, ClientPlaces, ClientNext, InTurn
  PROVE  ClientPlaces' /\ OthersKeep("client")
<1>0. /\ VerbsTypeOK /\ Answered /\ "client" \in Node /\ Sends("client") \in Nat
      /\ "msg_mr" \in Region
  BY PullAnswered, SendsType, Constants DEF IInv, TypeOK, Region
<1>1. CASE PollRecv("client") /\ (\/ pcC = "begin" /\ pcC' = "check"
                                  \/ pcC = "loop" /\ pcC' \in {"imm", "msg"})
  <2>1. /\ Sends("client")' <= Sends("client") /\ Sends("client")' <= 1
        /\ Sends("client")' \in Nat /\ OthersKeep("client")
    BY <1>0, <1>1, AwaitSends DEF PollAny
  <2> QED BY <1>0, <1>1, <2>1 DEF ClientPlaces
<1>2. CASE PollSend("client") /\ pcC = "loop" /\ pcC' = "loop"
  <2>1. Sends("client")' <= Sends("client") /\ Sends("client")' \in Nat /\ OthersKeep("client")
    BY <1>0, <1>2, AwaitSends DEF PollAny
  <2> QED BY <1>0, <1>2, <2>1 DEF ClientPlaces
<1>3. CASE ClientCheck \/ ClientEnd \/ ClientSave
  <2>1. /\ \/ NoSend
           \/ \E p : \/ PostSend("client", "msg_mr", p)
                     \/ \E i : PostWrite("client", "msg_mr", p, i)
        /\ NoPoll
    BY <1>3 DEF ClientCheck, ClientEnd, ClientSave, ClientSaves
  <2>2. /\ Sends("client")' = Sends("client") \/ Sends("client")' = Sends("client") + 1
        /\ OthersKeep("client")
    BY <1>0, <2>1, CallSends
  <2>3. \/ pcC = "check" /\ pcC' \in {"prepost", "close"}
        \/ pcC \in {"imm", "save"} /\ pcC' \in {"close", "loop"}
    BY <1>3 DEF ClientCheck, ClientEnd, ClientSave, ClientSaves, Moves
  <2> QED BY <1>0, <2>2, <2>3 DEF ClientPlaces
<1>4. CASE ClientPrepost \/ ClientMessage \/ ClientRepost
  <2>1. NoSend /\ NoPoll
    BY <1>4 DEF ClientPrepost, ClientPreposts, ClientMessage, ClientRepost, ClientReposts
  <2>2. Sends("client")' = Sends("client") /\ OthersKeep("client")
    BY <2>1, NoSendSends DEF NoPoll, OthersKeep
  <2>3. \/ pcC \in {"prepost", "msg"} /\ pcC' \in {"loop", "close"}
        \/ pcC = "imm" /\ pcC' = "save"
    BY <1>4 DEF ClientPrepost, ClientPreposts, ClientMessage, ClientRepost, ClientReposts, Moves
  <2> QED BY <1>0, <2>2, <2>3 DEF ClientPlaces
<1>5. CASE ClientClose
  <2>1. Sends("client")' = 0 /\ OthersKeep("client")
    BY <1>0, <1>5, CloseSends DEF ClientClose
  <2> QED BY <2>1 DEF ClientPlaces
<1> QED BY <1>1, <1>2, <1>3, <1>4, <1>5 DEF ClientNext, ClientPollBegin, ClientPoll, Moves

LEMMA ServerPlacesStep ==
  ASSUME IInv, ServerPlaces, ServerNext, InTurn
  PROVE  ServerPlaces' /\ OthersKeep("server")
<1>0. /\ VerbsTypeOK /\ Answered /\ "server" \in Node /\ Sends("server") \in Nat
      /\ "msg_mr" \in Region /\ "file_mr" \in Region
  BY PullAnswered, SendsType, Constants DEF IInv, TypeOK, Region
<1>1. CASE PollRecv("server") /\ pcS \in {"pollA", "pollB", "loop"}
                              /\ pcS' \in {"pollB", "serve", "prepost", "repost"}
  <2>1. Sends("server")' <= 1 /\ Sends("server")' \in Nat /\ OthersKeep("server")
    BY <1>0, <1>1, AwaitSends DEF PollAny
  <2> QED BY <1>1, <2>1 DEF ServerPlaces
<1>2. CASE PollSend("server") /\ (\/ pcS \in {"pollA", "pollB"} /\ pcS' \in {"pollB", "serve", "prepost"}
                                  \/ pcS = "loop" /\ pcS' = "loop")
  <2>1. Sends("server")' <= Sends("server") /\ Sends("server")' \in Nat /\ OthersKeep("server")
    BY <1>0, <1>2, AwaitSends DEF PollAny
  <2> QED BY <1>0, <1>2, <2>1 DEF ServerPlaces
<1>3. CASE ServerStart \/ ServerOpen \/ ServerSendChunk
  <2>1. /\ \E r \in Region : \E p : \/ PostSend("server", r, p)
                                    \/ (\E i : PostWrite("server", r, p, i))
                                    \/ PostEmptyWrite("server", r)
        /\ NoPoll
    BY <1>0, <1>3 DEF ServerStart, Welcome, ServerOpen, ServerOpens, ServerSendChunk,
       ServerSends, WriteNext, WriteChunk
  <2>2. /\ Sends("server")' = Sends("server") \/ Sends("server")' = Sends("server") + 1
        /\ OthersKeep("server")
    BY <1>0, <2>1, CallSends
  <2>3. \/ pcS = "start" /\ pcS' = "pollA"
        \/ pcS \in {"serve", "handle"} /\ pcS' \in {"prepost", "handler", "loop"}
    BY <1>3 DEF ServerStart, ServerOpen, ServerOpens, ServerSendChunk, ServerSends, Moves
  <2> QED BY <1>0, <2>2, <2>3 DEF ServerPlaces
<1>4. CASE ServerPrepost \/ ServerRepost \/ ServerOther
  <2>1. NoSend /\ NoPoll
    BY <1>4 DEF ServerPrepost, ServerRepost, ServerOther
  <2>2. Sends("server")' = Sends("server") /\ OthersKeep("server")
    BY <2>1, NoSendSends DEF NoPoll, OthersKeep
  <2>3. \/ pcS = "prepost" /\ pcS' = "loop"
        \/ pcS = "repost" /\ pcS' = "handle"
        \/ pcS = "handle" /\ pcS' \in {"handler", "loop"}
    BY <1>4 DEF ServerPrepost, ServerRepost, ServerOther, Moves
  <2> QED BY <1>0, <2>2, <2>3 DEF ServerPlaces
<1>5. CASE ServerClose
  <2>1. Sends("server")' = 0 /\ OthersKeep("server")
    BY <1>0, <1>5, CloseSends DEF ServerClose
  <2> QED BY <2>1 DEF ServerPlaces
<1> QED BY <1>1, <1>2, <1>3, <1>4, <1>5
        DEF ServerNext, ServerPollTwice, ServerPoll, AwaitRecv, Moves

LEMMA HandlerReceivesStep ==
  ASSUME IInv, HandlerReceives, [Next]_vars
  PROVE  HandlerReceives'
<1> SUFFICES ASSUME pcS' = "handler" PROVE Receives("server")' <= 1
  BY DEF HandlerReceives
<1>0. /\ VerbsTypeOK /\ "client" \in Node /\ "server" \in Node /\ Paired
      /\ "server" \in Node \ {"client"}
      /\ pcS # "handler" => Receives("server") <= 1
  BY Constants DEF IInv, TypeOK, Posted
<1>1. Receives("server") <= 1
  BY <1>0 DEF HandlerReceives
<1>2. CASE ServerNext
  <2>1. ServerOpen \/ ServerOther
    BY <1>2 DEF ServerNext, ServerStart, ServerPollTwice, ServerPrepost, ServerPoll, AwaitRecv,
       ServerRepost, ServerSendChunk, ServerSends, ServerClose, Moves
  <2> QED BY <1>1, <2>1 DEF ServerOpen, ServerOpens, ServerOther, NoRecv, NoPoll, Receives
<1>3. CASE ClientNext
  <2>1. rq'["server"] = rq["server"] /\ rcq'["server"] = rcq["server"]
    <3>1. CASE ClientPollBegin \/ ClientPoll
      BY <1>0, <3>1, PollSendEffect, PollRecvEffect DEF ClientPollBegin, ClientPoll
    <3>2. CASE ClientClose
      BY <1>0, <3>2, CloseEffect DEF ClientClose
    <3>3. CASE ClientPrepost \/ ClientRepost
      BY <1>0, <3>3, PostRecvEffect
         DEF ClientPrepost, ClientPreposts, ClientRepost, ClientReposts, NoPoll, Region
    <3>4. CASE ClientCheck \/ ClientMessage \/ ClientEnd \/ ClientSave
      BY <3>4 DEF ClientCheck, ClientMessage, ClientEnd, ClientSave, ClientSaves, NoRecv, NoPoll
    <3> QED BY <1>3, <3>1, <3>2, <3>3, <3>4 DEF ClientNext
  <2> QED BY <1>1, <2>1 DEF Receives
<1>4. ASSUME NEW k \in Node, Nic(NicStep(k)) PROVE Receives("server")' <= 1
  BY <1>0, <1>1, <1>4, NicKeeps DEF Nic
<1>5. CASE UNCHANGED vars
  BY <1>1, <1>5 DEF vars, verbsVars, Receives
<1> QED BY <1>2, <1>3, <1>4, <1>5 DEF Next

\* No queue of a pull is ever asked to hold more than it was made for, for a file of
\* any length and any loss, if the completion queues return what they hold in turn.
THEOREM QueuesFitCorrect == Spec /\ [][InTurn]_vars => []QueuesFit
<1> DEFINE QInv == IInv /\ ClientPlaces /\ ServerPlaces /\ HandlerReceives
<1>1. Init => QInv
  <2> SUFFICES ASSUME Init PROVE QInv
    OBVIOUS
  <2>1. /\ \A n \in Node : Len(sq[n]) = 0 /\ scq[n] = 0
        /\ pcC = "begin" /\ pcS = "start"
    BY DEF Init, VerbsInit
  <2>2. ASSUME NEW n \in Node PROVE Sends(n) = 0
    <3>1. Sends(n) = 0 + 0
      BY <2>1 DEF Sends
    <3> QED BY <3>1
  <2> QED BY <2>1, <2>2, InitIInv, Constants DEF ClientPlaces, ServerPlaces, HandlerReceives
<1>2. QInv /\ [Next]_vars /\ [InTurn]_vars => QInv'
  <2> SUFFICES ASSUME QInv, [Next]_vars, [InTurn]_vars PROVE QInv'
    OBVIOUS
  <2>1. IInv' /\ HandlerReceives'
    BY IInvStep, HandlerReceivesStep
  <2>2. ClientPlaces' /\ ServerPlaces'
    <3>0. VerbsTypeOK /\ Paired /\ "client" \in Node /\ "server" \in Node
      BY Constants DEF IInv, TypeOK
    <3>1. CASE UNCHANGED vars
      BY <3>1 DEF vars, verbsVars, clientVars, serverVars, ClientPlaces, ServerPlaces, Sends
    <3>2. CASE ClientNext /\ InTurn
      <4>1. ClientPlaces' /\ OthersKeep("client") /\ pcS' = pcS
        BY <3>2, ClientPlacesStep DEF ClientNext, serverVars
      <4> QED BY <4>1, Constants DEF OthersKeep, ServerPlaces
    <3>3. CASE ServerNext /\ InTurn
      <4>1. ServerPlaces' /\ OthersKeep("server") /\ pcC' = pcC
        BY <3>3, ServerPlacesStep DEF ServerNext, clientVars
      <4> QED BY <4>1, Constants DEF OthersKeep, ClientPlaces
    <3>4. ASSUME NEW k \in Node, Nic(NicStep(k)) PROVE ClientPlaces' /\ ServerPlaces'
      <4>1. \A n \in Node : Sends(n)' = Sends(n)
        BY <3>0, <3>4, NicKeeps DEF Nic
      <4> QED BY <3>0, <3>4, <4>1 DEF Nic, clientVars, serverVars, ClientPlaces, ServerPlaces
    <3> QED BY <3>1, <3>2, <3>3, <3>4 DEF Next
  <2> QED BY <2>1, <2>2
<1>3. QInv => QueuesFit
  <2> SUFFICES ASSUME QInv PROVE QueuesFit
    OBVIOUS
  <2>1. VerbsTypeOK
    BY DEF IInv, TypeOK
  <2>2. Receives("client") <= 2 /\ Receives("server") <= 2
    <3>1. Receives("client") \in {0, 1}
      BY DEF IInv, Posted
    <3>2. CASE pcS = "handler"
      BY <2>1, <3>1, <3>2, SendsType, Constants DEF HandlerReceives
    <3>3. CASE pcS # "handler"
      <4>1. Receives("server") \in {0, 1}
        BY <3>3 DEF IInv, Posted
      <4> QED BY <3>1, <4>1
    <3> QED BY <3>2, <3>3
  <2>3. Sends("client") <= 3 /\ Sends("server") <= 3
    BY <2>1, SendsType, Constants DEF ClientPlaces, ServerPlaces
  <2> QED BY <2>1, <2>2, <2>3, WithinLimits, Constants
<1> QED BY <1>1, <1>2, <1>3, PTL DEF Spec
=============================================================================
