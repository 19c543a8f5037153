------------------------------ MODULE PushFile ------------------------------
(***************************************************************************)
(* Pushing a file: SocketClient.push_file and SocketNode.c_push_file on    *)
(* the client, HandleServer's PUSH branch and SocketNode.s_save_file on    *)
(* the server.  The client writes the name, then each chunk, then an empty *)
(* write into the server's file_mr, each with an immediate value; the      *)
(* server answers each with a READY and the last with a DONE.              *)
(*                                                                         *)
(* A label of pcC and pcS is a place in the method where the process waits *)
(* or where the adapter may act between two of its statements: the poll of *)
(* a message, the repost of the receive and the read of the region are     *)
(* steps of their own where the code leaves a window between them.         *)
(***************************************************************************)
EXTENDS Verbs

CONSTANT NumChunks   \* chunks of FILE_SIZE bytes in the client's file

ASSUME PushAssumption ==
  /\ NumChunks \in Nat
  /\ Node = {"client", "server"}
  /\ Peer = [n \in Node |-> IF n = "client" THEN "server" ELSE "client"]

VARIABLES pcC,
          canOpen,   \* the client's open(file_path) succeeds
          pos,       \* chunks the client has read from its file
          doneC,     \* file_attr.is_done() on the client
          pcS,
          imm,       \* imm_data of the completion the server is handling
          named,     \* the server's file_attr.file_name and fd are set
          dst        \* chunks the server has written to fd, in order

clientVars == <<pcC, canOpen, pos, doneC>>
serverVars == <<pcS, imm, named, dst>>
vars       == <<verbsVars, clientVars, serverVars>>

TypeOK == /\ VerbsTypeOK
          /\ pcC \in {"arm", "begin", "check", "prepost", "loop", "handle", "close", "closed"}
          /\ canOpen \in BOOLEAN
          /\ pos \in 0..NumChunks
          /\ doneC \in BOOLEAN
          /\ pcS \in {"start", "loop", "msg", "imm", "save", "finish", "drain",
                      "handler", "closed"}
          /\ imm \in 0..1
          /\ named \in BOOLEAN
          /\ dst \in Seq(Nat)

\* Metadata is exchanged and both queue pairs are in RTS; push_file has posted
\* its first receive and sent PUSH over TCP.
Init == /\ VerbsInit([n \in Node |-> IF n = "client" THEN <<"recv_mr">> ELSE <<>>])
        /\ pcC = "arm" /\ canOpen \in BOOLEAN /\ pos = 0 /\ doneC = FALSE
        /\ pcS = "start" /\ imm = 0 /\ named = FALSE /\ dst = <<>>

-----------------------------------------------------------------------------
(* The client: push_file and c_push_file. *)

ClientArm == /\ pcC = "arm" /\ pcC' = "begin"
             /\ PostRecv("client", "recv_mr") /\ NoSend /\ NoPoll
             /\ UNCHANGED <<serverVars, canOpen, pos, doneC>>

\* The poll for BEGIN: nothing has been sent, so it returns a receive.
ClientPollBegin == /\ pcC = "begin" /\ pcC' = "check"
                   /\ PollRecv("client")
                   /\ UNCHANGED <<serverVars, canOpen, pos, doneC>>

TextRead == mem["client"]["recv_mr"]

ClientWriteName == /\ pcC = "check" /\ TextRead = Text("begin") /\ canOpen
                   /\ pcC' = "prepost"
                   /\ PostWrite("client", "file_mr", Text("name"), 1) /\ NoRecv /\ NoPoll
                   /\ UNCHANGED <<serverVars, canOpen, pos, doneC>>

\* except OSError: the text of the error is sent, and the method returns; it
\* also returns, with nothing sent, when the first message is not BEGIN.
ClientGiveUp == /\ pcC = "check" /\ ~ (TextRead = Text("begin") /\ canOpen)
                /\ pcC' = "close"
                /\ IF TextRead = Text("begin")
                     THEN PostSend("client", "msg_mr", Text("oserr"))
                     ELSE NoSend
                /\ NoRecv /\ NoPoll
                /\ UNCHANGED <<serverVars, canOpen, pos, doneC>>

\* Altered form: the first chunk is written without waiting for READY.
ClientPrepostPipelined ==
  /\ pcC = "prepost" /\ pcC' = "loop"
  /\ PostRecv("client", "recv_mr") /\ NoPoll
  /\ PostWrite("client", "file_mr", Chunk(1), 1) /\ pos' = 1
  /\ UNCHANGED <<serverVars, canOpen, doneC>>

ClientPrepost == /\ pcC = "prepost" /\ pcC' = "loop"
                 /\ PostRecv("client", "recv_mr") /\ NoSend /\ NoPoll
                 /\ UNCHANGED <<serverVars, canOpen, pos, doneC>>

ClientPoll == /\ pcC = "loop"
              /\ \/ PollSend("client") /\ pcC' = "loop"
                 \/ PollRecv("client") /\ pcC' = "handle"
              /\ UNCHANGED <<serverVars, canOpen, pos, doneC>>

\* The next chunk, or at the end of the file an empty write.
WriteNext == \/ /\ pos < NumChunks /\ pos' = pos + 1
                /\ PostWrite("client", "file_mr", Chunk(pos + 1), 1)
             \/ /\ pos = NumChunks /\ pos' = pos
                /\ PostEmptyWrite("client", "file_mr")

\* Altered form: the client counts itself done when it has sent everything.
ClientSendChunkDone ==
  /\ pcC = "handle" /\ TextRead = Text("ready")
  /\ PostRecv("client", "recv_mr") /\ NoPoll /\ WriteNext
  /\ doneC' = (pos' = NumChunks)
  /\ pcC' = IF doneC' THEN "close" ELSE "loop"
  /\ UNCHANGED <<serverVars, canOpen>>

\* Altered form: the chunks of the file are written without a poll in between.
ClientSendChunkOn ==
  /\ pcC = "handle" /\ TextRead = Text("ready")
  /\ pcC' = IF pos < NumChunks THEN "handle" ELSE "loop"
  /\ NoRecv /\ NoPoll /\ WriteNext
  /\ UNCHANGED <<serverVars, canOpen, doneC>>

\* READY: recv_mr is read, its receive reposted, and the next chunk written.
ClientSendChunk == /\ pcC = "handle" /\ TextRead = Text("ready") /\ pcC' = "loop"
                   /\ PostRecv("client", "recv_mr") /\ NoPoll /\ WriteNext
                   /\ UNCHANGED <<serverVars, canOpen, doneC>>

\* DONE ends the loop; any other text is ignored.
ClientOther == /\ pcC = "handle" /\ TextRead # Text("ready")
               /\ doneC' = (TextRead = Text("done"))
               /\ pcC' = IF doneC' THEN "close" ELSE "loop"
               /\ PostRecv("client", "recv_mr") /\ NoSend /\ NoPoll
               /\ UNCHANGED <<serverVars, canOpen, pos>>

\* node.close(), then DONE over TCP.
ClientClose == /\ pcC = "close" /\ pcC' = "closed"
               /\ CloseNode("client")
               /\ UNCHANGED <<serverVars, canOpen, pos, doneC>>

-----------------------------------------------------------------------------
(* The server: s_save_file and the DONE branch of its handler. *)

ServerStart == /\ pcS = "start" /\ pcS' = "loop"
               /\ PostRecv("server", "file_mr")
               /\ PostSend("server", "msg_mr", Text("begin")) /\ NoPoll
               /\ UNCHANGED <<clientVars, imm, named, dst>>

ServerPoll == /\ pcS = "loop"
              /\ \/ /\ PollSend("server")
                    /\ UNCHANGED <<pcS, imm>>
                 \/ /\ PollRecv("server")
                    /\ pcS' = IF Head(rcq["server"]).op = "RECV_IMM" THEN "imm" ELSE "msg"
                    /\ imm' = Head(rcq["server"]).imm
              /\ UNCHANGED <<clientVars, named, dst>>

\* A SEND: only FILE_ERR_MSG ends the loop, and no receive is reposted.
ServerMessage == /\ pcS = "msg"
                 /\ pcS' = IF mem["server"]["file_mr"] = Text("err") THEN "finish" ELSE "loop"
                 /\ NoRecv /\ NoSend /\ NoPoll
                 /\ UNCHANGED <<clientVars, imm, named, dst>>

ServerEnd == /\ pcS = "imm" /\ imm = 0 /\ pcS' = "finish"
             /\ PostSend("server", "msg_mr", Text("done")) /\ NoRecv /\ NoPoll
             /\ UNCHANGED <<clientVars, imm, named, dst>>

\* Altered form: the receive is not reposted after the name.
ServerCreateNoRepost ==
  /\ pcS = "imm" /\ imm # 0 /\ ~ named /\ named' = TRUE /\ pcS' = "loop"
  /\ PostSend("server", "msg_mr", Text("ready")) /\ NoRecv /\ NoPoll
  /\ UNCHANGED <<clientVars, imm, dst>>

\* Altered form: the write of the name goes on to be saved as a chunk.
ServerCreateFallsThrough ==
  /\ pcS = "imm" /\ imm # 0 /\ ~ named /\ named' = TRUE /\ pcS' = "save"
  /\ PostRecv("server", "file_mr") /\ NoSend /\ NoPoll
  /\ UNCHANGED <<clientVars, imm, dst>>

\* The first write carries the name; the file is created under a fixed one.
ServerCreate == /\ pcS = "imm" /\ imm # 0 /\ ~ named /\ named' = TRUE /\ pcS' = "loop"
                /\ PostRecv("server", "file_mr")
                /\ PostSend("server", "msg_mr", Text("ready")) /\ NoPoll
                /\ UNCHANGED <<clientVars, imm, dst>>

\* Altered form: READY is sent with the repost, before file_mr is read.
ServerRepostReady ==
  /\ pcS = "imm" /\ imm # 0 /\ named /\ pcS' = "save"
  /\ PostRecv("server", "file_mr")
  /\ PostSend("server", "msg_mr", Text("ready")) /\ NoPoll
  /\ UNCHANGED <<clientVars, imm, named, dst>>

\* A chunk: the receive is reposted before file_mr is read.
ServerRepost == /\ pcS = "imm" /\ imm # 0 /\ named /\ pcS' = "save"
                /\ PostRecv("server", "file_mr") /\ NoSend /\ NoPoll
                /\ UNCHANGED <<clientVars, imm, named, dst>>

\* Altered form: the chunk is saved and the client is not told.
ServerSaveSilent ==
  /\ pcS = "save" /\ pcS' = "loop"
  /\ dst' = Append(dst, mem["server"]["file_mr"].idx)
  /\ NoRecv /\ NoSend /\ NoPoll
  /\ UNCHANGED <<clientVars, imm, named>>

ServerSave == /\ pcS = "save" /\ pcS' = "loop"
              /\ dst' = Append(dst, mem["server"]["file_mr"].idx)
              /\ PostSend("server", "msg_mr", Text("ready")) /\ NoRecv /\ NoPoll
              /\ UNCHANGED <<clientVars, imm, named>>

\* After the loop, a second DONE if a file was created, and one poll of
\* whatever completion comes first.
ServerFinish == /\ pcS = "finish"
                /\ pcS' = IF named THEN "drain" ELSE "handler"
                /\ IF named THEN PostSend("server", "msg_mr", Text("done")) ELSE NoSend
                /\ NoRecv /\ NoPoll
                /\ UNCHANGED <<clientVars, imm, named, dst>>

ServerDrain == /\ pcS = "drain" /\ pcS' = "handler"
               /\ PollAny("server")
               /\ UNCHANGED <<clientVars, imm, named, dst>>

\* The handler reads DONE from TCP and closes the node.
ServerClose == /\ pcS = "handler" /\ pcC = "closed" /\ pcS' = "closed"
               /\ CloseNode("server")
               /\ UNCHANGED <<clientVars, imm, named, dst>>

-----------------------------------------------------------------------------
ClientNext == \/ ClientArm \/ ClientPollBegin \/ ClientWriteName \/ ClientGiveUp
              \/ ClientPrepost \/ ClientPoll \/ ClientSendChunk \/ ClientOther \/ ClientClose

ServerNext == \/ ServerStart \/ ServerPoll \/ ServerMessage \/ ServerEnd \/ ServerCreate
              \/ ServerRepost \/ ServerSave \/ ServerFinish \/ ServerDrain \/ ServerClose

Nic(step) == step /\ UNCHANGED <<clientVars, serverVars>>

Next == ClientNext \/ ServerNext \/ \E n \in Node : Nic(NicStep(n))

Spec == Init /\ [][Next]_vars

\* Both processes run, poll_cq is a busy loop, and the adapters and the
\* network make progress.
Fairness == /\ WF_vars(ClientNext) /\ WF_vars(ServerNext)
            /\ \A n \in Node : /\ WF_vars(Nic(Execute(n)))
                               /\ WF_vars(Nic(Deliver(n) \/ Drop(n)))

FairSpec == Spec /\ Fairness

-----------------------------------------------------------------------------
(* Properties. *)

\* The saved file is always a prefix of the client's file, and never runs
\* ahead of what the client has read: no chunk is saved twice, skipped, torn
\* or saved before the name has created the file.
SavedIsPrefix == /\ dst = [i \in 1..Len(dst) |-> i]
                 /\ Len(dst) <= pos
                 /\ dst # <<>> => named

\* A message that arrives at a live queue pair finds a posted receive, and no
\* more receives are posted than max_recv_wr allows.
\* UC drops a message that finds none, and nothing resends it.
ReceivesPosted == \A n \in Node : Ready(n) /\ Len(rq[n]) <= MaxRecvWr

\* Between the poll of a message and the read of the region it filled, the
\* adapter writes nothing into that region: file_mr on the server (where the
\* receive is even reposted before the read) and recv_mr on the client.
BufferStable ==
  [][/\ pcS \in {"imm", "save", "msg"} => mem'["server"]["file_mr"] = mem["server"]["file_mr"]
     /\ pcC \in {"check", "handle"} =>
          (mem'["client"]["recv_mr"] = mem["client"]["recv_mr"])]_vars

\* A region is not reused while a send that names it is queued: neither side
\* waits for its send completions, so only the other side's answer protects
\* file_mr and msg_mr from being overwritten too early.
SendBuffersHeld == [][\A n \in Node : SendBufferHeld(n)]_vars

\* The push implements the abstract transfer: only the next chunk is saved,
\* and the client's file_attr is done only once the copy is whole.
Transfer == INSTANCE FileTransfer
              WITH file <- [i \in 1..NumChunks |-> i], saved <- dst, acked <- doneC
TransferSpec == Transfer!Spec

\* Unless a message is lost, this is where a push ends: with the whole file saved
\* and both sides closed; or, of a file that the client cannot open, with nothing
\* saved and the server's thread in its poll for ever, because the text it is sent
\* is not FILE_ERR_MSG.
PushOutcome ==
  <>[]\/ lost > 0
      \/ /\ pcC = "closed"
         /\ IF canOpen THEN pcS = "closed" /\ Len(dst) = NumChunks /\ doneC
                       ELSE pcS = "loop" /\ dst = <<>>
=============================================================================
