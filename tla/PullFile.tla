------------------------------ MODULE PullFile ------------------------------
(***************************************************************************)
(* Pulling a file: SocketClient.pull_file and SocketNode.c_pull_file on    *)
(* the client, HandleServer's PULL branch and SocketNode.s_push_file on    *)
(* the server.  The roles of the push are swapped, and with them the       *)
(* order of a post and the message that provokes its answer: both sides    *)
(* post the receive for the first answer after they have asked for it.     *)
(***************************************************************************)
EXTENDS Verbs

CONSTANT NumChunks   \* chunks of FILE_SIZE bytes in the server's file

ASSUME PullAssumption ==
  /\ NumChunks \in Nat
  /\ Node = {"client", "server"}
  /\ Peer = [n \in Node |-> IF n = "client" THEN "server" ELSE "client"]

VARIABLES pcC,
          immC,      \* imm_data of the completion the client is handling
          dst,       \* chunks the client has written to fd, in order
          pcS,
          canOpen,   \* the server's open(file_name) succeeds
          pos,       \* chunks the server has read from its file
          wcS,       \* what the server's poll of lines 707-708 returned
          doneS      \* file_attr.is_done() on the server

clientVars == <<pcC, immC, dst>>
serverVars == <<pcS, canOpen, pos, wcS, doneS>>
vars       == <<verbsVars, clientVars, serverVars>>

TypeOK == /\ VerbsTypeOK
          /\ pcC \in {"begin", "check", "prepost", "loop", "msg", "imm", "save",
                      "close", "closed", "cut"}
          /\ immC \in 0..1
          /\ dst \in Seq(Nat)
          /\ pcS \in {"start", "pollA", "pollB", "serve", "prepost", "loop", "repost",
                      "handle", "handler", "closed"}
          /\ canOpen \in BOOLEAN
          /\ pos \in 0..NumChunks
          /\ wcS \in {"none", "SEND", "RECV", "RECV_IMM"}
          /\ doneS \in BOOLEAN

\* Both queue pairs are in RTS; pull_file has posted its first receive and
\* sent PULL over TCP.
Init == /\ VerbsInit([n \in Node |-> IF n = "client" THEN <<"recv_mr">> ELSE <<>>])
        /\ pcC = "begin" /\ immC = 0 /\ dst = <<>>
        /\ pcS = "start" /\ canOpen \in BOOLEAN /\ pos = 0 /\ wcS = "none" /\ doneS = FALSE

-----------------------------------------------------------------------------
(* The client: pull_file and c_pull_file. *)

ClientPollBegin == Moves(pcC, "begin", "check") /\ PollRecv("client")

\* BEGIN: the name is written into the server's file_mr.  Anything else ends
\* the method.
ClientCheck == /\ IF mem["client"]["recv_mr"] = Text("begin")
                    THEN /\ Moves(pcC, "check", "prepost")
                         /\ PostWrite("client", "msg_mr", Text("name"), 1)
                    ELSE Moves(pcC, "check", "close") /\ NoSend
               /\ NoRecv /\ NoPoll

ClientPreposts(post) == Moves(pcC, "prepost", "loop") /\ post /\ NoSend /\ NoPoll

\* Altered form: no receive is posted for the answer to the name.
ClientPrepostNone == ClientPreposts(NoRecv)

\* Only now the receive for the server's first answer.
ClientPrepost == ClientPreposts(PostRecv("client", "file_mr"))

ClientPoll == \/ Moves(pcC, "loop", "loop") /\ PollSend("client") /\ UNCHANGED immC
              \/ /\ PollRecv("client")
                 /\ immC' = Head(rcq["client"]).imm
                 /\ Moves(pcC, "loop",
                          IF Head(rcq["client"]).op = "RECV_IMM" THEN "imm" ELSE "msg")

\* A SEND: FILE_ERR_MSG ends the loop, anything else is ignored.
ClientMessage ==
  /\ Moves(pcC, "msg", IF mem["client"]["file_mr"] = Text("err") THEN "close" ELSE "loop")
  /\ NoRecv /\ NoSend /\ NoPoll

\* An empty write ends the file: DONE is posted, and the method returns to
\* node.close() without waiting for its transmission.
ClientEnd == /\ immC = 0 /\ Moves(pcC, "imm", "close")
             /\ PostSend("client", "msg_mr", Text("done")) /\ NoRecv /\ NoPoll

ClientReposts(send) == /\ immC # 0 /\ Moves(pcC, "imm", "save")
                       /\ PostRecv("client", "file_mr") /\ send /\ NoPoll

\* Altered form: READY is sent with the repost, before file_mr is read.
ClientRepostReady == ClientReposts(PostSend("client", "msg_mr", Text("ready")))

ClientRepost == ClientReposts(NoSend)

ClientSaves(answer) == /\ Moves(pcC, "save", "loop")
                       /\ dst' = Append(dst, mem["client"]["file_mr"].idx)
                       /\ PostSend("client", "msg_mr", Text(answer)) /\ NoRecv /\ NoPoll

\* Altered form: DONE is sent for a chunk.
ClientSaveDone == ClientSaves("done")

ClientSave == ClientSaves("ready")

\* node.close(), then DONE over TCP; "cut" when a send was still queued.
ClientClose == /\ Moves(pcC, "close", IF sq["client"] = <<>> THEN "closed" ELSE "cut")
               /\ CloseNode("client")

-----------------------------------------------------------------------------
(* The server: s_push_file and the DONE branch of its handler. *)

ServerStart == Moves(pcS, "start", "pollA") /\ Welcome("server")

\* Two polls in a row, marked "post send" and "post recv" in the source; the
\* first result is thrown away whatever it is.
ServerPollTwice ==
  /\ \/ PollSend("server") /\ wcS' = "SEND"
     \/ PollRecv("server") /\ wcS' = Head(rcq["server"]).op
  /\ \/ Moves(pcS, "pollA", "pollB")
     \/ Moves(pcS, "pollB", IF wcS' = "RECV_IMM" THEN "serve" ELSE "prepost")

\* The next chunk, or at the end of the file an empty write.
WriteChunk == pos' = pos + 1 /\ PostWrite("server", "file_mr", Chunk(pos + 1), 1)
WriteNext  == \/ pos < NumChunks /\ WriteChunk
              \/ pos = NumChunks /\ pos' = pos /\ PostEmptyWrite("server", "file_mr")

ServerOpens(report) ==
  /\ \/ canOpen /\ Moves(pcS, "serve", "prepost") /\ WriteNext
     \/ ~ canOpen /\ Moves(pcS, "serve", "handler") /\ report /\ pos' = pos
  /\ NoRecv /\ NoPoll

\* Altered form: the error is not reported to the client.
ServerOpenSilent == ServerOpens(NoSend)

\* The name is read and the file opened; the first chunk is written at once,
\* and an OSError is reported with FILE_ERR_MSG.
ServerOpen == ServerOpens(PostSend("server", "msg_mr", Text("err")))

ServerPrepost == /\ Moves(pcS, "prepost", "loop")
                 /\ PostRecv("server", "recv_mr") /\ NoSend /\ NoPoll

ServerPoll == AwaitRecv("server", pcS, "loop", "repost")

\* The receive is reposted before recv_mr is read.
ServerRepost == /\ Moves(pcS, "repost", "handle")
                /\ PostRecv("server", "recv_mr") /\ NoSend /\ NoPoll

ServerSends(write) == /\ mem["server"]["recv_mr"] = Text("ready")
                      /\ Moves(pcS, "handle", "loop") /\ write /\ NoRecv /\ NoPoll

\* Altered form: one chunk more is read and written than the file has.
ServerSendChunkLate == ServerSends(WriteChunk)

ServerSendChunk == ServerSends(WriteNext)

ServerOther == /\ mem["server"]["recv_mr"] # Text("ready")
               /\ doneS' = (mem["server"]["recv_mr"] = Text("done"))
               /\ Moves(pcS, "handle", IF doneS' THEN "handler" ELSE "loop")
               /\ NoRecv /\ NoSend /\ NoPoll

\* The handler reads DONE from TCP and closes the node.
ServerClose == /\ pcC \in {"closed", "cut"} /\ Moves(pcS, "handler", "closed")
               /\ CloseNode("server")

-----------------------------------------------------------------------------
ClientNext == /\ \/ /\ \/ ClientPollBegin \/ ClientCheck \/ ClientPrepost \/ ClientMessage
                       \/ ClientEnd \/ ClientRepost \/ ClientClose
                    /\ UNCHANGED <<immC, dst>>
                 \/ ClientPoll /\ UNCHANGED dst
                 \/ ClientSave /\ UNCHANGED immC
              /\ UNCHANGED serverVars

ServerNext == /\ \/ /\ ServerStart \/ ServerPrepost \/ ServerPoll \/ ServerRepost \/ ServerClose
                    /\ UNCHANGED <<pos, wcS, doneS>>
                 \/ ServerPollTwice /\ UNCHANGED <<pos, doneS>>
                 \/ (ServerOpen \/ ServerSendChunk) /\ UNCHANGED <<wcS, doneS>>
                 \/ ServerOther /\ UNCHANGED <<pos, wcS>>
              /\ UNCHANGED <<clientVars, canOpen>>

Nic(step) == step /\ UNCHANGED <<clientVars, serverVars>>

Next == ClientNext \/ ServerNext \/ \E n \in Node : Nic(NicStep(n))

Spec == Init /\ [][Next]_vars

FairSpec == /\ Spec
            /\ WF_vars(ClientNext) /\ WF_vars(ServerNext)
            /\ \A n \in Node : /\ WF_vars(Nic(Execute(n)))
                               /\ WF_vars(Nic(Deliver(n) \/ Drop(n)))

-----------------------------------------------------------------------------
(* Properties. *)

\* A message can meet a live queue pair without a posted receive in two
\* windows only, at the start: the client has asked for the file and not yet
\* posted file_mr, the server has written the first chunk and not yet posted
\* recv_mr.  After that every message finds its receive.
DropsOnlyAtStart == /\ Ready("client") \/ pcC = "prepost"
                    /\ Ready("server") \/ pcS = "prepost"

\* No region changes under its reader: no message lands in file_mr on the client
\* or recv_mr on the server between the poll of the message that filled it and its
\* read, and none is reused while a send that names it is still queued.
BuffersSafe ==
  [][/\ pcC \in {"imm", "save", "msg"} => mem'["client"]["file_mr"] = mem["client"]["file_mr"]
     /\ pcS \in {"repost", "handle"} =>
          (mem'["server"]["recv_mr"] = mem["server"]["recv_mr"])
     /\ \A n \in Node : SendBufferHeld(n)]_vars

\* The pull implements the abstract transfer: only the next chunk is saved,
\* and the server's file_attr is done only once the client's copy is whole.
Transfer == INSTANCE FileTransfer
              WITH file <- [i \in 1..NumChunks |-> i], saved <- dst, acked <- doneS
TransferSpec == Transfer!Spec

\* Nothing is lost, and neither of the two races the source leaves open is: a
\* message that finds no receive, and the server's two polls returning the
\* client's name where the completion of BEGIN was expected.
InTime == /\ lost = 0
          /\ \A n \in Node : Ready(n)
          /\ pcS = "pollB" => wcS = "SEND"

\* When every message is in time, a pull ends on the client, with the whole file
\* when the server can open it and with nothing otherwise; and the server's thread
\* returns from s_push_file as well, unless the client's close has flushed the
\* DONE that it had just posted.
PullOutcome == []InTime => <>[](/\ pcC \in {"closed", "cut"}
                                /\ Len(dst) = IF canOpen THEN NumChunks ELSE 0
                                /\ pcC = "closed" => pcS = "closed")
=============================================================================
