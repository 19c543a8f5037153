---------------------------- MODULE ProxyHandler ----------------------------
(***************************************************************************)
(* What the handlers of the two proxies have in common when they serve     *)
(* SEND_FILE: p_receive_client (src/temp/proxy-switch.py) and              *)
(* p_receive_send (src/temp/proxy-server1.py) on the client's side,        *)
(* send_for_meta, send_for_file and p_trans_write on a server's side.      *)
(***************************************************************************)
EXTENDS ReadEnds

VARIABLES pcP, immP,
          content,   \* the request as the proxy passes it on
          pool,      \* file_stream_pool, of blocks as long as the region
          asked      \* servers sent their TCP command by the proxy

handlerVars == <<pcP, immP, content, pool, asked>>

HandlerTypeOK == /\ EndsTypeOK
                 /\ immP \in 0..1 /\ content \in Payload /\ pool \in Seq(Payload)
                 /\ asked \subseteq Node

\* The client has asked the proxy; the proxy has not asked its servers.
HandlerInit == /\ EndsInit
               /\ pcP = "begin" /\ immP = 0 /\ content = Nothing /\ pool = <<>> /\ asked = {}

-----------------------------------------------------------------------------
ProxyBegin == Moves(pcP, "begin", "pollA") /\ Welcome("proxy")

ProxyPollA == Moves(pcP, "pollA", "pollB") /\ PollForSend("proxy")

\* "return content" fails when the second poll does not return the request.
ProxyPollB == \/ Moves(pcP, "pollB", "fail") /\ PollSend("proxy")
              \/ Moves(pcP, "pollB", "fetch") /\ PollRecv("proxy")

\* The request is read, receives for BEGIN are posted on the upstream nodes, and
\* a server is sent its TCP command.
ProxyFetch(nodes, server, next) ==
  /\ Moves(pcP, "fetch", next)
  /\ content' = mem["proxy"]["file_mr"]
  /\ rq' = [n \in Node |-> IF n \in nodes THEN Append(rq[n], "recv_mr") ELSE rq[n]]
  /\ asked' = asked \union {server}
  /\ NoSend /\ NoPoll

ProxyAwaitBegin(n, here, next) == Moves(pcP, here, next) /\ PollRecv(n)

\* A SEND from the file server, such as FILE_ERR_MSG, is ignored.
ProxyLoop(n) == \/ Moves(pcP, "fileLoop", "fileLoop") /\ PollSend(n) /\ UNCHANGED immP
                \/ /\ PollRecv(n)
                   /\ immP' = Head(rcq[n]).imm
                   /\ Moves(pcP, "fileLoop",
                            IF Head(rcq[n]).op = "RECV_IMM" THEN "chunk" ELSE "fileLoop")

ProxyKeeps(n, kept) == /\ immP # 0 /\ Moves(pcP, "chunk", "fileLoop")
                       /\ pool' = kept
                       /\ PostRecv(n, "file_mr")
                       /\ PostSend(n, "msg_mr", Text("next")) /\ NoPoll

\* Altered form: but for the first, a chunk is acknowledged and not kept.
ProxyChunkLost(n) == ProxyKeeps(n, IF pool = <<>> THEN <<FileBlock(n)>> ELSE pool)

ProxyChunk(n) == ProxyKeeps(n, Append(pool, FileBlock(n)))

ProxyEnd(next) == immP = 0 /\ Moves(pcP, "chunk", next) /\ NoRecv /\ NoSend /\ NoPoll

\* The handler's except branch, or DONE from the client: node.close().
ProxyClose == /\ \/ Moves(pcP, "fail", "closed")
                 \/ pcC = "closed" /\ Moves(pcP, "serve", "closed")
              /\ CloseNode("proxy")
=============================================================================
