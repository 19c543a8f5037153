----------------------------- MODULE ReadProxy -----------------------------
(***************************************************************************)
(* Reading a file through the proxy of src/temp/proxy-switch.py (that of   *)
(* src/temp/proxy.py makes the same calls): the client runs                *)
(* SocketNode.c_init_send; the proxy's handler runs p_receive_client, then *)
(* send_for_meta on its queue pair to the metadata server, send_for_file on*)
(* its queue pair to the file server, and p_return_write back to the       *)
(* client; the servers run s_receive_meta_send and s_receive_file_send.    *)
(*                                                                         *)
(* Three pairs of end points: client - proxy, up1 - meta and up2 - file,   *)
(* where up1 and up2 are the proxy's client_1.node and client_2.node.      *)
(*                                                                         *)
(* This is the control-plane mode of the system (config.is_control_plane   *)
(* is True): the proxy itself relays the chunks and no switch rule is      *)
(* involved.                                                               *)
(***************************************************************************)
EXTENDS ProxyHandler

ASSUME ReadAssumption ==
  /\ Node = {"client", "proxy", "up1", "meta", "up2", "file"}
  /\ Peer["client"] = "proxy" /\ Peer["up1"] = "meta" /\ Peer["up2"] = "file"

VARIABLES sent,      \* elements of the pool written to the client
          pcM

proxyVars == <<handlerVars, sent>>
vars      == <<endsVars, proxyVars, pcM>>

TypeOK ==
  /\ HandlerTypeOK
  /\ pcP \in {"begin", "pollA", "pollB", "fetch", "metaBegin", "metaAsk", "metaSent",
              "metaLoop", "metaGot", "fileBegin", "fileAsk", "fileLoop", "chunk",
              "return", "write", "wait", "waitRead", "serve", "fail", "closed"}
  /\ pcM \in {"idle", "pollA", "loop", "got", "done"}
  /\ sent \in 0..Len(pool)

Init == HandlerInit /\ sent = 0 /\ pcM = "idle"

-----------------------------------------------------------------------------
(* The proxy's handler: the SEND_FILE branch. *)

\* send_for_meta and send_for_file start alike: with BEGIN from server n comes
\* the receive for its answer, and it is sent the request.
ProxyAsk(n, here, next) ==
  /\ IF mem[n]["recv_mr"] = Text("begin")
       THEN /\ Moves(pcP, here, next)
            /\ PostRecv(n, "file_mr") /\ PostSend(n, "msg_mr", content)
       ELSE Moves(pcP, here, "fail") /\ NoRecv /\ NoSend
  /\ NoPoll

ProxyMetaPoll == Moves(pcP, "metaSent", "metaLoop") /\ PollForSend("up1")

ProxyMetaLoop == AwaitRecv("up1", pcP, "metaLoop", "metaGot")

ProxyMetaGot == /\ Moves(pcP, "metaGot", "fileBegin")
                /\ content' = mem["up1"]["file_mr"]
                /\ asked' = asked \union {"file"}
                /\ NoRecv /\ NoSend /\ NoPoll

\* p_return_write: an empty pool writes nothing at all.
ProxyReturn == /\ Moves(pcP, "return", IF pool = <<>> THEN "serve" ELSE "write")
               /\ PostRecv("proxy", "recv_mr") /\ NoSend /\ NoPoll

ProxyWrites(last, after) ==
  /\ sent' = sent + 1
  /\ Moves(pcP, "write", IF sent' < Len(pool) THEN after ELSE "serve")
  /\ PostWrite("proxy", "file_mr", pool[sent'], IF sent' < Len(pool) THEN 1 ELSE last)
  /\ NoRecv /\ NoPoll

\* Altered form: the next chunk is written without waiting for NEXT.
ProxyWriteOn == ProxyWrites(0, "write")

\* Altered form: the last chunk is marked like the others.
ProxyWriteUnmarked == ProxyWrites(1, "wait")

\* Only the last chunk has imm_data 0, and only it does not wait for NEXT.
ProxyWrite == ProxyWrites(0, "wait")

ProxyWait == AwaitRecv("proxy", pcP, "wait", "waitRead")

ProxyWaitRead == /\ IF mem["proxy"]["recv_mr"] = Text("next")
                      THEN Moves(pcP, "waitRead", "write") /\ PostRecv("proxy", "recv_mr")
                      ELSE Moves(pcP, "waitRead", "wait") /\ NoRecv
                 /\ NoSend /\ NoPoll

-----------------------------------------------------------------------------
(* The metadata server: s_receive_meta_send. *)

MetaBegin == Moves(pcM, "idle", "pollA") /\ "meta" \in asked /\ Welcome("meta")

MetaPollA == Moves(pcM, "pollA", "loop") /\ PollForSend("meta")

MetaLoop == AwaitRecv("meta", pcM, "loop", "got")

\* The request comes back with its host_server field filled in.
MetaReply == /\ Moves(pcM, "got", "done")
             /\ PostSend("meta", "msg_mr", mem["meta"]["file_mr"]) /\ NoRecv /\ NoPoll

-----------------------------------------------------------------------------
ClientNext == ClientStep /\ UNCHANGED <<runVars, fileVars, proxyVars, pcM, swapped>>

ProxyNext ==
  /\ \/ (ProxyPollA \/ ProxyMetaPoll) /\ UNCHANGED <<immP, content, pool, asked, sent>>
     \/ /\ \/ ProxyBegin \/ ProxyPollB \/ ProxyMetaLoop
           \/ ProxyAwaitBegin("up1", "metaBegin", "metaAsk")
           \/ ProxyAsk("up1", "metaAsk", "metaSent")
           \/ ProxyAwaitBegin("up2", "fileBegin", "fileAsk")
           \/ ProxyAsk("up2", "fileAsk", "fileLoop")
           \/ ProxyEnd("return") \/ ProxyReturn \/ ProxyWait \/ ProxyWaitRead \/ ProxyClose
        /\ UNCHANGED <<immP, content, pool, asked, sent, swapped>>
     \/ /\ ProxyFetch({"up1", "up2"}, "meta", "metaBegin") \/ ProxyMetaGot
        /\ UNCHANGED <<immP, pool, sent, swapped>>
     \/ ProxyLoop("up2")  /\ UNCHANGED <<content, pool, asked, sent, swapped>>
     \/ ProxyChunk("up2") /\ UNCHANGED <<immP, content, asked, sent, swapped>>
     \/ ProxyWrite        /\ UNCHANGED <<immP, content, pool, asked, swapped>>
  /\ UNCHANGED <<runVars, clientVars, fileVars, pcM>>

MetaNext == /\ \/ MetaPollA
               \/ (MetaBegin \/ MetaLoop \/ MetaReply) /\ UNCHANGED swapped
            /\ UNCHANGED <<runVars, clientVars, fileVars, proxyVars>>

\* The SEND_FILE_OP branch closes the node as soon as the method has returned.
FileNextStep == /\ \/ "file" \in asked /\ FileBegin
                   \/ FileStep
                   \/ pcF \in {"return", "fail"} /\ FileClose
                /\ UNCHANGED <<runVars, clientVars, proxyVars, pcM>>

Nic(step) == step /\ UNCHANGED <<runVars, clientVars, fileVars, proxyVars, pcM, swapped>>

Next == \/ ClientNext \/ ProxyNext \/ MetaNext \/ FileNextStep
        \/ \E n \in Node : Nic(NicStep(n))

Spec == Init /\ [][Next]_vars

\* Every process runs, and the adapters and the network make progress.
FairSpec == /\ Spec
            /\ WF_vars(ClientNext) /\ WF_vars(ProxyNext)
            /\ WF_vars(MetaNext) /\ WF_vars(FileNextStep)
            /\ \A n \in Node : /\ WF_vars(Nic(Execute(n)))
                               /\ WF_vars(Nic(Deliver(n) \/ Drop(n)))

-----------------------------------------------------------------------------
(* Properties. *)

\* A message can be dropped for want of a receive in two windows only, both of the
\* client: it has asked for the file and not yet posted file_mr, or it has sent
\* NEXT (the restored client does) and not yet posted file_mr again.  All the
\* others find their receives, at all six end points.
DropsOnlyAtClient ==
  \A n \in Node :
     Ready(n) \/ (n = "client" /\ (pcC = "prepost" \/ (pcC = "repost" /\ signals)))

\* Blocks reach the client only once the proxy holds all of the file, one block for
\* each chunk, in the file's order.
RelayedWhole == dst # <<>> => pool = Blocks

\* No region changes under its reader: no message lands in it between the poll
\* of the message that filled it and its read, and none is reused while a send
\* that names it is still queued.  Only the NEXT of the other side keeps the
\* relayed chunks apart in file_mr.
BuffersSafe ==
  [][/\ \A h \in {<<"client", "file_mr", pcC = "imm">>, <<"client", "file_end", pcC = "imm">>,
                  <<"proxy",  "file_mr", pcP = "fetch">>,
                  <<"proxy",  "recv_mr", pcP = "waitRead">>,
                  <<"up1",    "file_mr", pcP = "metaGot">>,
                  <<"up2",    "file_mr", pcP = "chunk">>, <<"up2", "file_end", pcP = "chunk">>,
                  <<"meta",   "file_mr", pcM = "got">>,
                  <<"file",   "recv_mr", pcF = "next">>} :
           h[3] => mem'[h[1]][h[2]] = mem[h[1]][h[2]]
     /\ \A n \in Node : SendBufferHeld(n)]_vars

\* The read implements the abstract transfer of the file's blocks: only the next one
\* is saved, a last one that ends with old bytes included, and when the client closes
\* with its file_attr done, which is when it sends DONE, its copy has them all.
Transfer == INSTANCE FileTransfer
              WITH file <- Blocks, saved <- dst, acked <- doneC /\ pcC = "closed"
TransferSpec == Transfer!Spec

\* When every message is in time, this is where a read ends, and nothing else
\* can become of it: of a file that cannot be opened, or whose server stops at
\* its pause, nothing reaches the client, and both it and the proxy wait; of an
\* empty file the proxy has nothing to return and the client waits; a client
\* that sends no NEXT gets one chunk of several, and proxy and client wait for
\* each other.  Only then is the file whole and everything closed: one chunk,
\* or a client that sends NEXT.
ReadOutcome ==
  LET fetched == canOpen /\ ~ (pause /\ size > 0)
      whole   == fetched /\ (size = 1 \/ (signals /\ size > 1)) IN
  []InTime =>
    <>[]/\ Len(dst) = CASE whole -> size [] fetched /\ size > 1 -> 1 [] OTHER -> 0
        /\ pcC = IF whole THEN "closed" ELSE "loop"
        /\ pcP = CASE whole -> "closed" [] ~ fetched -> "fileLoop"
                   [] size = 0 -> "serve" [] OTHER -> "wait"

\* p_return_write goes on after each chunk: NEXT arrives.
SignalArrives == pcP = "wait" ~> pcP # "wait" \/ lost > 0
=============================================================================
