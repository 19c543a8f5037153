---------------------------- MODULE SwitchedRead ----------------------------
(***************************************************************************)
(* Reading a file through the proxy of src/temp/proxy-server1.py: the      *)
(* client runs c_init_send, the proxy's handler p_receive_send and         *)
(* p_trans_write, the file server's handler the SEND_FILE branch of        *)
(* src/temp/server.py.  In the data plane the switch of                    *)
(* src/temp/modify-header.p4 stands in front of the client: it turns the   *)
(* server's chunks into writes to the client.                              *)
(*                                                                         *)
(* Two pairs of end points, client - proxy and up1 - file.  One session,   *)
(* whose packets find their own three rules: SwitchRules says when that is *)
(* so.  A chunk is a message here and a sequence of packets there; what the *)
(* switch does to its packets is done to the message.                      *)
(***************************************************************************)
EXTENDS ProxyHandler

ASSUME SwitchedAssumption ==
  /\ Node = {"client", "proxy", "up1", "file"}
  /\ Peer["client"] = "proxy" /\ Peer["up1"] = "file"

VARIABLES control,     \* config.is_control_plane
          shortBegin,  \* BEGIN is too short to be taken for a RETH
          lowBuffer,   \* the client's file_mr lies in the first 4 GiB
          last         \* the last chunk: of "one" packet, or of several, the
                       \* last of them too "short" for a RETH or "long" enough;
                       \* FILE_SIZE bytes are several packets, all of them long

switchVars == <<control, shortBegin, lowBuffer, last>>
vars       == <<endsVars, handlerVars, switchVars>>

TypeOK == /\ HandlerTypeOK
          /\ pcP \in {"begin", "pollA", "pollB", "fetch", "await", "ask", "prepost",
                      "fileLoop", "chunk", "serve", "fail", "closed"}
          /\ {control, shortBegin, lowBuffer} \subseteq BOOLEAN
          /\ last \in {"one", "short", "long"}

Init == /\ HandlerInit
        /\ control \in BOOLEAN /\ shortBegin \in BOOLEAN
        /\ lowBuffer \in BOOLEAN /\ last \in {"one", "short", "long"}
        /\ size > 0 /\ last # "long" => short

-----------------------------------------------------------------------------
(* The proxy's handler. *)

ReceiveSend == ProxyBegin \/ ProxyPollB

\* Altered form: p_trans_write goes on to wait for the file in both modes.
RequestWaits == /\ Moves(pcP, "ask", "prepost")
                /\ PostSend("up1", "msg_mr", content) /\ NoRecv /\ NoPoll

\* p_trans_write: the request is passed on; in the data plane that is all.
Request == /\ IF mem["up1"]["recv_mr"] = Text("begin")
                THEN PostSend("up1", "msg_mr", content) ELSE NoSend
           /\ Moves(pcP, "ask", IF control THEN "prepost" ELSE "serve")
           /\ NoRecv /\ NoPoll

\* Only now the receive for the first chunk.
Prepost == /\ Moves(pcP, "prepost", "fileLoop")
           /\ PostRecv("up1", "file_mr") /\ NoSend /\ NoPoll

-----------------------------------------------------------------------------
(* The switch. *)

\* A chunk of several packets has opcodes that the switch redirects
\* (WRITE_FIRST, WRITE_MIDDLE and WRITE_LAST, the last with immediate); a write of
\* one packet, such as the empty one at the end, has one that it lets pass.
LastIs(m, l) == m.data.idx = size /\ last = l
Several(m)   == m.data.kind \in {"chunk", "short"} /\ m.len = 1 /\ ~ LastIs(m, "one")

\* Altered form: the rules are there in the control plane as well.
RedirectsAlways(n, m) == n = "file" /\ Several(m)

Redirects(n, m) == ~ control /\ n = "file" /\ Several(m)

\* Every packet for the client that is long enough gets the client's address and
\* key where a RETH would be: the text of BEGIN, the content of a chunk (of which
\* the middle packets are spoilt as well, if there are any) and the immediate
\* value of its last packet, which becomes the high half of the address.
Rewritten(n, m) ==
  LET spoilt == [m EXCEPT !.data = Text("torn")] IN
  CASE Redirects(n, m) ->
         IF LastIs(m, "short") THEN {m, spoilt}
                               ELSE {[spoilt EXCEPT !.imm = IF lowBuffer THEN 0 ELSE 1]}
    [] n = "proxy" /\ ~ control /\ ~ shortBegin -> {spoilt}
    [] OTHER -> {m}

SwitchExecute(n) ==
  /\ sq[n] # <<>>
  /\ \E m \in Rewritten(n, Outgoing(n)) :
        Transmit(n, IF Redirects(n, Outgoing(n)) THEN "client" ELSE Peer[n], m)

-----------------------------------------------------------------------------
ClientNext == ClientStep /\ UNCHANGED <<runVars, fileVars, handlerVars, switchVars, swapped>>

\* The pool is not returned: the call of p_return_write is commented out.
ProxyNext ==
  /\ \/ ProxyPollA /\ UNCHANGED <<immP, content, pool, asked>>
     \/ /\ \/ ReceiveSend \/ ProxyAwaitBegin("up1", "await", "ask") \/ Request \/ Prepost
           \/ ProxyEnd("serve") \/ ProxyClose
        /\ UNCHANGED <<immP, content, pool, asked, swapped>>
     \/ ProxyFetch({"up1"}, "file", "await") /\ UNCHANGED <<immP, pool, swapped>>
     \/ ProxyLoop("up1")  /\ UNCHANGED <<content, pool, asked, swapped>>
     \/ ProxyChunk("up1") /\ UNCHANGED <<immP, content, asked, swapped>>
  /\ UNCHANGED <<runVars, clientVars, fileVars, switchVars>>

\* The file server waits for a DONE that the proxy never sends: only an
\* exception closes its node.
FileNextStep == /\ \/ "file" \in asked /\ FileBegin
                   \/ FileStep
                   \/ pcF = "fail" /\ FileClose
                /\ UNCHANGED <<runVars, clientVars, handlerVars, switchVars>>

Nic(step) == step /\ UNCHANGED <<runVars, clientVars, fileVars, handlerVars, switchVars, swapped>>

Next == \/ ClientNext \/ ProxyNext \/ FileNextStep
        \/ \E n \in Node : Nic(SwitchExecute(n) \/ Deliver(n) \/ Drop(n) \/ Lose(n))

Spec == Init /\ [][Next]_vars

\* Every process runs, and the adapters, the switch and the network make progress.
FairSpec == /\ Spec
            /\ WF_vars(ClientNext) /\ WF_vars(ProxyNext) /\ WF_vars(FileNextStep)
            /\ \A n \in Node : /\ WF_vars(Nic(SwitchExecute(n)))
                               /\ WF_vars(Nic(Deliver(n) \/ Drop(n)))

-----------------------------------------------------------------------------
(* Properties. *)

\* Whatever is lost or late, a chunk has one destination: in the control plane
\* the proxy's pool is a beginning of the file's blocks and the client saves nothing;
\* in the data plane the pool stays empty and the client saves one block at most,
\* which is spoilt, unless all of the file is two packets.
OneDestination ==
  IF control
    THEN pool = [i \in 1..Len(pool) |-> Block(i)] /\ dst = <<>>
    ELSE pool = <<>> /\ \/ dst \in {<<>>, <<Text("torn")>>}
                        \/ size = 1 /\ last = "short" /\ dst = <<Block(1)>> /\ ~ doneC

\* In the data plane nobody has posted a receive for what is not redirected.
SwitchInTime == /\ lost = 0 /\ ~ swapped /\ pcF # "cut"
                /\ \A n \in Node : Ready(n) \/ (n = "up1" /\ ~ control)

\* When every message is in time, this is where a read ends.  In the control
\* plane the proxy has the whole file, its first chunk (pause) or waits for a
\* file that cannot be opened, and the client waits.  In the data plane the
\* client gives up on a BEGIN it does not recognise, and the proxy waits for its
\* request; or the first chunk, if it is of several packets, is saved, and is
\* taken for the last if its end is rewritten and file_mr lies low; or the client
\* waits with nothing.
ReadOutcome ==
  LET stops == pause /\ size > 0
      first == canOpen /\ size > 0 /\ ~ (size = 1 /\ last = "one")
      ends  == first /\ lowBuffer /\ ~ (size = 1 /\ last = "short") IN
  []SwitchInTime =>
    <>[]CASE control ->
               /\ pcC = "loop"
               /\ pcP = IF canOpen /\ ~ stops THEN "serve" ELSE "fileLoop"
               /\ Len(pool) = CASE ~ canOpen -> 0 [] stops -> 1 [] OTHER -> size
          [] ~ control /\ ~ shortBegin ->
               pcC = "closed" /\ ~ doneC /\ pcP = "pollB" /\ pcF = "idle"
          [] OTHER ->
               /\ Len(dst) = IF first THEN 1 ELSE 0
               /\ IF ends THEN pcC = "closed" /\ doneC /\ pcP = "closed"
                          ELSE pcC = "loop" /\ pcP = "serve"
               /\ pcF = CASE ~ canOpen \/ size = 0 -> "return" [] pause -> "closed"
                          [] OTHER -> "wait"

\* A redirected chunk arrives as it was sent: what the client saves is a
\* beginning of the file's blocks.
SavedIsPrefix == Len(dst) <= size /\ dst = [i \in 1..Len(dst) |-> Block(i)]
=============================================================================
