------------------------------ MODULE Session ------------------------------
(***************************************************************************)
(* The TCP side of the system: how a client and a handler set up a pair of *)
(* queue pairs, how a command selects a method, and how both ends give up  *)
(* their nodes.  A client is SocketClient of src/temp/client.py; a handler *)
(* is HandleServer.handle of the program it connects to, one thread per    *)
(* connection.  A proxy's handler is itself the client of one or two       *)
(* servers, whose handlers are those of server.py and no-proxy-server1.py. *)
(*                                                                         *)
(* A connection is named by its opener.  The methods that a command selects*)
(* run over RDMA and have modules of their own: here each is a rendezvous, *)
(* the handler's BEGIN, the opener's answer, and the return of each side.  *)
(* TCP keeps order and loses nothing, but it does not keep messages apart: *)
(* one recv(BUFFER_SIZE) returns any non-empty prefix of what was sent.    *)
(***************************************************************************)
EXTENDS Naturals, Sequences

CONSTANTS Programs,  \* the programs the client may be connected to
          Faults     \* whether processes may stop and methods may raise

Proxies == {"proxy-switch", "proxy-server1", "proxy"}

ASSUME SessionAssumption == Programs \subseteq Proxies \union {"server"} /\ Faults \in BOOLEAN

Opener  == {"client", "up1", "up2"}
Command == {"PUSH", "PULL", "SEND_FILE", "SEND_FILE_META", "SEND_FILE_OP"}
Msg     == {"BEGIN", "READY", "attr", "DONE"} \union Command

VARIABLES program, is_control_plane,
          cmd,      \* cmd[o]: what o will ask for; "NONE": request(), which sends no command
          toH, toO, \* toH[o], toO[o]: sent and not yet read, to either end
          opener, handler,  \* each end: where it is, and its queue pair
          rdma,     \* rdma[o]: how far the exchange over the queue pairs has got
          failed    \* something has gone wrong

setting     == <<program, is_control_plane, cmd>>
sessionVars == <<setting, toH, toO, opener, handler, rdma, failed>>

\* The servers a proxy's handler opens, in this order.
Upstream == CASE program = "server"        -> <<>>
              [] program = "proxy-server1" -> <<"up1">>
              [] OTHER                     -> <<"up1", "up2">>
UpstreamSet == {Upstream[i] : i \in 1..Len(Upstream)}
UpstreamAll(pc) == \A u \in UpstreamSet : opener[u].pc = pc

\* The first server the handler has not done with.
Current(u, pc) == \E i \in 1..Len(Upstream) :
                     u = Upstream[i] /\ \A j \in 1..(i - 1) : opener[Upstream[j]].pc = pc

ClosedO == {o \in Opener : opener[o].pc = "closed"}
ClosedH == {o \in Opener : handler[o].pc = "done"}

Qp == {"none", "created", "rts", "closed"}
SessionTypeOK ==
  /\ program \in Programs /\ is_control_plane \in BOOLEAN
  /\ cmd \in [Opener -> Command \union {"NONE"}]
  /\ toH \in [Opener -> Seq(Msg)] /\ toO \in [Opener -> Seq(Msg)]
  /\ opener \in [Opener -> [pc : {"start", "ready", "made", "attr", "set", "answer", "busy",
                                  "asked", "closed", "dead"}, qp : Qp]]
  /\ handler \in [Opener -> [pc : {"none", "upstream", "loop", "attr", "method", "relay",
                                   "done"}, qp : Qp]]
  /\ rdma \in [Opener -> {"none", "begun", "answered"}] /\ failed \in BOOLEAN
  /\ \A o \in Opener : handler[o].pc \in {"loop", "attr", "method", "relay"}
                        => handler[o].qp # "none"

SessionInit ==
  /\ program \in Programs /\ is_control_plane \in BOOLEAN
  /\ \E c \in IF program = "server" THEN {"NONE", "PUSH", "PULL", "SEND_FILE"} ELSE {"SEND_FILE"} :
        cmd = [client |-> c,
               up1 |-> IF program = "proxy-server1" THEN "SEND_FILE" ELSE "SEND_FILE_META",
               up2 |-> "SEND_FILE_OP"]
  /\ toH = [o \in Opener |-> <<>>] /\ toO = [o \in Opener |-> <<>>]
  /\ opener  = [o \in Opener |-> [pc |-> "start", qp |-> "none"]]
  /\ handler = [o \in Opener |-> [pc |-> "none", qp |-> "none"]]
  /\ rdma = [o \in Opener |-> "none"] /\ failed = FALSE

-----------------------------------------------------------------------------
(* The sockets. *)

ToHandler(o, m) == toH' = [toH EXCEPT ![o] = Append(@, m)]
ToOpener(o, m)  == toO' = [toO EXCEPT ![o] = Append(@, m)]

\* What one recv can return: a message, several run together ("mixed"), the
\* b'' of a closed connection, or an error if the far end closed without
\* having read everything.
Received(in, out, farClosed) ==
  {[msg |-> IF k = 1 THEN in[1] ELSE "mixed", rest |-> SubSeq(in, k + 1, Len(in))] :
     k \in 1..Len(in)}
  \union {r \in {[msg |-> "eof", rest |-> <<>>]}   : farClosed /\ in = <<>>}
  \union {r \in {[msg |-> "reset", rest |-> <<>>]} : farClosed /\ out # <<>>}

OpenerRecv(o)  == Received(toO[o], toH[o], o \in ClosedH)
HandlerRecv(o) == Received(toH[o], toO[o], o \in ClosedO)

-----------------------------------------------------------------------------
(* The opener: SocketClient. *)

OpenerGoes(o, pc) == opener' = [opener EXCEPT ![o].pc = pc]
Becomes(o, pc, q) == opener' = [opener EXCEPT ![o] = [pc |-> pc, qp |-> q]]

\* An exception ends a client's process; in a proxy it is raised by request()
\* outside the try of handle, and ends the handler before it has a node.
OpenerFails(o) ==
  /\ failed' = TRUE
  /\ IF o = "client"
       THEN Becomes(o, "closed", "closed") /\ UNCHANGED handler
       ELSE OpenerGoes(o, "dead") /\ handler' = [handler EXCEPT !["client"].pc = "done"]

\* A proxy's handler opens its servers one after the other.
MayOpen(o) == \/ o = "client"
              \/ handler["client"].pc = "upstream" /\ Current(o, "set")

\* Altered form: the attributes follow BEGIN without waiting for READY.
ConnectEager(o) == /\ opener[o].pc = "start" /\ MayOpen(o)
                   /\ toH' = [toH EXCEPT ![o] = <<"BEGIN", "attr">>]
                   /\ Becomes(o, "attr", "created")
                   /\ UNCHANGED <<toO, handler, rdma, failed>>

Connect(o) == /\ opener[o].pc = "start" /\ MayOpen(o)
              /\ ToHandler(o, "BEGIN") /\ OpenerGoes(o, "ready")
              /\ UNCHANGED <<toO, handler, rdma, failed>>

\* connect() finds no server.
Refused(o) == /\ Faults /\ opener[o].pc = "start" /\ MayOpen(o)
              /\ OpenerFails(o)
              /\ UNCHANGED <<toH, toO, rdma>>

\* One recv of an opener at pc, which goes on with m and raises on anything else.
OpenerReads(o, pc, m, GoOn) ==
  /\ opener[o].pc = pc /\ MayOpen(o)
  /\ \E r \in OpenerRecv(o) :
       /\ toO' = [toO EXCEPT ![o] = r.rest]
       /\ IF r.msg = m THEN GoOn /\ UNCHANGED <<handler, failed>>
                       ELSE OpenerFails(o) /\ UNCHANGED toH
  /\ UNCHANGED rdma

\* Anything but READY leaves the client without a node, and the use of it raises.
ReadReady(o) == OpenerReads(o, "ready", "READY", Becomes(o, "made", "created") /\ UNCHANGED toH)

\* The node is made, its attributes follow.
SendAttr(o) == /\ opener[o].pc = "made" /\ MayOpen(o)
               /\ ToHandler(o, "attr") /\ OpenerGoes(o, "attr")
               /\ UNCHANGED <<toO, handler, rdma, failed>>

\* The server's attributes take the queue pair to RTS.  A client sends its
\* command at once, or with request() uses the queue pair without one; a proxy
\* keeps the connection.
ReadAttr(o) ==
  OpenerReads(o, "attr", "attr",
    /\ Becomes(o, IF o # "client" THEN "set" ELSE IF cmd[o] = "NONE" THEN "busy" ELSE "answer", "rts")
    /\ IF o = "client" /\ cmd[o] # "NONE" THEN ToHandler(o, cmd[o]) ELSE UNCHANGED toH)

\* The method waits for the BEGIN of the handler's and answers it.
Answer(o) == /\ opener[o].pc = "answer" /\ rdma[o] = "begun"
             /\ rdma' = [rdma EXCEPT ![o] = "answered"]
             /\ OpenerGoes(o, "busy")
             /\ UNCHANGED <<toH, toO, handler, failed>>

\* The method has returned: node.close(), DONE, socket.close().
ClientReturn == /\ opener["client"].pc = "busy"
                /\ ToHandler("client", "DONE")
                /\ Becomes("client", "closed", "closed")
                /\ UNCHANGED <<toO, handler, rdma, failed>>

\* The client's process stops where it is, or its method raises.
ClientCrash == /\ Faults /\ opener["client"].pc \notin {"start", "closed"}
               /\ OpenerFails("client")
               /\ UNCHANGED <<toH, toO, rdma>>

-----------------------------------------------------------------------------
(* The handler: HandleServer.handle. *)

Goes(o, pc) == handler' = [handler EXCEPT ![o].pc = pc] /\ UNCHANGED failed

\* node.close(), break, and the end of handle, after which socketserver
\* closes the connection.
Ends(o) == handler' = [handler EXCEPT ![o] = [pc |-> "done", qp |-> "closed"]]

\* The except branch.
Raise(o) == Ends(o) /\ failed' = TRUE

HasUpstream(o) == o = "client" /\ program \in Proxies

\* Altered form: the node is not created before the loop.
AcceptNoNode(o) ==
  /\ handler[o].pc = "none" /\ toH[o] # <<>>
  /\ Goes(o, IF HasUpstream(o) THEN "upstream" ELSE "loop")
  /\ UNCHANGED <<toH, toO, opener, rdma>>

\* A server's handler creates its node at once, a proxy's when its own servers
\* have been opened.
Accept(o) ==
  /\ handler[o].pc = "none" /\ toH[o] # <<>>
  /\ handler' = [handler EXCEPT ![o] = IF HasUpstream(o) THEN [pc |-> "upstream", qp |-> "none"]
                                         ELSE [pc |-> "loop", qp |-> "created"]]
  /\ UNCHANGED <<toH, toO, opener, rdma, failed>>

UpstreamOpen == /\ handler["client"].pc = "upstream" /\ UpstreamAll("set")
                /\ handler' = [handler EXCEPT !["client"] = [pc |-> "loop", qp |-> "created"]]
                /\ UNCHANGED <<toH, toO, opener, rdma, failed>>

\* One recv of the handler at pc returns r, one of msgs.
Reads(o, pc, r, msgs) == /\ handler[o].pc = pc /\ r \in HandlerRecv(o) /\ r.msg \in msgs
                         /\ toH' = [toH EXCEPT ![o] = r.rest]
                         /\ UNCHANGED opener

\* sendall to an opener that has gone may raise.
OnBegin(o) == \E r \in HandlerRecv(o) :
                 /\ Reads(o, "loop", r, {"BEGIN"})
                 /\ \/ ToOpener(o, "READY") /\ Goes(o, "attr")
                    \/ o \in ClosedO /\ Raise(o) /\ UNCHANGED toO
                 /\ UNCHANGED rdma

\* Altered form: the handler has no branch for the metadata server's command.
OnCommandMissing(o) == \E r \in HandlerRecv(o) :
                          /\ Reads(o, "loop", r, Command)
                          /\ IF r.msg = "SEND_FILE_META"
                               THEN Goes(o, "loop") /\ UNCHANGED rdma
                               ELSE Goes(o, "method") /\ rdma' = [rdma EXCEPT ![o] = "begun"]
                          /\ UNCHANGED toO

\* The method of the command posts its receives and sends BEGIN.
OnCommand(o) == \E r \in HandlerRecv(o) :
                   /\ Reads(o, "loop", r, Command)
                   /\ Goes(o, "method") /\ rdma' = [rdma EXCEPT ![o] = "begun"]
                   /\ UNCHANGED toO

\* Altered form: DONE closes the node and does not leave the loop.
OnDoneStays(o) == \E r \in HandlerRecv(o) :
                     /\ Reads(o, "loop", r, {"DONE"})
                     /\ handler' = [handler EXCEPT ![o].qp = "closed"]
                     /\ UNCHANGED <<toO, rdma, failed>>

OnDone(o) == \E r \in HandlerRecv(o) :
                /\ Reads(o, "loop", r, {"DONE"}) /\ Ends(o)
                /\ UNCHANGED <<toO, rdma, failed>>

OnReset(o) == \E r \in HandlerRecv(o) :
                 /\ Reads(o, "loop", r, {"reset"}) /\ Raise(o)
                 /\ UNCHANGED <<toO, rdma>>

\* Altered form: b'' ends the loop.
OnOtherEnds(o) == \E r \in HandlerRecv(o) :
                     /\ Reads(o, "loop", r, {"READY", "attr", "mixed", "eof"})
                     /\ IF r.msg = "eof" THEN Ends(o) /\ UNCHANGED failed ELSE Goes(o, "loop")
                     /\ UNCHANGED <<toO, rdma>>

\* What is none of the messages, and the b'' of a closed connection, falls
\* through every branch: the loop goes on.
OnOther(o) == \E r \in HandlerRecv(o) :
                 /\ Reads(o, "loop", r, {"READY", "attr", "mixed", "eof"}) /\ Goes(o, "loop")
                 /\ UNCHANGED <<toO, rdma>>

\* Without a control plane a proxy also writes rules to the switch: two of the
\* programs when they have answered, and an entry that exists makes them raise;
\* proxy.py before, with names it does not define.
WritesRules(o) == HasUpstream(o) /\ ~ is_control_plane
RulesRaise(o)  == WritesRules(o) /\ program = "proxy"

\* Altered form: the attributes are answered before the queue pair is in RTS.
TakeAttrEarly(o) == \E r \in HandlerRecv(o) :
                       /\ Reads(o, "attr", r, {"attr"})
                       /\ ToOpener(o, "attr") /\ Goes(o, "loop")
                       /\ UNCHANGED rdma

\* The opener's attributes take the queue pair to RTS; then its own are sent.
TakeAttr(o) == \E r \in HandlerRecv(o) :
                  /\ Reads(o, "attr", r, {"attr"})
                  /\ \/ /\ ~ RulesRaise(o) /\ ToOpener(o, "attr")
                        /\ \/ /\ handler' = [handler EXCEPT ![o] = [pc |-> "loop", qp |-> "rts"]]
                              /\ UNCHANGED failed
                           \/ Faults /\ WritesRules(o) /\ Raise(o)
                     \/ (RulesRaise(o) \/ o \in ClosedO) /\ Raise(o) /\ UNCHANGED toO
                  /\ UNCHANGED rdma

AnyMsg == Msg \union {"mixed", "eof", "reset"}

\* Altered form: what is not a set of attributes is skipped.
AttrSkipped(o) == \E r \in HandlerRecv(o) :
                     /\ Reads(o, "attr", r, AnyMsg \ {"attr"}) /\ Goes(o, "loop")
                     /\ UNCHANGED <<toO, rdma>>

\* deserialize raises on anything else, b'' included.
AttrRaises(o) == \E r \in HandlerRecv(o) :
                    /\ Reads(o, "attr", r, AnyMsg \ {"attr"}) /\ Raise(o)
                    /\ UNCHANGED <<toO, rdma>>

\* Once answered the method returns; the one of SEND_FILE_OP is followed by
\* node.close() without leaving the loop, a proxy's by the requests to its
\* servers.
MethodReturns(o) ==
  /\ handler[o].pc = "method" /\ rdma[o] = "answered"
  /\ handler' = [handler EXCEPT ![o] =
                  [pc |-> IF HasUpstream(o) THEN "relay" ELSE "loop",
                   qp |-> IF cmd[o] = "SEND_FILE_OP" THEN "closed" ELSE @.qp]]
  /\ UNCHANGED <<toH, toO, opener, rdma, failed>>

\* The method raises: an unbound name, a module or an argument that is missing.
MethodRaises(o) == /\ Faults /\ handler[o].pc \in {"method", "relay"}
                   /\ Raise(o)
                   /\ UNCHANGED <<toH, toO, opener, rdma>>

-----------------------------------------------------------------------------
(* A proxy's handler, between its client and its servers. *)

Relaying == handler["client"].pc = "relay"

\* It sends a server its command, waits for its BEGIN and answers with the
\* request, ...
Ask(u) == /\ Relaying /\ Current(u, "asked") /\ opener[u].pc = "set"
          /\ ToHandler(u, cmd[u]) /\ OpenerGoes(u, "answer")
          /\ UNCHANGED <<toO, handler, rdma, failed>>

\* ... and has the file, or without a control plane goes on at once.
ProxyHas(u) == /\ Relaying /\ opener[u].pc = "busy"
               /\ OpenerGoes(u, "asked")
               /\ UNCHANGED <<toH, toO, handler, rdma, failed>>

RelayReturns == /\ Relaying /\ UpstreamAll("asked")
                /\ Goes("client", "loop")
                /\ UNCHANGED <<toH, toO, opener, rdma>>

\* Nothing in the code closes the connections to the servers: they go with the
\* handler object, when the interpreter releases it.
Released(u) == /\ handler["client"].pc = "done" /\ u \in UpstreamSet \ ClosedO
               /\ opener[u].pc # "start"
               /\ Becomes(u, "closed", "closed")
               /\ UNCHANGED <<toH, toO, handler, rdma, failed>>

-----------------------------------------------------------------------------
OpenerNext(o) == Connect(o) \/ ReadReady(o) \/ SendAttr(o) \/ ReadAttr(o)

ClientNext == OpenerNext("client") \/ Answer("client") \/ ClientReturn

ServerNext(o) == \/ Accept(o)
                 \/ OnBegin(o) \/ OnCommand(o) \/ OnDone(o) \/ OnReset(o) \/ OnOther(o)
                 \/ TakeAttr(o) \/ AttrRaises(o) \/ MethodReturns(o)

ProxyNext(u) == OpenerNext(u) \/ Ask(u) \/ (Relaying /\ Answer(u)) \/ ProxyHas(u)

FaultNext == \/ ClientCrash
             \/ \E o \in Opener : Refused(o) \/ MethodRaises(o)

SessionNext ==
  /\ \/ ClientNext \/ UpstreamOpen \/ RelayReturns
     \/ \E o \in Opener : ServerNext(o)
     \/ \E u \in Opener \ {"client"} : ProxyNext(u) \/ Released(u)
     \/ FaultNext
  /\ UNCHANGED setting

SessionSpec == SessionInit /\ [][SessionNext]_sessionVars

Runs(step) == step /\ UNCHANGED setting

\* Where somebody writes the file to the client: with a control plane the proxy,
\* but proxy-server1.py does not call p_return_write; without one the switch,
\* which knows the rules of proxy-server1.py only.
Served  == program = "server" \/ (is_control_plane <=> program # "proxy-server1")
Relayed == is_control_plane \/ program = "proxy-server1"

\* Every thread runs, and the methods that get what they wait for return: when,
\* the modules of the transfers say.
SessionFairSpec ==
  /\ SessionSpec
  /\ WF_sessionVars(Runs(OpenerNext("client") \/ Answer("client") \/ (Served /\ ClientReturn)))
  /\ WF_sessionVars(Runs(UpstreamOpen \/ RelayReturns))
  /\ \A o \in Opener : WF_sessionVars(Runs(ServerNext(o)))
  /\ \A u \in Opener \ {"client"} :
        /\ WF_sessionVars(Runs(OpenerNext(u) \/ Ask(u) \/ (Relaying /\ Answer(u))))
        /\ WF_sessionVars(Runs(Relayed /\ ProxyHas(u)))

-----------------------------------------------------------------------------
(* Properties. *)

\* recv has no framing, so a connection is only right as long as each side
\* waits for the other's message: never two unread in one direction.
OneUnread == \A o \in Opener : Len(toH[o]) <= 1 /\ Len(toO[o]) <= 1

\* A method only runs on a queue pair in RTS, and an opener that is in one has
\* a peer that has been there: no send, no BEGIN, and no write of request(),
\* goes to a queue pair that is not connected.  None is used after its close,
\* and a handler that ends, however it ends, leaves no open node of its own.
NodeLifetime ==
  \A o \in Opener :
    /\ handler[o].pc \in {"method", "relay"} => handler[o].qp = "rts"
    /\ opener[o].pc \in {"answer", "busy"} =>
         opener[o].qp = "rts" /\ handler[o].qp \in {"rts", "closed"}
    /\ handler[o].pc = "done" => handler[o].qp \in {"none", "closed"}

\* A command that is sent is taken by the handler, unless the handler ends or the
\* connection is closed: it is never lost in a recv that returned something else,
\* and there is a branch for it.
CommandTaken ==
  \A o \in Opener :
    opener[o].pc = "answer" ~> rdma[o] # "none" \/ o \in ClosedH \/ o \in ClosedO

\* Without faults every session whose client is served ends: the client is done,
\* and the handler has read its DONE, closed its node and returned.
SessionEnds == Served /\ [](~ failed) =>
                 <>("client" \in ClosedO /\ handler["client"] = [pc |-> "done", qp |-> "closed"])

\* In the set-up neither end waits for ever for one that has gone: not a handler
\* for the attributes of a client, nor an opener for the answer of a handler that
\* has raised, its own rules being refused included.
AbandonedSetupEnds ==
  \A o \in Opener :
    /\ (handler[o].pc = "attr" /\ o \in ClosedO /\ toH[o] = <<>>) ~> o \in ClosedH
    /\ (opener[o].pc \in {"ready", "attr"} /\ o \in ClosedH)
         ~> opener[o].pc \notin {"ready", "attr"}

\* A handler between two commands whose opener has gone without a DONE, with
\* nothing left to read or to answer, gets b'' from every recv and stays where it
\* is: its thread spins, and its queue pair is never given up.
GoneUnnoticed ==
  [][\A o \in Opener :
       handler[o].pc = "loop" /\ o \in ClosedO /\ toH[o] = <<>> /\ toO[o] = <<>>
         => handler'[o] = handler[o]]_sessionVars
=============================================================================
