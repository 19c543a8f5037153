---------------------------- MODULE SwitchRules ----------------------------
(***************************************************************************)
(* The data plane: the handler threads of src/temp/proxy-server1.py install *)
(* three rules per session in the switch, and src/temp/modify-header.p4    *)
(* uses them to turn the file server's writes to the proxy into writes to  *)
(* the client.  A session is one TCP connection of a client; its handler   *)
(* thread, its client's queue pair, the proxy's upstream queue pair and the *)
(* file server behind it are named by it.                                  *)
(*                                                                         *)
(* All clients share one IP address in the code, as do proxy and file      *)
(* server, so a table key is a queue-pair number.  Numbers are handed out  *)
(* by the adapters, which may hand out again a number that was destroyed;  *)
(* remote keys are unique.  WriteTableEntry inserts: the switch refuses a  *)
(* second entry for a key and the call raises.                             *)
(***************************************************************************)
EXTENDS Integers, FiniteSets

CONSTANTS Session,   \* client connections
          ClientQp,  \* queue-pair numbers of the client host's adapter
          UpQp,      \* queue-pair numbers of the proxy host's adapter
          Slots,     \* MAX_CONCURRENT
          MaxOpen,   \* bound: how many handler threads run at once
          None       \* no session, no number yet

ASSUME SwitchAssumption ==
  Slots \in Nat /\ MaxOpen \in Nat /\ None \notin Session \union ClientQp \union UpQp

VARIABLES threading_index,  \* the handlers' global
          tmp,              \* tmp[s]: what the thread read of it before adding 1
          pc,               \* pc[s]: where the handler of s is
          qp, up,           \* s's client queue pair and upstream queue pair
          client,           \* client[s]: "none", "open" or "closed"
          record_port,      \* table: client number -> session, register index
          ipv4_lpm,         \* table: upstream number -> session, client number, index
          rdma_translate,   \* table: client number -> the session whose key it writes
          switch_src_port,  \* register: whose UDP source port a cell holds
          packet            \* the packet last sent on towards a client

handlerVars == <<threading_index, tmp, pc, qp, up, client>>
switchVars  == <<record_port, ipv4_lpm, rdma_translate, switch_src_port, packet>>
vars        == <<handlerVars, switchVars>>

Location == {"idle", "store", "upstream", "begin", "qpRule", "ipRule", "tunnelRule",
             "ready", "begun", "served", "left", "done", "failed"}

\* The handler has returned: without having served a request ("left"), having
\* served it ("done"), or after an exception.
Ended   == {"left", "done", "failed"}
HasAll  == {"ready", "begun", "served", "left", "done"}   \* all three rules written
Open    == {s \in Session : pc[s] \notin {"idle"} \union Ended}

\* The packets the switch tells apart: a send, and a packet of a chunk.  Which
\* packets of a chunk it rewrites, and what that does to them, is modelled by
\* SwitchedRead.
Opcode  == {"SEND_ONLY", "WRITE"}
Packet  == [from : Session \union {None}, op : Opcode, qp : ClientQp \union {None},
            key : Session \union {None}, port : Session \union {None}]
NoPacket == [from |-> None, op |-> "SEND_ONLY", qp |-> None, key |-> None, port |-> None]

Empty == [k \in {} |-> None]

TypeOK ==
  /\ threading_index \in Int /\ tmp \in [Session -> Int]
  /\ pc \in [Session -> Location]
  /\ qp \in [Session -> ClientQp \union {None}]
  /\ up \in [Session -> UpQp \union {None}]
  /\ client \in [Session -> {"none", "open", "closed"}]
  /\ DOMAIN record_port \subseteq ClientQp
  /\ record_port \in [DOMAIN record_port -> [by : Session, index : Int]]
  /\ DOMAIN ipv4_lpm \subseteq UpQp
  /\ ipv4_lpm \in [DOMAIN ipv4_lpm -> [by : Session, client_qp : ClientQp, index : Int]]
  /\ DOMAIN rdma_translate \subseteq ClientQp
  /\ rdma_translate \in [DOMAIN rdma_translate -> Session]
  /\ switch_src_port \in [0..Slots-1 -> Session \union {None}]
  /\ packet \in Packet

Init == /\ threading_index = -1 /\ tmp = [s \in Session |-> -1]
        /\ pc = [s \in Session |-> "idle"]
        /\ qp = [s \in Session |-> None] /\ up = [s \in Session |-> None]
        /\ client = [s \in Session |-> "none"]
        /\ record_port = Empty /\ ipv4_lpm = Empty /\ rdma_translate = Empty
        /\ switch_src_port = [i \in 0..Slots-1 |-> None] /\ packet = NoPacket

-----------------------------------------------------------------------------
(* The handler thread of a session. *)

Goto(s, l) == pc' = [pc EXCEPT ![s] = l]

With(f, k, v) == [x \in DOMAIN f \union {k} |-> IF x = k THEN v ELSE f[x]]

\* threading_index=threading_index+1 is a read and a write: another thread
\* may come between.
Accept(s) == /\ pc[s] = "idle" /\ Cardinality(Open) < MaxOpen /\ Goto(s, "store")
             /\ tmp' = [tmp EXCEPT ![s] = threading_index]
             /\ UNCHANGED <<threading_index, qp, up, client, switchVars>>

StoreIndex(s) == /\ pc[s] = "store" /\ Goto(s, "upstream")
                 /\ threading_index' = tmp[s] + 1
                 /\ UNCHANGED <<tmp, qp, up, client, switchVars>>

\* self.client.request(): the upstream node lives as long as the handler.
Upstream(s) ==
  /\ pc[s] = "upstream" /\ Goto(s, "begin")
  /\ \E u \in UpQp \ {up[t] : t \in Open} : up' = [up EXCEPT ![s] = u]
  /\ UNCHANGED <<threading_index, tmp, qp, client, switchVars>>

\* BEGIN: the client makes its node and sends its attributes.
Begin(s) ==
  /\ pc[s] = "begin" /\ Goto(s, "qpRule")
  /\ \E q \in ClientQp \ {qp[t] : t \in {t \in Session : client[t] = "open"}} :
        qp' = [qp EXCEPT ![s] = q]
  /\ client' = [client EXCEPT ![s] = "open"]
  /\ UNCHANGED <<threading_index, tmp, up, switchVars>>

\* An entry that exists makes the call raise: the handler closes its node
\* and ends, and leaves the entries it has installed.
WriteTableEntry(s, table, key, entry, next) ==
  IF key \in DOMAIN table
    THEN UNCHANGED table /\ Goto(s, "failed")
    ELSE table' = With(table, key, entry) /\ Goto(s, next)

\* Altered form: the rule that records the port is not written.
WriteQPRulesSkipped(s) ==
  /\ pc[s] = "qpRule" /\ Goto(s, "ipRule")
  /\ UNCHANGED <<threading_index, tmp, qp, up, client, switchVars>>

\* Altered form: the exception of an entry that exists is caught and ignored.
WriteQPRulesIgnored(s) ==
  /\ pc[s] = "qpRule" /\ Goto(s, "ipRule")
  /\ record_port' = IF qp[s] \in DOMAIN record_port THEN record_port
                      ELSE With(record_port, qp[s], [by |-> s, index |-> threading_index])
  /\ UNCHANGED <<threading_index, tmp, qp, up, client,
                 ipv4_lpm, rdma_translate, switch_src_port, packet>>

\* Each rule takes threading_index as it is now, not as this thread set it.
WriteQPRules(s) ==
  /\ pc[s] = "qpRule"
  /\ WriteTableEntry(s, record_port, qp[s], [by |-> s, index |-> threading_index], "ipRule")
  /\ UNCHANGED <<threading_index, tmp, qp, up, client,
                 ipv4_lpm, rdma_translate, switch_src_port, packet>>

WriteIPRules(s) ==
  /\ pc[s] = "ipRule"
  /\ WriteTableEntry(s, ipv4_lpm, up[s],
                     [by |-> s, client_qp |-> qp[s], index |-> threading_index], "tunnelRule")
  /\ UNCHANGED <<threading_index, tmp, qp, up, client,
                 record_port, rdma_translate, switch_src_port, packet>>

WriteTunnelRules(s) ==
  /\ pc[s] = "tunnelRule"
  /\ WriteTableEntry(s, rdma_translate, qp[s], s, "ready")
  /\ UNCHANGED <<threading_index, tmp, qp, up, client,
                 record_port, ipv4_lpm, switch_src_port, packet>>

-----------------------------------------------------------------------------
(* The switch: ingress, then egress. *)

\* The parser takes whatever follows the BTH for a RETH if it is long enough:
\* a packet of a chunk is; whether BEGIN is, is not known here.
TakenForReth(op) == IF op = "SEND_ONLY" THEN BOOLEAN ELSE {TRUE}

\* Egress: a packet to a known client number gets the entry's address and key
\* in the bytes where a RETH would be.
Egress(s, op, q, port) ==
  \E parsed \in TakenForReth(op) :
    LET hit == parsed /\ q \in DOMAIN rdma_translate IN
      packet' = [from |-> s, op |-> op, qp |-> q,
                 key |-> IF hit THEN rdma_translate[q] ELSE None, port |-> port]

\* Altered form: the port goes to the next cell.
RecordPortNext(s) ==
  LET cell == record_port[qp[s]].index + 1 IN
    switch_src_port' =
      IF qp[s] \in DOMAIN record_port /\ cell \in 0..Slots-1
        THEN [switch_src_port EXCEPT ![cell] = s] ELSE switch_src_port

\* record_port: the UDP source port of a send to a client number goes to the
\* cell of its entry; a write beyond the register has no effect.
RecordPort(s) ==
  switch_src_port' =
    IF qp[s] \in DOMAIN record_port /\ record_port[qp[s]].index \in 0..Slots-1
      THEN [switch_src_port EXCEPT ![record_port[qp[s]].index] = s]
      ELSE switch_src_port

\* SEND_FILE, p_receive_send: the proxy's BEGIN passes the switch.
SendBegin(s) ==
  /\ pc[s] = "ready" /\ Goto(s, "begun")
  /\ RecordPort(s)
  /\ Egress(s, "SEND_ONLY", qp[s], s)
  /\ UNCHANGED <<threading_index, tmp, qp, up, client, record_port, ipv4_lpm,
                 rdma_translate>>

\* SEND_FILE goes to the file server, and p_trans_write passes the request on
\* and returns at once.
AskServer(s) == /\ pc[s] = "begun" /\ Goto(s, "served")
                /\ UNCHANGED <<threading_index, tmp, qp, up, client, switchVars>>

\* A packet of one of the file server's chunks, addressed to up[s]; the file
\* server may go on after the session has ended.  A read beyond the register
\* returns any value.
Redirect(s) ==
  /\ pc[s] \in {"served", "done"} /\ up[s] \in DOMAIN ipv4_lpm
  /\ LET e == ipv4_lpm[up[s]] IN
       \E port \in IF e.index \in 0..Slots-1 THEN {switch_src_port[e.index]}
                                             ELSE Session \union {None} :
          Egress(s, "WRITE", e.client_qp, port)
  /\ UNCHANGED <<handlerVars, record_port, ipv4_lpm, rdma_translate, switch_src_port>>

\* The client's process closes its node, or dies.
ClientCloses(s) == /\ client[s] = "open"
                   /\ client' = [client EXCEPT ![s] = "closed"]
                   /\ UNCHANGED <<threading_index, tmp, pc, qp, up, switchVars>>

\* Altered form: DONE deletes the rules about the client's number, and forgets
\* the redirection.
DoneCleansUp(s) ==
  /\ pc[s] \in {"ready", "served"} /\ client[s] = "closed"
  /\ Goto(s, IF pc[s] = "served" THEN "done" ELSE "left")
  /\ record_port' = [q \in DOMAIN record_port \ {qp[s]} |-> record_port[q]]
  /\ rdma_translate' = [q \in DOMAIN rdma_translate \ {qp[s]} |-> rdma_translate[q]]
  /\ UNCHANGED <<threading_index, tmp, qp, up, client, ipv4_lpm, switch_src_port, packet>>

\* DONE: no rule is deleted.
Done(s) == /\ pc[s] \in {"ready", "served"} /\ client[s] = "closed"
           /\ Goto(s, IF pc[s] = "served" THEN "done" ELSE "left")
           /\ UNCHANGED <<threading_index, tmp, qp, up, client, switchVars>>

Next == \E s \in Session :
          \/ Accept(s) \/ StoreIndex(s) \/ Upstream(s) \/ Begin(s)
          \/ WriteQPRules(s) \/ WriteIPRules(s) \/ WriteTunnelRules(s)
          \/ SendBegin(s) \/ AskServer(s) \/ Redirect(s)
          \/ ClientCloses(s) \/ Done(s)

Spec == Init /\ [][Next]_vars
-----------------------------------------------------------------------------
(* Properties. *)

\* A send is accepted by its number alone, a packet of a chunk by number and key.
Accepts(s) == /\ client[s] = "open" /\ qp[s] = packet.qp
              /\ packet.op = "WRITE" => packet.key = s

\* A packet of a chunk is accepted by the client of its own session or by nobody,
\* whatever entries are still in the tables.  A BEGIN that is late reaches a client
\* that got the number of one that has left, but no session that has any rule: the
\* first rule of that client's session is still to be refused, or has been.
Isolation ==
  \A s \in Session : Accepts(s) /\ packet.from # s =>
                       /\ packet.op = "SEND_ONLY" /\ client[packet.from] = "closed"
                       /\ pc[s] \in {"qpRule", "failed"}

\* A session that serves has all three rules, and they are its own.
RulesOwn ==
  \A s \in Session : pc[s] \in HasAll =>
     /\ qp[s] \in DOMAIN record_port /\ record_port[qp[s]].by = s
     /\ up[s] \in DOMAIN ipv4_lpm /\ ipv4_lpm[up[s]].by = s
     /\ ipv4_lpm[up[s]].client_qp = qp[s]
     /\ qp[s] \in DOMAIN rdma_translate /\ rdma_translate[qp[s]] = s

\* A session whose rules are refused leaves no redirection behind: it fails
\* at the first or the second rule, never at the third.
FailsBeforeRedirect ==
  \A s \in Session : pc[s] = "failed" => \A u \in DOMAIN ipv4_lpm : ipv4_lpm[u].by # s

\* A redirected packet carries the UDP source port of its own session's
\* proxy queue pair.
PortOwn == packet.op # "SEND_ONLY" => packet.port = packet.from

\* Session s has a cell of the register to itself: both of its rules name it,
\* the register has it, and no other session's rule names it.
CellOwn(s) ==
  /\ record_port[qp[s]].index \in 0..Slots-1
  /\ ipv4_lpm[up[s]].index = record_port[qp[s]].index
  /\ \A q \in DOMAIN record_port \ {qp[s]} : record_port[q].index # record_port[qp[s]].index

\* What is left of PortOwn: the port of a session that has a cell to itself is
\* kept, whatever the other sessions' threads do to the counter, to the tables
\* and to the rest of the register, and with however many sessions.
PortKept == packet.op # "SEND_ONLY" /\ CellOwn(packet.from) => packet.port = packet.from

-----------------------------------------------------------------------------
(* The inductive invariant behind Isolation. *)

\* Whoever an entry names has gone past the write of it with the numbers the
\* entry is about; nobody with a redirection has failed.
EntriesOwned ==
  /\ \A q \in DOMAIN record_port :
       LET s == record_port[q].by IN
         qp[s] = q /\ pc[s] \in {"ipRule", "tunnelRule", "failed"} \union HasAll
  /\ \A u \in DOMAIN ipv4_lpm :
       LET s == ipv4_lpm[u].by IN
         /\ up[s] = u /\ qp[s] = ipv4_lpm[u].client_qp
         /\ pc[s] \in {"tunnelRule"} \union HasAll
  /\ \A q \in DOMAIN rdma_translate :
       LET s == rdma_translate[q] IN qp[s] = q /\ pc[s] \in HasAll

\* A session has the rules it has gone past.
RulesWritten ==
  \A s \in Session :
    /\ pc[s] \in {"ipRule", "tunnelRule"} \union HasAll =>
         qp[s] \in DOMAIN record_port /\ record_port[qp[s]].by = s
    /\ pc[s] \in {"tunnelRule"} \union HasAll =>
         up[s] \in DOMAIN ipv4_lpm /\ ipv4_lpm[up[s]].by = s
    /\ pc[s] \in HasAll =>
         qp[s] \in DOMAIN rdma_translate /\ rdma_translate[qp[s]] = s

\* A thread knows its numbers when it writes them.
NumbersKnown ==
  \A s \in Session : /\ pc[s] \in {"begin", "qpRule", "ipRule", "tunnelRule"} \union HasAll =>
                          up[s] \in UpQp
                     /\ pc[s] \in {"qpRule", "ipRule", "tunnelRule"} \union HasAll =>
                          qp[s] \in ClientQp

\* The switch gives a packet its own session's key or none.
KeyOwn == packet.key \in {None, packet.from}

\* A client has its number from BEGIN on, and no two open ones have the same.
ClientsApart ==
  \A s \in Session :
    /\ client[s] # "none" <=>
         pc[s] \in {"qpRule", "ipRule", "tunnelRule", "failed"} \union HasAll
    /\ client[s] # "none" => qp[s] \in ClientQp
    /\ \A t \in Session : client[s] = "open" /\ client[t] = "open" /\ qp[s] = qp[t] => s = t

\* A BEGIN that was sent is about the number of a session that has all its rules.
BeginOwn ==
  packet.op = "SEND_ONLY" /\ packet # NoPacket =>
    /\ packet.from \in Session /\ pc[packet.from] \in HasAll
    /\ packet.qp = qp[packet.from]

\* A packet of a chunk belongs to a session whose BEGIN has passed the switch,
\* and from BEGIN on a cell that is its own holds its port.
PortInv ==
  /\ packet.op # "SEND_ONLY" => /\ packet.from \in Session
                                /\ pc[packet.from] \in {"served", "done"}
  /\ \A s \in Session : pc[s] \in {"begun", "served", "done"} /\ CellOwn(s) =>
                          switch_src_port[record_port[qp[s]].index] = s
  /\ PortKept

TablesInv == TypeOK /\ NumbersKnown /\ EntriesOwned /\ RulesWritten /\ KeyOwn

RulesInv == TablesInv /\ ClientsApart /\ BeginOwn
=============================================================================
