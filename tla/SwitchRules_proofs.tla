------------------------ MODULE SwitchRules_proofs -------------------------
(***************************************************************************)
(* Proofs about the rules of the data plane, for any number of sessions,   *)
(* of queue-pair numbers and of register cells.                            *)
(***************************************************************************)
EXTENDS SwitchRules, TLAPS

\* The session of a step, and what the assumptions say of the constants.
LEMMA NoneIsNew == None \notin Session /\ None \notin ClientQp /\ None \notin UpQp
BY SwitchAssumption

\* Initially nothing is installed.
LEMMA RulesInit == Init => RulesInv
<1> SUFFICES ASSUME Init PROVE RulesInv
  OBVIOUS
<1>1. Empty \in [DOMAIN Empty -> {}] /\ DOMAIN Empty = {}
  BY DEF Empty
<1>2. NoPacket \in Packet
  BY DEF NoPacket, Packet, Opcode
<1>3. TypeOK
  BY <1>1, <1>2 DEF Init, TypeOK, Location
<1>4. NumbersKnown /\ EntriesOwned /\ RulesWritten /\ KeyOwn
  BY <1>1 DEF Init, NumbersKnown, EntriesOwned, RulesWritten, KeyOwn, NoPacket, HasAll
<1>5. ClientsApart /\ BeginOwn
  BY DEF Init, ClientsApart, BeginOwn, HasAll
<1> QED
  BY <1>3, <1>4, <1>5 DEF RulesInv, TablesInv

-----------------------------------------------------------------------------
(* The steps of a handler that write no rule and send nothing. *)

\* No table, register or packet changes, and no number that a rule has used.
LEMMA QuietStep ==
  ASSUME RulesInv, NEW s \in Session,
         \/ Accept(s) \/ StoreIndex(s) \/ Upstream(s) \/ Begin(s)
         \/ AskServer(s) \/ ClientCloses(s) \/ Done(s)
  PROVE  TablesInv'
<1> USE DEF RulesInv, TablesInv
<1>1. TypeOK'
  <2>1. CASE Accept(s) \/ AskServer(s) \/ ClientCloses(s)
    <3>1. CASE Accept(s)
      <4>1. tmp' \in [Session -> Int] /\ pc' \in [Session -> Location]
        BY <3>1 DEF TypeOK, Accept, Goto, Location
      <4>2. UNCHANGED <<threading_index, qp, up, client, record_port, ipv4_lpm,
                        rdma_translate, switch_src_port, packet>>
        BY <3>1 DEF Accept, switchVars
      <4> QED
        BY <4>1, <4>2 DEF TypeOK
    <3>2. CASE AskServer(s)
      BY <3>2 DEF TypeOK, AskServer, Goto, Location, switchVars
    <3>3. CASE ClientCloses(s)
      BY <3>3 DEF TypeOK, ClientCloses, switchVars
    <3> QED
      BY <2>1, <3>1, <3>2, <3>3
  <2>2. CASE StoreIndex(s)
    <3>1. threading_index' \in Int
      BY <2>2 DEF TypeOK, StoreIndex
    <3> QED
      BY <2>2, <3>1 DEF TypeOK, StoreIndex, Goto, Location, switchVars
  <2>3. CASE Done(s)
    BY <2>3 DEF TypeOK, Done, Goto, Location, switchVars
  <2>4. CASE Upstream(s)
    BY <2>4 DEF TypeOK, Upstream, Goto, Location, switchVars
  <2>5. CASE Begin(s)
    BY <2>5 DEF TypeOK, Begin, Goto, Location, switchVars
  <2> QED
    BY <2>1, <2>2, <2>3, <2>4, <2>5
<1>2. NumbersKnown'
  BY DEF TypeOK, NumbersKnown, HasAll, Accept, StoreIndex, Upstream, Begin, AskServer,
         ClientCloses, Done, Goto, Location, switchVars
<1>3. EntriesOwned'
  <2>1. UNCHANGED <<record_port, ipv4_lpm, rdma_translate>>
    BY DEF Accept, StoreIndex, Upstream, Begin, AskServer, ClientCloses, Done, switchVars
  <2>2. \A t \in Session :
          pc[t] \in {"ipRule", "tunnelRule", "failed"} \union HasAll =>
            /\ up'[t] = up[t] /\ qp'[t] = qp[t]
            /\ pc'[t] = pc[t] \/ (pc[t] \in HasAll /\ pc'[t] \in HasAll)
    BY DEF TypeOK, HasAll, Accept, StoreIndex, Upstream, Begin, AskServer, ClientCloses,
           Done, Goto
  <2>3. /\ \A q \in DOMAIN record_port : record_port[q].by \in Session
        /\ \A u \in DOMAIN ipv4_lpm : ipv4_lpm[u].by \in Session
        /\ \A q \in DOMAIN rdma_translate : rdma_translate[q] \in Session
    BY DEF TypeOK
  <2> QED
    BY <2>1, <2>2, <2>3 DEF EntriesOwned, HasAll
<1>4. RulesWritten'
  BY DEF TypeOK, RulesWritten, HasAll, Accept, StoreIndex, Upstream, Begin, AskServer,
         ClientCloses, Done, Goto, Location, switchVars
<1>5. KeyOwn'
  BY DEF KeyOwn, Accept, StoreIndex, Upstream, Begin, AskServer, ClientCloses, Done,
         switchVars
<1> QED
  BY <1>1, <1>2, <1>3, <1>4, <1>5

-----------------------------------------------------------------------------
(* The three rules. *)

\* The first rule is refused or becomes the session's own.
LEMMA QPStep ==
  ASSUME RulesInv, NEW s \in Session, WriteQPRules(s)
  PROVE  TablesInv'
<1> USE DEF RulesInv, TablesInv
<1> DEFINE e == [by |-> s, index |-> threading_index]
<1>0. pc[s] = "qpRule" /\ qp[s] \in ClientQp /\ e \in [by : Session, index : Int]
  BY DEF WriteQPRules, NumbersKnown, TypeOK
<1>1. CASE qp[s] \in DOMAIN record_port
  <2>1. UNCHANGED <<record_port, threading_index, tmp, qp, up, client, ipv4_lpm,
                    rdma_translate, switch_src_port, packet>>
        /\ pc' = [pc EXCEPT ![s] = "failed"]
    BY <1>1 DEF WriteQPRules, WriteTableEntry, Goto
  <2> QED
    BY <1>0, <2>1 DEF TypeOK, NumbersKnown, EntriesOwned, RulesWritten, KeyOwn, HasAll, Location
<1>2. CASE qp[s] \notin DOMAIN record_port
  <2>1. /\ record_port' = With(record_port, qp[s], e)
        /\ UNCHANGED <<threading_index, tmp, qp, up, client, ipv4_lpm,
                       rdma_translate, switch_src_port, packet>>
        /\ pc' = [pc EXCEPT ![s] = "ipRule"]
    BY <1>2 DEF WriteQPRules, WriteTableEntry, Goto
  <2>2. /\ DOMAIN record_port' = DOMAIN record_port \union {qp[s]}
        /\ record_port'[qp[s]] = e /\ e.by = s
        /\ \A q \in DOMAIN record_port : record_port'[q] = record_port[q]
    BY <1>2, <2>1 DEF With
  <2>3. /\ DOMAIN record_port' \subseteq ClientQp
        /\ record_port' \in [DOMAIN record_port' -> [by : Session, index : Int]]
    BY <1>0, <2>1 DEF TypeOK, With
  <2> HIDE DEF e
  <2>4. TypeOK'
    BY <2>1, <2>3 DEF TypeOK, Location
  <2>5. NumbersKnown' /\ KeyOwn'
    BY <1>0, <2>1 DEF TypeOK, NumbersKnown, KeyOwn, HasAll
  <2>6. EntriesOwned'
    BY <1>0, <2>1, <2>2 DEF TypeOK, EntriesOwned, HasAll
  <2>7. RulesWritten'
    BY <1>0, <1>2, <2>1, <2>2 DEF TypeOK, RulesWritten, HasAll
  <2> QED
    BY <2>4, <2>5, <2>6, <2>7
<1> QED
  BY <1>1, <1>2

\* The second likewise.
LEMMA IPStep ==
  ASSUME RulesInv, NEW s \in Session, WriteIPRules(s)
  PROVE  TablesInv'
<1> USE DEF RulesInv, TablesInv
<1> DEFINE e == [by |-> s, client_qp |-> qp[s], index |-> threading_index]
<1>0. pc[s] = "ipRule" /\ up[s] \in UpQp /\ qp[s] \in ClientQp
      /\ e \in [by : Session, client_qp : ClientQp, index : Int]
  BY DEF WriteIPRules, NumbersKnown, TypeOK
<1>1. CASE up[s] \in DOMAIN ipv4_lpm
  <2>1. UNCHANGED <<record_port, threading_index, tmp, qp, up, client, ipv4_lpm,
                    rdma_translate, switch_src_port, packet>>
        /\ pc' = [pc EXCEPT ![s] = "failed"]
    BY <1>1 DEF WriteIPRules, WriteTableEntry, Goto
  <2> QED
    BY <1>0, <2>1 DEF TypeOK, NumbersKnown, EntriesOwned, RulesWritten, KeyOwn, HasAll, Location
<1>2. CASE up[s] \notin DOMAIN ipv4_lpm
  <2>1. /\ ipv4_lpm' = With(ipv4_lpm, up[s], e)
        /\ UNCHANGED <<threading_index, tmp, qp, up, client, record_port,
                       rdma_translate, switch_src_port, packet>>
        /\ pc' = [pc EXCEPT ![s] = "tunnelRule"]
    BY <1>2 DEF WriteIPRules, WriteTableEntry, Goto
  <2>2. /\ DOMAIN ipv4_lpm' = DOMAIN ipv4_lpm \union {up[s]}
        /\ ipv4_lpm'[up[s]] = e /\ e.by = s /\ e.client_qp = qp[s]
        /\ \A u \in DOMAIN ipv4_lpm : ipv4_lpm'[u] = ipv4_lpm[u]
    BY <1>2, <2>1 DEF With
  <2>3. /\ DOMAIN ipv4_lpm' \subseteq UpQp
        /\ ipv4_lpm' \in [DOMAIN ipv4_lpm' -> [by : Session, client_qp : ClientQp, index : Int]]
    BY <1>0, <2>1 DEF TypeOK, With
  <2> HIDE DEF e
  <2>4. TypeOK'
    BY <2>1, <2>3 DEF TypeOK, Location
  <2>5. NumbersKnown' /\ KeyOwn'
    BY <1>0, <2>1 DEF TypeOK, NumbersKnown, KeyOwn, HasAll
  <2>6. EntriesOwned'
    BY <1>0, <2>1, <2>2 DEF TypeOK, EntriesOwned, HasAll
  <2>7. RulesWritten'
    BY <1>0, <1>2, <2>1, <2>2 DEF TypeOK, RulesWritten, HasAll
  <2> QED
    BY <2>4, <2>5, <2>6, <2>7
<1> QED
  BY <1>1, <1>2

\* The third is never refused: an entry for qp[s] would belong to a session
\* that also owns record_port[qp[s]], and that entry is s's.
LEMMA TunnelFree ==
  ASSUME RulesInv, NEW s \in Session, pc[s] = "tunnelRule"
  PROVE  qp[s] \notin DOMAIN rdma_translate
<1> SUFFICES ASSUME qp[s] \in DOMAIN rdma_translate PROVE FALSE
  OBVIOUS
<1> DEFINE t == rdma_translate[qp[s]]
<1>1. t \in Session /\ qp[t] = qp[s] /\ pc[t] \in HasAll
  BY DEF RulesInv, TablesInv, EntriesOwned, TypeOK
<1>2. record_port[qp[t]].by = t /\ record_port[qp[s]].by = s
  BY <1>1 DEF RulesInv, TablesInv, RulesWritten
<1> QED
  BY <1>1, <1>2 DEF HasAll

LEMMA TunnelStep ==
  ASSUME RulesInv, NEW s \in Session, WriteTunnelRules(s)
  PROVE  TablesInv'
<1> USE DEF RulesInv, TablesInv
<1>0. pc[s] = "tunnelRule" /\ qp[s] \in ClientQp
  BY DEF WriteTunnelRules, NumbersKnown
<1>1. qp[s] \notin DOMAIN rdma_translate
  BY <1>0, TunnelFree
<1>2. /\ rdma_translate' = With(rdma_translate, qp[s], s)
      /\ UNCHANGED <<threading_index, tmp, qp, up, client, record_port, ipv4_lpm,
                     switch_src_port, packet>>
      /\ pc' = [pc EXCEPT ![s] = "ready"]
  BY <1>1 DEF WriteTunnelRules, WriteTableEntry, Goto
<1>3. /\ DOMAIN rdma_translate' = DOMAIN rdma_translate \union {qp[s]}
      /\ rdma_translate'[qp[s]] = s
      /\ \A q \in DOMAIN rdma_translate : rdma_translate'[q] = rdma_translate[q]
  BY <1>1, <1>2 DEF With
<1>4. /\ DOMAIN rdma_translate' \subseteq ClientQp
      /\ rdma_translate' \in [DOMAIN rdma_translate' -> Session]
  BY <1>0, <1>2 DEF TypeOK, With
<1>5. TypeOK'
  BY <1>2, <1>4 DEF TypeOK, Location
<1>6. NumbersKnown' /\ KeyOwn'
  BY <1>0, <1>2 DEF TypeOK, NumbersKnown, KeyOwn, HasAll
<1>7. EntriesOwned'
  BY <1>0, <1>2, <1>3 DEF TypeOK, EntriesOwned, HasAll
<1>8. RulesWritten'
  BY <1>0, <1>1, <1>2, <1>3 DEF TypeOK, RulesWritten, HasAll
<1> QED
  BY <1>5, <1>6, <1>7, <1>8

-----------------------------------------------------------------------------
(* The packets. *)

\* BEGIN passes the switch with its own session's key or none.
LEMMA BeginStep ==
  ASSUME RulesInv, NEW s \in Session, SendBegin(s)
  PROVE  TablesInv'
<1> USE DEF RulesInv, TablesInv
<1>1. pc[s] = "ready" /\ pc' = [pc EXCEPT ![s] = "begun"]
      /\ UNCHANGED <<threading_index, tmp, qp, up, client, record_port, ipv4_lpm,
                     rdma_translate>>
  BY DEF SendBegin, Goto
<1>2. switch_src_port' \in [0..Slots-1 -> Session \union {None}]
  BY DEF SendBegin, RecordPort, TypeOK
<1>3. Egress(s, "SEND_ONLY", qp[s], s)
  BY DEF SendBegin
<1>4. qp[s] \in ClientQp /\ rdma_translate[qp[s]] = s
  BY <1>1 DEF NumbersKnown, RulesWritten, HasAll
<1>5. packet' \in Packet /\ KeyOwn'
  BY <1>3, <1>4 DEF Egress, TakenForReth, Packet, Opcode, KeyOwn
<1>6. TypeOK'
  BY <1>1, <1>2, <1>5 DEF TypeOK, Location
<1>7. NumbersKnown' /\ EntriesOwned' /\ RulesWritten'
  BY <1>1 DEF TypeOK, NumbersKnown, EntriesOwned, RulesWritten, HasAll
<1> QED
  BY <1>5, <1>6, <1>7

\* The redirection of a served session's packet is its own, and so is the key.
LEMMA RedirectStep ==
  ASSUME RulesInv, NEW s \in Session, Redirect(s)
  PROVE  TablesInv'
<1> USE DEF RulesInv, TablesInv
<1> DEFINE e == ipv4_lpm[up[s]]
<1>1. pc[s] \in HasAll /\ up[s] \in DOMAIN ipv4_lpm
  BY DEF Redirect, HasAll
<1>2. e.by = s /\ e.client_qp = qp[s] /\ qp[s] \in ClientQp /\ rdma_translate[qp[s]] = s
  BY <1>1 DEF EntriesOwned, RulesWritten, NumbersKnown
<1>3. PICK port : Egress(s, "WRITE", e.client_qp, port) /\ port \in Session \union {None}
  BY DEF Redirect, TypeOK
<1>4. packet' \in Packet /\ KeyOwn'
  BY <1>2, <1>3 DEF Egress, TakenForReth, Packet, Opcode, KeyOwn
<1>5. UNCHANGED <<threading_index, tmp, pc, qp, up, client, record_port, ipv4_lpm,
                  rdma_translate, switch_src_port>>
  BY DEF Redirect, handlerVars
<1> QED
  BY <1>4, <1>5 DEF TypeOK, NumbersKnown, EntriesOwned, RulesWritten

-----------------------------------------------------------------------------
(* Whose number a client and a BEGIN have. *)

\* Begin gives a number that no open client has; no other step opens a client.
LEMMA ApartStep ==
  ASSUME RulesInv, NEW s \in Session,
         \/ Accept(s) \/ StoreIndex(s) \/ Upstream(s) \/ Begin(s)
         \/ WriteQPRules(s) \/ WriteIPRules(s) \/ WriteTunnelRules(s)
         \/ SendBegin(s) \/ AskServer(s) \/ Redirect(s)
         \/ ClientCloses(s) \/ Done(s)
  PROVE  ClientsApart'
<1> USE DEF RulesInv, TablesInv
<1>1. CASE Begin(s)
  <2>1. /\ pc[s] = "begin" /\ pc' = [pc EXCEPT ![s] = "qpRule"]
        /\ client' = [client EXCEPT ![s] = "open"]
    BY <1>1 DEF Begin, Goto
  <2>2. PICK q \in ClientQp \ {qp[t] : t \in {t \in Session : client[t] = "open"}} :
          qp' = [qp EXCEPT ![s] = q]
    BY <1>1 DEF Begin
  <2> QED
    BY <2>1, <2>2 DEF TypeOK, ClientsApart, HasAll
<1>2. CASE ClientCloses(s)
  BY <1>2 DEF TypeOK, ClientsApart, ClientCloses
<1>3. CASE \/ Accept(s) \/ StoreIndex(s) \/ Upstream(s)
           \/ SendBegin(s) \/ AskServer(s) \/ Redirect(s) \/ Done(s)
  BY <1>3 DEF TypeOK, ClientsApart, HasAll, Accept, StoreIndex, Upstream, SendBegin, AskServer,
              Redirect, Done, Goto, handlerVars
<1>4. CASE WriteQPRules(s) \/ WriteIPRules(s) \/ WriteTunnelRules(s)
  BY <1>4 DEF TypeOK, ClientsApart, HasAll, WriteQPRules, WriteIPRules, WriteTunnelRules,
              WriteTableEntry, Goto
<1> QED
  BY <1>1, <1>2, <1>3, <1>4

\* The number of a session that has all its rules does not change.
LEMMA BeginOwnStep ==
  ASSUME RulesInv, NEW s \in Session,
         \/ Accept(s) \/ StoreIndex(s) \/ Upstream(s) \/ Begin(s)
         \/ WriteQPRules(s) \/ WriteIPRules(s) \/ WriteTunnelRules(s)
         \/ SendBegin(s) \/ AskServer(s) \/ Redirect(s)
         \/ ClientCloses(s) \/ Done(s)
  PROVE  BeginOwn'
<1> USE DEF RulesInv, TablesInv
<1>1. CASE SendBegin(s)
  BY <1>1 DEF TypeOK, BeginOwn, HasAll, SendBegin, Egress, Goto
<1>2. CASE Redirect(s)
  BY <1>2 DEF BeginOwn, Redirect, Egress
<1>3. ASSUME ~ SendBegin(s), ~ Redirect(s)
      PROVE  /\ packet' = packet
             /\ \A t \in Session : pc[t] \in HasAll => pc'[t] \in HasAll /\ qp'[t] = qp[t]
  BY <1>3 DEF TypeOK, HasAll, Accept, StoreIndex, Upstream, Begin, WriteQPRules, WriteIPRules,
              WriteTunnelRules, WriteTableEntry, AskServer, ClientCloses, Done, Goto, switchVars
<1> QED
  BY <1>1, <1>2, <1>3 DEF BeginOwn, NoPacket

-----------------------------------------------------------------------------
\* The tables always say what RulesInv says of them, whatever the threads'
\* interleaving and whichever numbers the adapters hand out again.
THEOREM RulesInvariance == Spec => []RulesInv
<1>1. RulesInv /\ [Next]_vars => RulesInv'
  <2> SUFFICES ASSUME RulesInv, [Next]_vars PROVE RulesInv'
    OBVIOUS
  <2>1. CASE UNCHANGED vars
    BY <2>1 DEF RulesInv, TablesInv, TypeOK, NumbersKnown, EntriesOwned, RulesWritten, KeyOwn,
                ClientsApart, BeginOwn, vars, handlerVars, switchVars
  <2>2. CASE Next
    <3>1. PICK s \in Session :
            \/ Accept(s) \/ StoreIndex(s) \/ Upstream(s) \/ Begin(s)
            \/ WriteQPRules(s) \/ WriteIPRules(s) \/ WriteTunnelRules(s)
            \/ SendBegin(s) \/ AskServer(s) \/ Redirect(s)
            \/ ClientCloses(s) \/ Done(s)
      BY <2>2 DEF Next
    <3>2. TablesInv'
      BY <3>1, QuietStep, QPStep, IPStep, TunnelStep, BeginStep, RedirectStep
    <3> QED
      BY <3>1, <3>2, ApartStep, BeginOwnStep DEF RulesInv
  <2> QED
    BY <2>1, <2>2
<1> QED
  BY RulesInit, <1>1, PTL DEF Spec

\* The variables keep their types.
THEOREM RulesTypeCorrect == Spec => []TypeOK
<1>1. RulesInv => TypeOK
  BY DEF RulesInv, TablesInv
<1> QED
  BY <1>1, RulesInvariance, PTL

\* No packet of a chunk is accepted by the client of another session, and a BEGIN
\* only by one whose session has no rule, when its own client has closed.
THEOREM Isolated == Spec => []Isolation
<1>1. RulesInv => Isolation
  <2> SUFFICES ASSUME RulesInv, NEW s \in Session, Accepts(s), packet.from # s
               PROVE  /\ packet.op = "SEND_ONLY" /\ client[packet.from] = "closed"
                      /\ pc[s] \in {"qpRule", "failed"}
    BY DEF Isolation
  <2> DEFINE f == packet.from
  <2>1. packet.op = "SEND_ONLY"
    BY NoneIsNew DEF RulesInv, TablesInv, TypeOK, Packet, Opcode, KeyOwn, Accepts
  <2>2. /\ client[s] = "open" /\ qp[s] = packet.qp
        /\ pc[s] \in {"qpRule", "ipRule", "tunnelRule", "failed"} \union HasAll
    BY DEF RulesInv, ClientsApart, Accepts
  <2>3. f \in Session /\ pc[f] \in HasAll /\ qp[f] = qp[s]
    <3>1. ASSUME packet = NoPacket PROVE FALSE
      BY <2>2, <3>1, NoneIsNew DEF NoPacket, RulesInv, ClientsApart
    <3> QED
      BY <2>1, <2>2, <3>1 DEF RulesInv, BeginOwn
  <2>4. client[f] = "closed"
    BY <2>2, <2>3 DEF RulesInv, TablesInv, TypeOK, ClientsApart
  <2>5. pc[s] \notin {"ipRule", "tunnelRule"} \union HasAll
    BY <2>3 DEF RulesInv, TablesInv, RulesWritten
  <2> QED
    BY <2>1, <2>2, <2>4, <2>5
<1> QED
  BY <1>1, RulesInvariance, PTL

\* A session that serves is served by its own three rules.
THEOREM OwnRules == Spec => []RulesOwn
<1>1. RulesInv => RulesOwn
  BY DEF RulesInv, TablesInv, RulesOwn, RulesWritten, EntriesOwned, HasAll
<1> QED
  BY <1>1, RulesInvariance, PTL

\* A session whose rules are refused leaves no redirection behind.
THEOREM CleanFailure == Spec => []FailsBeforeRedirect
<1>1. RulesInv => FailsBeforeRedirect
  BY DEF RulesInv, TablesInv, EntriesOwned, FailsBeforeRedirect, HasAll
<1> QED
  BY <1>1, RulesInvariance, PTL
-----------------------------------------------------------------------------
(* The register. *)

Serving == {"begun", "served", "done"}

\* What no step takes away from a session that has all its rules: its numbers,
\* and the entries that name its cell.
LEMMA EntriesKept ==
  ASSUME RulesInv, [Next]_vars, NEW s \in Session, pc[s] \in HasAll
  PROVE  /\ qp'[s] = qp[s] /\ up'[s] = up[s]
         /\ \A q \in DOMAIN record_port : q \in DOMAIN record_port'
                                         /\ record_port'[q] = record_port[q]
         /\ qp[s] \in DOMAIN record_port
         /\ up[s] \in DOMAIN ipv4_lpm
         /\ ipv4_lpm'[up[s]] = ipv4_lpm[up[s]]
<1>1. qp[s] \in DOMAIN record_port /\ up[s] \in DOMAIN ipv4_lpm
  BY DEF RulesInv, TablesInv, RulesWritten, HasAll
<1>2. CASE UNCHANGED vars
  BY <1>1, <1>2 DEF vars, handlerVars, switchVars
<1>3. ASSUME NEW t \in Session, WriteQPRules(t)
      PROVE  /\ qp' = qp /\ up' = up /\ ipv4_lpm' = ipv4_lpm
             /\ \A q \in DOMAIN record_port : q \in DOMAIN record_port'
                                             /\ record_port'[q] = record_port[q]
  BY <1>3 DEF WriteQPRules, WriteTableEntry, With
<1>4. ASSUME NEW t \in Session, WriteIPRules(t)
      PROVE  /\ qp' = qp /\ up' = up /\ record_port' = record_port
             /\ \A u \in DOMAIN ipv4_lpm : ipv4_lpm'[u] = ipv4_lpm[u]
  BY <1>4 DEF WriteIPRules, WriteTableEntry, With
<1>5. ASSUME NEW t \in Session,
             \/ Accept(t) \/ StoreIndex(t) \/ Upstream(t) \/ Begin(t) \/ WriteTunnelRules(t)
             \/ SendBegin(t) \/ AskServer(t) \/ Redirect(t) \/ ClientCloses(t) \/ Done(t)
      PROVE  /\ qp'[s] = qp[s] /\ up'[s] = up[s]
             /\ UNCHANGED <<record_port, ipv4_lpm>>
  BY <1>5 DEF RulesInv, TablesInv, TypeOK, HasAll, Accept, StoreIndex, Upstream, Begin, WriteTunnelRules,
              SendBegin, AskServer, Redirect, ClientCloses, Done, handlerVars, switchVars
<1> QED
  BY <1>1, <1>2, <1>3, <1>4, <1>5 DEF Next

\* So a session that has a cell to itself after a step had it before, and the
\* same one.
LEMMA CellOlder ==
  ASSUME RulesInv, [Next]_vars, NEW s \in Session, pc[s] \in HasAll
  PROVE  /\ CellOwn(s)' => CellOwn(s)
         /\ record_port'[qp'[s]] = record_port[qp[s]]
BY EntriesKept DEF CellOwn

\* A step sends a packet of a session, or leaves the packet alone.
LEMMA PacketStep ==
  ASSUME RulesInv, PortInv, [Next]_vars
  PROVE  packet'.op # "SEND_ONLY" =>
           \E s \in Session : /\ packet'.from = s /\ pc'[s] \in {"served", "done"}
                              /\ CellOwn(s)' => packet'.port = s
<1>1. CASE packet' = packet /\ packet.op # "SEND_ONLY"
  <2>1. PICK old \in Session : packet.from = old /\ pc[old] \in {"served", "done"}
    BY <1>1 DEF PortInv
  <2>2. pc'[old] \in {"served", "done"}
    BY <2>1 DEF RulesInv, TablesInv, TypeOK, Next, vars, handlerVars, switchVars, Accept, StoreIndex,
                Upstream, Begin, WriteQPRules, WriteIPRules, WriteTunnelRules, WriteTableEntry,
                SendBegin, AskServer, Redirect, ClientCloses, Done, Goto
  <2>3. CellOwn(old)' => CellOwn(old)
    BY <2>1, CellOlder DEF HasAll
  <2>4. CellOwn(old) => packet.port = old
    BY <1>1, <2>1 DEF PortInv, PortKept
  <2> QED
    BY <1>1, <2>1, <2>2, <2>3, <2>4
<1>2. ASSUME NEW s \in Session, Redirect(s)
      PROVE  /\ packet'.from = s /\ pc[s] \in {"served", "done"} /\ pc'[s] = pc[s]
             /\ CellOwn(s)' => packet'.port = s
  <2>1. pc[s] \in {"served", "done"} /\ pc' = pc /\ packet'.from = s
    BY <1>2 DEF Redirect, Egress, handlerVars
  <2>2. ASSUME CellOwn(s) PROVE packet'.port = s
    <3>1. ipv4_lpm[up[s]].index \in 0..Slots-1
      BY <2>2 DEF CellOwn
    <3>2. PICK port \in {switch_src_port[ipv4_lpm[up[s]].index]} :
            Egress(s, "WRITE", ipv4_lpm[up[s]].client_qp, port)
      BY <1>2, <3>1 DEF Redirect
    <3>3. packet'.port = switch_src_port[ipv4_lpm[up[s]].index]
      BY <3>2 DEF Egress
    <3> QED
      BY <2>1, <2>2, <3>3 DEF CellOwn, PortInv
  <2>3. CellOwn(s)' => CellOwn(s)
    BY <1>2, <2>1 DEF Redirect, handlerVars, CellOwn
  <2> QED
    BY <2>1, <2>2, <2>3
<1>3. ASSUME NEW s \in Session, SendBegin(s)
      PROVE  packet'.op = "SEND_ONLY"
  BY <1>3 DEF SendBegin, Egress
<1>4. ASSUME NEW s \in Session,
             \/ Accept(s) \/ StoreIndex(s) \/ Upstream(s) \/ Begin(s)
             \/ WriteQPRules(s) \/ WriteIPRules(s) \/ WriteTunnelRules(s)
             \/ AskServer(s) \/ ClientCloses(s) \/ Done(s)
      PROVE  packet' = packet
  BY <1>4 DEF Accept, StoreIndex, Upstream, Begin, WriteQPRules, WriteIPRules,
              WriteTunnelRules, AskServer, ClientCloses, Done, switchVars
<1>5. UNCHANGED vars => packet' = packet
  BY DEF vars, switchVars
<1> QED
  BY <1>1, <1>2, <1>3, <1>4, <1>5 DEF Next

\* Only the session's own BEGIN writes a cell that it has to itself.
LEMMA CellStep ==
  ASSUME RulesInv, PortInv, [Next]_vars, NEW s \in Session, pc'[s] \in Serving, CellOwn(s)'
  PROVE  switch_src_port'[record_port'[qp'[s]].index] = s
<1>1. pc[s] \in HasAll
  <2>1. CASE UNCHANGED vars
    BY <2>1 DEF vars, handlerVars, Serving, HasAll
  <2>2. ASSUME NEW t \in Session,
               \/ Accept(t) \/ StoreIndex(t) \/ Upstream(t) \/ Begin(t) \/ SendBegin(t)
               \/ AskServer(t) \/ Redirect(t) \/ ClientCloses(t) \/ Done(t)
        PROVE  pc[s] \in HasAll
    BY <2>2 DEF RulesInv, TablesInv, TypeOK, Serving, HasAll, handlerVars, Accept, StoreIndex, Upstream,
                Begin, SendBegin, AskServer, Redirect, ClientCloses, Done, Goto
  <2>3. ASSUME NEW t \in Session, WriteQPRules(t) \/ WriteIPRules(t) \/ WriteTunnelRules(t)
        PROVE  pc[s] \in HasAll
    BY <2>3 DEF RulesInv, TablesInv, TypeOK, Serving, HasAll, WriteQPRules, WriteIPRules,
                WriteTunnelRules, WriteTableEntry, Goto
  <2> QED
    BY <2>1, <2>2, <2>3 DEF Next
<1>2. CellOwn(s) /\ record_port'[qp'[s]] = record_port[qp[s]]
  BY <1>1, CellOlder
<1> DEFINE cell == record_port[qp[s]].index
<1>3. cell \in 0..Slots-1
  BY <1>2 DEF CellOwn
<1>4. ASSUME switch_src_port' = switch_src_port, pc[s] \in Serving
      PROVE  switch_src_port'[cell] = s
  BY <1>2, <1>4 DEF PortInv, Serving
<1>5. ASSUME NEW t \in Session, SendBegin(t)
      PROVE  switch_src_port'[cell] = s
  <2>1. pc[t] = "ready" /\ pc' = [pc EXCEPT ![t] = "begun"] /\ RecordPort(t)
    BY <1>5 DEF SendBegin, Goto
  <2>2. /\ qp[t] \in DOMAIN record_port /\ record_port[qp[t]].by = t
        /\ qp[s] \in DOMAIN record_port /\ record_port[qp[s]].by = s
    BY <1>1, <2>1 DEF RulesInv, TablesInv, RulesWritten, HasAll
  <2>3. cell \in DOMAIN switch_src_port
    BY <1>3 DEF RulesInv, TablesInv, TypeOK
  <2>4. CASE t = s
    BY <1>3, <2>1, <2>2, <2>3, <2>4 DEF RecordPort
  <2>5. CASE t # s
    <3>1. record_port[qp[t]].index # cell
      BY <1>2, <2>2, <2>5 DEF CellOwn
    <3>2. switch_src_port'[cell] = switch_src_port[cell]
      BY <2>1, <2>3, <3>1 DEF RecordPort
    <3>3. pc[s] \in Serving
      BY <2>1, <2>5 DEF RulesInv, TablesInv, TypeOK, Serving
    <3> QED
      BY <1>2, <3>2, <3>3 DEF PortInv, Serving
  <2> QED
    BY <2>4, <2>5
<1>6. ASSUME NEW t \in Session,
             \/ Accept(t) \/ StoreIndex(t) \/ Upstream(t) \/ Begin(t)
             \/ WriteQPRules(t) \/ WriteIPRules(t) \/ WriteTunnelRules(t)
             \/ AskServer(t) \/ Redirect(t) \/ ClientCloses(t) \/ Done(t)
      PROVE  switch_src_port' = switch_src_port /\ pc[s] \in Serving
  BY <1>6 DEF RulesInv, TablesInv, TypeOK, Serving, Accept, StoreIndex, Upstream, Begin, WriteQPRules,
              WriteIPRules, WriteTunnelRules, WriteTableEntry, AskServer, Redirect,
              ClientCloses, Done, Goto, switchVars, handlerVars
<1>7. UNCHANGED vars => switch_src_port' = switch_src_port /\ pc[s] \in Serving
  BY DEF vars, handlerVars, switchVars
<1> HIDE DEF cell
<1>8. switch_src_port'[cell] = s
  BY <1>4, <1>5, <1>6, <1>7 DEF Next
<1> QED
  BY <1>2, <1>8 DEF cell

\* A packet of a chunk keeps the port of a session that has a cell to itself.
THEOREM PortsKept == Spec => []PortKept
<1>1. Init => PortInv
  BY DEF Init, PortInv, PortKept, NoPacket
<1>2. RulesInv /\ PortInv /\ [Next]_vars => PortInv'
  <2> SUFFICES ASSUME RulesInv, PortInv, [Next]_vars PROVE PortInv'
    OBVIOUS
  <2>1. \A s \in Session : pc'[s] \in Serving /\ CellOwn(s)' =>
                           switch_src_port'[record_port'[qp'[s]].index] = s
    BY CellStep
  <2>2. CASE packet'.op # "SEND_ONLY"
    <3>1. PICK s \in Session : /\ packet'.from = s /\ pc'[s] \in {"served", "done"}
                               /\ CellOwn(s)' => packet'.port = s
      BY <2>2, PacketStep
    <3>2. PortKept'
      BY <3>1 DEF PortKept, CellOwn
    <3> QED
      BY <2>1, <3>1, <3>2 DEF PortInv, Serving
  <2>3. CASE packet'.op = "SEND_ONLY"
    BY <2>1, <2>3 DEF PortInv, PortKept, Serving
  <2> QED
    BY <2>2, <2>3
<1>3. PortInv => PortKept
  BY DEF PortInv
<1> QED
  BY <1>1, <1>2, <1>3, RulesInvariance, PTL DEF Spec
=============================================================================
