----------------------------- MODULE Handshake -----------------------------
(***************************************************************************)
(* The connection library src/create_connection/utils/connection.py: two   *)
(* programs call handshake() the same number of times, with the same keys. *)
(* A round without arguments exchanges the word "Aloha!" and serves as a   *)
(* barrier; a round with arguments exchanges a string each way ("info").   *)
(*                                                                         *)
(* SKT does so over TCP, which does not keep messages apart: recv returns  *)
(* up to len(own message) + RESERVED_LEN bytes of whatever has arrived.    *)
(* The only separation of two rounds is a sleep after the recv.  CM does so*)
(* over an RDMA connection, whose messages are units that fail when they   *)
(* are longer than the receive that was posted for them.                   *)
(*                                                                         *)
(* A byte is represented by the round its sender sent it in.               *)
(***************************************************************************)
EXTENDS Naturals, Sequences

CONSTANTS Script,     \* the rounds that both programs make
          InfoLengths,\* possible lengths of an info string, in units of the
                      \* word's length
          Reserved,   \* RESERVED_LEN, in the same unit
          Transports  \* which of "SKT" and "CM" are run

ASSUME HandshakeAssumption == /\ Script \in Seq({"word", "info"}) \ {<<>>}
                              /\ InfoLengths \subseteq Nat \ {0}
                              /\ Reserved \in Nat
                              /\ Transports \subseteq {"SKT", "CM"}

End == {"client", "server"}
Other(e) == IF e = "client" THEN "server" ELSE "client"

VARIABLES transport,
          whole,    \* TCP delivers what one send sent in one piece
          timely,   \* an end reads a message before its sender has slept 0.5 s
          infoLen,  \* infoLen[e]: the length of the info strings of e
          round, pc,
          stream,   \* stream[e]: bytes on their way to e
          got,      \* got[e]: what the last receive of e returned
          broken    \* the RDMA connection is in error

runVars == <<transport, whole, timely, infoLen>>
vars    == <<runVars, round, pc, stream, got, broken>>

TypeOK == /\ transport \in Transports /\ whole \in BOOLEAN /\ timely \in BOOLEAN
          /\ infoLen \in [End -> InfoLengths]
          /\ round \in [End -> 1..Len(Script) + 1]
          /\ pc \in [End -> {"send", "recv", "parse", "ended", "failed"}]
          /\ stream \in [End -> Seq(1..Len(Script))]
          /\ got \in [End -> Seq(1..Len(Script))]
          /\ broken \in BOOLEAN
          /\ \A e \in End : pc[e] = "ended" <=> round[e] = Len(Script) + 1

Init == /\ transport \in Transports /\ whole \in BOOLEAN /\ timely \in BOOLEAN
        /\ infoLen \in [End -> InfoLengths]
        /\ round = [e \in End |-> 1] /\ pc = [e \in End |-> "send"]
        /\ stream = [e \in End |-> <<>>] /\ got = [e \in End |-> <<>>]
        /\ broken = FALSE

-----------------------------------------------------------------------------
OwnLength(e, k) == IF Script[k] = "word" THEN 1 ELSE infoLen[e]

\* prepare_send_msg: the message of e in round k.
Message(e, k) == [i \in 1..OwnLength(e, k) |-> k]

\* Altered form: recv asks for no more than the length of the own message.
LimitOwn(e) == OwnLength(e, round[e])

\* How much one receive takes: recv(len(send_msg) + RESERVED_LEN), but
\* post_recv(recv_mr, size), the length of the own message.
Limit(e) == OwnLength(e, round[e]) + (IF transport = "SKT" THEN Reserved ELSE 0)

\* CM posts the receive and SKT opens none; both then send.
Send(e) == /\ pc[e] = "send"
           /\ pc' = [pc EXCEPT ![e] = "recv"]
           /\ stream' = [stream EXCEPT ![Other(e)] = @ \o Message(e, round[e])]
           /\ UNCHANGED <<round, got, broken>>

\* The bytes s[1..n] can be what one recv returns.
Piece(s, n, max) == /\ n \in 1..Len(s) /\ n <= max
                    /\ whole /\ n < max /\ n < Len(s) => s[n] # s[n + 1]

Takes(e, n) == /\ got' = [got EXCEPT ![e] = SubSeq(stream[e], 1, n)]
               /\ stream' = [stream EXCEPT ![e] = SubSeq(@, n + 1, Len(@))]

RecvBytes(e) == /\ transport = "SKT" /\ pc[e] = "recv"
                /\ \E n \in 1..Len(stream[e]) : Piece(stream[e], n, Limit(e)) /\ Takes(e, n)
                /\ pc' = [pc EXCEPT ![e] = "parse"]
                /\ UNCHANGED <<round, broken>>

\* A message of the RDMA connection, if it fits; else both ends are in error.
RecvMessage(e) ==
  /\ transport = "CM" /\ pc[e] = "recv" /\ ~ broken /\ stream[e] # <<>>
  /\ LET n == OwnLength(Other(e), Head(stream[e])) IN
       IF n <= Limit(e)
         THEN Takes(e, n) /\ UNCHANGED broken
         ELSE broken' = TRUE /\ got' = [got EXCEPT ![e] = <<>>] /\ UNCHANGED stream
  /\ pc' = [pc EXCEPT ![e] = "parse"]
  /\ UNCHANGED round

\* A receive that returns nothing: of a socket the other end has closed, or of
\* a connection in error.
RecvNothing(e) ==
  /\ pc[e] = "recv"
  /\ IF transport = "CM" THEN broken
     ELSE stream[e] = <<>> /\ pc[Other(e)] \in {"ended", "failed"}
  /\ got' = [got EXCEPT ![e] = <<>>]
  /\ pc' = [pc EXCEPT ![e] = "parse"]
  /\ UNCHANGED <<round, stream, broken>>

HasRead(e, k) == round[e] > k \/ (round[e] = k /\ pc[e] # "recv" /\ pc[e] # "send")
                   \/ pc[e] = "failed"

\* Altered form: there is no sleep.
AwakeAtOnce(e) == TRUE

\* Only SKT sleeps.  0.5 s are enough if the other end reads within them.
Awake(e) == transport = "SKT" /\ timely => HasRead(Other(e), round[e])

\* Altered form: the last round is left out.
ParseShort(e) ==
  /\ pc[e] = "parse" /\ Awake(e)
  /\ pc' = [pc EXCEPT ![e] = IF round[e] + 1 = Len(Script) THEN "ended" ELSE "send"]
  /\ round' = [round EXCEPT ![e] = @ + 1]
  /\ UNCHANGED <<stream, got, broken>>

\* parse_recv_msg: a word that is not the expected one is reported and nothing
\* else; an info that is not raises, or is taken with a wrong last value.
Parse(e) ==
  /\ pc[e] = "parse" /\ Awake(e)
  /\ LET exact == got[e] = Message(Other(e), round[e])
         next  == IF round[e] = Len(Script) THEN "ended" ELSE "send" IN
       \/ /\ exact \/ Script[round[e]] = "word" \/ got[e] # <<>>
          /\ pc' = [pc EXCEPT ![e] = next]
          /\ round' = [round EXCEPT ![e] = @ + 1]
       \/ /\ ~ exact /\ Script[round[e]] = "info"
          /\ pc' = [pc EXCEPT ![e] = "failed"]
          /\ UNCHANGED round
  /\ UNCHANGED <<stream, got, broken>>

EndNext(e) == /\ Send(e) \/ RecvBytes(e) \/ RecvMessage(e) \/ RecvNothing(e) \/ Parse(e)
              /\ UNCHANGED runVars

Next == \E e \in End : EndNext(e)

Spec     == Init /\ [][Next]_vars
FairSpec == Spec /\ \A e \in End : WF_vars(EndNext(e))

-----------------------------------------------------------------------------
(* Properties. *)

\* The longest message that an end can be sent fits its receive.
Fits == \A e \in End :
          infoLen[Other(e)] <= infoLen[e] + (IF transport = "SKT" THEN Reserved ELSE 0)

Kept == Fits /\ (transport = "SKT" => whole)

\* handshake() "is always used as a synchronization mechanism": an end that has
\* left a round knows that the other has entered it.  This holds with or without
\* the sleep, as long as a message is read in one piece, and but for a peer that
\* failed: the b'' of its closed socket passes for a word.
Barrier == Kept => \A e \in End :
             round[e] > 1 /\ pc[Other(e)] # "failed" =>
               /\ round[Other(e)] >= round[e] - 1
               /\ round[Other(e)] = round[e] - 1 => pc[Other(e)] # "send"

\* Each round returns exactly what the other end sent in it: two messages that
\* are in the stream at once are never read as one, if the sleep does its work.
Exact == Kept /\ (transport = "SKT" => timely) =>
           \A e \in End : pc[e] = "parse" => got[e] = Message(Other(e), round[e])

\* Both ends then get through all the rounds.
AllRounds == Kept /\ (transport = "SKT" => timely) => <>(\A e \in End : pc[e] = "ended")

\* The code reserves RESERVED_LEN for the difference of the two lengths: a
\* message that is no more than that longer than the own is received.
Reserves == (\A e \in End : infoLen[Other(e)] <= infoLen[e] + Reserved)
              => ~ broken
=============================================================================
