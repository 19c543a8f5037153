------------------------- MODULE Connection_proofs -------------------------
(***************************************************************************)
(* Proofs about the two ways a connection is set up over TCP: with the     *)
(* connection library, for any script of rounds, any lengths of the strings*)
(* and any RESERVED_LEN; and by the commands of a session, for any of the  *)
(* programs and with or without faults.                                    *)
(***************************************************************************)
EXTENDS Handshake, Session, SequenceTheorems, TLAPS

(* The connection library: what the stream to an end can hold, by how many *)
(* rounds its owner has read and how many the other end has sent.          *)

\* The rounds whose message e has sent, and those for which a receive of e has
\* returned: all up to this one.
SentBy(e) == IF pc[e] \in {"send", "ended"} THEN round[e] - 1 ELSE round[e]
ReadBy(e) == IF pc[e] \in {"parse", "failed"} THEN round[e] ELSE round[e] - 1

\* The messages that are on their way to e, when they are kept apart: at most two.
Pending(e) ==
  LET k == ReadBy(e) + 1 IN
    CASE SentBy(Other(e)) = ReadBy(e) -> <<>>
      [] SentBy(Other(e)) = k         -> Message(Other(e), k)
      [] OTHER                        -> Message(Other(e), k) \o Message(Other(e), k + 1)

\* Each receive has returned one message, that of its round.  SKT's sleep keeps an
\* end from going on before the other has read its message; without a sleep, as over
\* CM, an end can be a message ahead.
Separate(e) ==
  /\ stream[e] = Pending(e)
  /\ pc[e] # "failed"
  /\ pc[e] = "parse" => got[e] = Message(Other(e), round[e])
  /\ ReadBy(e) <= SentBy(Other(e))
  /\ transport = "SKT" => round[Other(e)] <= ReadBy(e) + 1

InOrder == (transport = "CM" /\ ~ broken) \/ (transport = "SKT" /\ Kept /\ timely)
             => \A e \in End : Separate(e)

\* Without the sleep rounds can run together, but a receive takes at least all that
\* is left of the earliest of them, so what is left is of rounds not yet read for.
Ascending(e) ==
  /\ \A i \in 1..Len(stream[e]) :
       ReadBy(e) < stream[e][i] /\ stream[e][i] <= SentBy(Other(e))
  /\ \A i, j \in 1..Len(stream[e]) : i <= j =>
       /\ stream[e][i] <= stream[e][j]
       /\ stream[e][i] = stream[e][j] => j < i + OwnLength(Other(e), stream[e][i])
  /\ pc[Other(e)] # "failed" => ReadBy(e) <= SentBy(Other(e))

InSequence == transport = "SKT" /\ Kept => \A e \in End : Ascending(e)

Unbroken == transport = "SKT" \/ Kept => ~ broken

\* The strengthening of the library's safety properties: inductive as it stands.
IInv == TypeOK /\ Unbroken /\ InOrder /\ InSequence

Byte == 1..Len(Script)

LEMMA Constants ==
  /\ Len(Script) \in Nat /\ Len(Script) >= 1
  /\ \A k \in Byte : Script[k] = "word" \/ Script[k] = "info"
  /\ \A n \in InfoLengths : n \in Nat /\ n >= 1
  /\ Reserved \in Nat
  /\ \A t \in Transports : t = "SKT" \/ t = "CM"
  /\ \A e \in End : Other(e) \in End /\ Other(Other(e)) = e /\ Other(e) # e
                    /\ \A x \in End : x = e \/ x = Other(e)
<1>1. Len(Script) \in Nat /\ Len(Script) >= 1 /\ \A k \in Byte : Script[k] \in {"word", "info"}
  <2>1. Script \in Seq({"word", "info"}) /\ Script # <<>>
    BY HandshakeAssumption
  <2>2. Len(Script) \in Nat \ {0}
    BY <2>1, EmptySeq
  <2> QED BY <2>1, <2>2, ElementOfSeq DEF Byte
<1>2. \A e \in End : Other(e) \in End /\ Other(Other(e)) = e /\ Other(e) # e
                    /\ \A x \in End : x = e \/ x = Other(e)
  BY DEF End, Other
<1> QED BY <1>1, <1>2, HandshakeAssumption

\* A message is a byte as often as it is long, and never empty.
LEMMA MessageFacts ==
  ASSUME TypeOK, NEW e \in End, NEW k \in Byte
  PROVE  /\ OwnLength(e, k) \in Nat /\ OwnLength(e, k) >= 1
         /\ Message(e, k) \in Seq(Byte)
         /\ Len(Message(e, k)) = OwnLength(e, k)
         /\ \A i \in 1..OwnLength(e, k) : Message(e, k)[i] = k
         /\ Message(e, k) # <<>> /\ Head(Message(e, k)) = k
<1>1. OwnLength(e, k) \in Nat /\ OwnLength(e, k) >= 1
  BY Constants DEF OwnLength, TypeOK
<1>2. PICK n \in Nat : n = OwnLength(e, k)
  BY <1>1
<1>3. [i \in 1..n |-> k] \in Seq(Byte) /\ Len([i \in 1..n |-> k]) = n
  BY <1>2
<1>4. \A i \in 1..n : Message(e, k)[i] = k
  BY <1>2 DEF Message
<1>5. Message(e, k) \in Seq(Byte) /\ Len(Message(e, k)) = n
  BY <1>2, <1>3 DEF Message
<1>6. Message(e, k) # <<>> /\ Head(Message(e, k)) = k
  <2>1. Len(Message(e, k)) >= 1
    BY <1>1, <1>2, <1>5
  <2>2. Message(e, k) # <<>>
    BY <2>1, EmptySeq
  <2>3. Message(e, k)[1] = k
    BY <1>1, <1>2, <1>4
  <2> QED BY <2>2, <2>3, <1>5
<1> QED BY <1>1, <1>2, <1>4, <1>5, <1>6

\* A prefix of a sequence and the rest of it, element by element.
LEMMA SplitFacts ==
  ASSUME NEW S, NEW s \in Seq(S), NEW n \in 1..Len(s)
  PROVE  /\ SubSeq(s, 1, n) \in Seq(S) /\ Len(SubSeq(s, 1, n)) = n
         /\ \A i \in 1..n : SubSeq(s, 1, n)[i] = s[i]
         /\ SubSeq(s, n + 1, Len(s)) \in Seq(S)
         /\ Len(SubSeq(s, n + 1, Len(s))) = Len(s) - n
         /\ \A i \in 1..(Len(s) - n) : SubSeq(s, n + 1, Len(s))[i] = s[n + i]
<1>1. Len(s) \in Nat /\ n \in Nat /\ \A i \in 1..Len(s) : s[i] \in S
  BY ElementOfSeq, LenProperties
<1>2. \A i \in 1..n : s[i] \in S
  BY <1>1
<1>3. \A i \in (n + 1)..Len(s) : s[i] \in S
  BY <1>1
<1>4. /\ SubSeq(s, 1, n) \in Seq(S) /\ Len(SubSeq(s, 1, n)) = n
      /\ \A i \in 1..n : SubSeq(s, 1, n)[i] = s[i]
  BY <1>1, <1>2, SubSeqProperties
<1>5. /\ SubSeq(s, n + 1, Len(s)) \in Seq(S)
      /\ Len(SubSeq(s, n + 1, Len(s))) = Len(s) - n
      /\ \A i \in 1..(Len(s) - n) : SubSeq(s, n + 1, Len(s))[i] = s[n + i]
  BY <1>1, <1>3, SubSeqProperties
<1> QED BY <1>4, <1>5

\* To take the first of two sequences, or the whole of one.
LEMMA TakeFirst ==
  ASSUME NEW S, NEW s \in Seq(S), NEW t \in Seq(S), s # <<>>
  PROVE  /\ Len(s) \in 1..Len(s \o t)
         /\ SubSeq(s \o t, 1, Len(s)) = s
         /\ SubSeq(s \o t, Len(s) + 1, Len(s \o t)) = t
         /\ Head(s \o t) = Head(s) /\ s \o t # <<>>
<1>1. /\ s \o t \in Seq(S) /\ Len(s \o t) = Len(s) + Len(t) /\ Len(s) \in Nat /\ Len(t) \in Nat
      /\ Len(s) >= 1
      /\ \A i \in 1..Len(s) + Len(t) : (s \o t)[i] = IF i <= Len(s) THEN s[i] ELSE t[i - Len(s)]
  BY ConcatProperties, LenProperties, EmptySeq
<1>2. PICK u \in Seq(S) : u = s \o t
  BY <1>1
<1>3. PICK n \in Nat : n = Len(s)
  BY <1>1
<1>4. PICK m \in Nat : m = Len(t)
  BY <1>1
<1>5. Len(u) = n + m /\ n >= 1 /\ n \in 1..Len(u)
  BY <1>1, <1>2, <1>3, <1>4
<1>6. /\ \A i \in 1..n : u[i] = s[i]
      /\ \A i \in 1..m : u[n + i] = t[i]
  BY <1>1, <1>2, <1>3, <1>4
<1>7. SubSeq(u, 1, n) = s
  <2>1. /\ SubSeq(u, 1, n) \in Seq(S) /\ Len(SubSeq(u, 1, n)) = n
        /\ \A i \in 1..n : SubSeq(u, 1, n)[i] = u[i]
    BY <1>5, SplitFacts
  <2> QED BY <1>3, <1>6, <2>1, SeqEqual
<1>8. SubSeq(u, n + 1, Len(u)) = t
  <2>1. /\ SubSeq(u, n + 1, Len(u)) \in Seq(S) /\ Len(SubSeq(u, n + 1, Len(u))) = Len(u) - n
        /\ \A i \in 1..(Len(u) - n) : SubSeq(u, n + 1, Len(u))[i] = u[n + i]
    BY <1>5, SplitFacts
  <2>2. Len(u) - n = m
    BY <1>5
  <2> QED BY <1>4, <1>6, <2>1, <2>2, SeqEqual
<1>9. u # <<>> /\ Head(u) = u[1] /\ Head(s) = s[1]
  BY <1>1, <1>2, <1>5, EmptySeq
<1> QED BY <1>1, <1>2, <1>3, <1>5, <1>6, <1>7, <1>8, <1>9

LEMMA TakeAll ==
  ASSUME NEW S, NEW s \in Seq(S), s # <<>>
  PROVE  /\ Len(s) \in 1..Len(s)
         /\ SubSeq(s, 1, Len(s)) = s /\ SubSeq(s, Len(s) + 1, Len(s)) = <<>>
<1>1. s \o <<>> = s /\ <<>> \in Seq(S)
  BY ConcatEmptySeq, EmptySeq
<1> QED BY <1>1, TakeFirst

-----------------------------------------------------------------------------
(* By how many rounds each end has sent and read, and what a step changes. *)

LEMMA RoundFacts ==
  ASSUME TypeOK, NEW e \in End
  PROVE  /\ round[e] \in Nat /\ round[e] >= 1 /\ round[e] <= Len(Script) + 1
         /\ pc[e] # "ended" => round[e] \in Byte
         /\ SentBy(e) \in Nat /\ ReadBy(e) \in Nat /\ SentBy(e) <= Len(Script)
         /\ SentBy(e) = ReadBy(e) \/ SentBy(e) = ReadBy(e) + 1
         /\ pc[e] = "send" => SentBy(e) = round[e] - 1 /\ ReadBy(e) = round[e] - 1
         /\ pc[e] = "recv" => SentBy(e) = round[e] /\ ReadBy(e) = round[e] - 1
         /\ pc[e] = "parse" => SentBy(e) = round[e] /\ ReadBy(e) = round[e]
         /\ pc[e] = "ended" => SentBy(e) = Len(Script) /\ ReadBy(e) = Len(Script)
         /\ pc[e] = "failed" => SentBy(e) = round[e] /\ ReadBy(e) = round[e]
<1>1. PICK r \in 1..Len(Script) + 1 : r = round[e]
  BY DEF TypeOK
<1>2. PICK N \in Nat : N = Len(Script)
  BY Constants
<1>3. pc[e] \in {"send", "recv", "parse", "ended", "failed"} /\ (pc[e] = "ended" <=> r = N + 1)
  BY <1>1, <1>2 DEF TypeOK
<1>4. r \in Nat /\ r >= 1 /\ r <= N + 1 /\ (pc[e] # "ended" => r \in 1..N)
  BY <1>1, <1>2, <1>3
<1>5. CASE pc[e] = "send"
  BY <1>1, <1>2, <1>4, <1>5 DEF SentBy, ReadBy, Byte
<1>6. CASE pc[e] = "recv"
  BY <1>1, <1>2, <1>4, <1>6 DEF SentBy, ReadBy, Byte
<1>7. CASE pc[e] = "parse"
  BY <1>1, <1>2, <1>4, <1>7 DEF SentBy, ReadBy, Byte
<1>8. CASE pc[e] = "ended"
  BY <1>1, <1>2, <1>3, <1>4, <1>8 DEF SentBy, ReadBy, Byte
<1>9. CASE pc[e] = "failed"
  BY <1>1, <1>2, <1>4, <1>9 DEF SentBy, ReadBy, Byte
<1> QED BY <1>3, <1>5, <1>6, <1>7, <1>8, <1>9

\* A step of one end leaves the places of the other alone.
LEMMA OthersKeep ==
  ASSUME TypeOK, NEW e \in End, EndNext(e)
  PROVE  /\ pc'[Other(e)] = pc[Other(e)] /\ round'[Other(e)] = round[Other(e)]
         /\ SentBy(Other(e))' = SentBy(Other(e)) /\ ReadBy(Other(e))' = ReadBy(Other(e))
         /\ UNCHANGED <<transport, whole, timely, infoLen>>
         /\ (Kept' <=> Kept)
         /\ \A x, k : OwnLength(x, k)' = OwnLength(x, k) /\ Message(x, k)' = Message(x, k)
<1>1. UNCHANGED <<transport, whole, timely, infoLen>>
  BY DEF EndNext, runVars
<1>2. pc'[Other(e)] = pc[Other(e)] /\ round'[Other(e)] = round[Other(e)]
  BY Constants DEF EndNext, Send, RecvBytes, RecvMessage, RecvNothing, Parse, TypeOK
<1>3. SentBy(Other(e))' = SentBy(Other(e)) /\ ReadBy(Other(e))' = ReadBy(Other(e))
  BY <1>2 DEF SentBy, ReadBy
<1>4. /\ Kept' <=> Kept
      /\ \A x, k : OwnLength(x, k)' = OwnLength(x, k)
      /\ \A x, k : Message(x, k)' = Message(x, k)
  BY <1>1 DEF Kept, Fits, OwnLength, Message
<1> QED BY <1>1, <1>2, <1>3, <1>4

LEMMA SendEffect ==
  ASSUME TypeOK, NEW e \in End, Send(e)
  PROVE  /\ round[e] \in Byte
         /\ ReadBy(e)' = ReadBy(e) /\ SentBy(e)' = SentBy(e) + 1 /\ SentBy(e)' = round[e]
         /\ ReadBy(e) = round[e] - 1 /\ SentBy(e) = round[e] - 1 /\ round'[e] = round[e]
         /\ pc'[e] = "recv"
         /\ stream'[Other(e)] = stream[Other(e)] \o Message(e, round[e])
         /\ stream'[e] = stream[e] /\ got' = got /\ broken' = broken
<1>1. /\ pc[e] = "send" /\ pc'[e] = "recv" /\ round' = round
      /\ stream'[Other(e)] = stream[Other(e)] \o Message(e, round[e])
      /\ stream'[e] = stream[e] /\ got' = got /\ broken' = broken
  BY Constants DEF Send, TypeOK
<1>2. SentBy(e)' = round[e] /\ ReadBy(e)' = round[e] - 1
  BY <1>1 DEF SentBy, ReadBy
<1> QED BY <1>1, <1>2, RoundFacts

LEMMA RecvEffect ==
  ASSUME TypeOK, NEW e \in End, RecvBytes(e) \/ RecvMessage(e) \/ RecvNothing(e)
  PROVE  /\ round[e] \in Byte
         /\ ReadBy(e)' = round[e] /\ SentBy(e)' = SentBy(e) /\ SentBy(e) = round[e]
         /\ ReadBy(e) = round[e] - 1 /\ round'[e] = round[e]
         /\ pc[e] = "recv" /\ pc'[e] = "parse"
         /\ stream'[Other(e)] = stream[Other(e)] /\ got'[Other(e)] = got[Other(e)]
<1>1. /\ pc[e] = "recv" /\ pc'[e] = "parse" /\ round' = round
      /\ stream'[Other(e)] = stream[Other(e)] /\ got'[Other(e)] = got[Other(e)]
  BY Constants DEF RecvBytes, RecvMessage, RecvNothing, Takes, TypeOK
<1>2. SentBy(e)' = round[e] /\ ReadBy(e)' = round[e]
  BY <1>1 DEF SentBy, ReadBy
<1> QED BY <1>1, <1>2, RoundFacts

LEMMA ParseEffect ==
  ASSUME TypeOK, NEW e \in End, Parse(e)
  PROVE  /\ round[e] \in Byte /\ pc[e] = "parse" /\ Awake(e)
         /\ ReadBy(e)' = ReadBy(e) /\ SentBy(e)' = SentBy(e)
         /\ ReadBy(e) = round[e] /\ SentBy(e) = round[e]
         /\ \/ /\ pc'[e] = (IF round[e] = Len(Script) THEN "ended" ELSE "send")
               /\ round'[e] = round[e] + 1
            \/ /\ got[e] # Message(Other(e), round[e])
               /\ pc'[e] = "failed" /\ round'[e] = round[e]
         /\ stream' = stream /\ got' = got /\ broken' = broken
<1>1. /\ pc[e] = "parse" /\ Awake(e)
      /\ \/ /\ pc'[e] = (IF round[e] = Len(Script) THEN "ended" ELSE "send")
            /\ round'[e] = round[e] + 1
         \/ /\ got[e] # Message(Other(e), round[e])
            /\ pc'[e] = "failed" /\ round'[e] = round[e]
      /\ stream' = stream /\ got' = got /\ broken' = broken
  BY Constants DEF Parse, TypeOK
<1>2. round[e] \in Byte /\ round[e] \in Nat /\ ReadBy(e) = round[e] /\ SentBy(e) = round[e]
  BY <1>1, RoundFacts
<1>3. CASE pc'[e] = "failed" /\ round'[e] = round[e]
  <2>1. SentBy(e)' = round[e] /\ ReadBy(e)' = round[e]
    BY <1>3 DEF SentBy, ReadBy
  <2> QED BY <1>1, <1>2, <2>1
<1>4. CASE (pc'[e] = "ended" \/ pc'[e] = "send") /\ round'[e] = round[e] + 1
  <2>1. SentBy(e)' = (round[e] + 1) - 1 /\ ReadBy(e)' = (round[e] + 1) - 1
    BY <1>4 DEF SentBy, ReadBy
  <2> QED BY <1>1, <1>2, <2>1
<1> QED BY <1>1, <1>3, <1>4

-----------------------------------------------------------------------------
(* While messages are kept apart. *)

\* What an end that is about to receive finds, when it finds something: the message of
\* its round, and perhaps that of the next.
LEMMA Waiting ==
  ASSUME TypeOK, NEW e \in End, Separate(e), Separate(Other(e)),
         pc[e] = "recv", stream[e] # <<>>
  PROVE  LET k == round[e]
             m == Message(Other(e), k)
             s == stream[e] IN
         /\ k \in Byte /\ k \in Nat /\ Head(s) = k
         /\ Len(m) \in 1..Len(s) /\ Len(m) = OwnLength(Other(e), k) /\ SubSeq(s, 1, Len(m)) = m
         /\ \/ /\ SentBy(Other(e)) = k /\ s = m
               /\ SubSeq(s, Len(m) + 1, Len(s)) = <<>>
            \/ /\ SentBy(Other(e)) = k + 1 /\ k + 1 \in Byte /\ transport # "SKT"
               /\ SubSeq(s, Len(m) + 1, Len(s)) = Message(Other(e), k + 1)
<1> DEFINE o == Other(e)
           k == round[e]
           m == Message(o, k)
           s == stream[e]
<1>1. /\ o \in End /\ Other(o) = e /\ k \in Byte /\ k \in Nat /\ k >= 1
      /\ ReadBy(e) = k - 1 /\ SentBy(e) = k
      /\ SentBy(o) \in Nat /\ SentBy(o) <= Len(Script) /\ ReadBy(o) \in Nat
      /\ SentBy(o) = ReadBy(o) \/ SentBy(o) = ReadBy(o) + 1
      /\ round[o] \in Nat
  BY Constants, RoundFacts
<1>2. /\ s = Pending(e) /\ ReadBy(e) <= SentBy(o) /\ ReadBy(o) <= SentBy(e)
      /\ transport = "SKT" => round[o] <= ReadBy(e) + 1
  BY <1>1 DEF Separate
<1>3. SentBy(o) = k - 1 \/ SentBy(o) = k \/ SentBy(o) = k + 1
  BY <1>1, <1>2
<1>4. /\ m \in Seq(Byte) /\ m # <<>> /\ Head(m) = k /\ Len(m) = OwnLength(o, k)
  BY <1>1, MessageFacts
<1>5. (k - 1) + 1 = k
  BY <1>1
<1>6. CASE SentBy(o) = k - 1
  BY <1>1, <1>2, <1>6 DEF Pending
<1>7. CASE SentBy(o) = k
  <2>1. s = m
    BY <1>1, <1>2, <1>5, <1>7 DEF Pending
  <2> HIDE DEF m, s
  <2> QED BY <1>1, <1>4, <1>7, <2>1, TakeAll DEF m, s
<1>8. CASE SentBy(o) = k + 1
  <2>1. k + 1 \in Byte
    BY <1>1, <1>8, Constants DEF Byte
  <2>2. s = m \o Message(o, k + 1)
    <3>1. ReadBy(e) + 1 = k /\ SentBy(o) # ReadBy(e) /\ SentBy(o) # ReadBy(e) + 1
      BY <1>1, <1>5, <1>8
    <3> QED BY <1>2, <3>1 DEF Pending
  <2>3. Message(o, k + 1) \in Seq(Byte)
    BY <1>1, <2>1, MessageFacts
  <2>4. transport # "SKT"
    <3>1. ASSUME transport = "SKT" PROVE FALSE
      <4>1. round[o] <= k
        BY <1>1, <1>2, <1>5, <3>1
      <4>2. SentBy(o) <= round[o]
        BY <1>1, RoundFacts DEF SentBy
      <4> QED BY <1>1, <1>8, <4>1, <4>2
    <3> QED BY <3>1
  <2>5. PICK t : t = Message(o, k + 1)
    OBVIOUS
  <2>6. PICK u : u = m
    OBVIOUS
  <2>7. PICK v : v = s
    OBVIOUS
  <2>8. /\ Len(u) \in 1..Len(v) /\ SubSeq(v, 1, Len(u)) = u
        /\ SubSeq(v, Len(u) + 1, Len(v)) = t /\ Head(v) = Head(u)
    <3>1. v = u \o t /\ u \in Seq(Byte) /\ t \in Seq(Byte) /\ u # <<>>
      BY <1>4, <2>2, <2>3, <2>5, <2>6, <2>7
    <3> QED BY <3>1, TakeFirst
  <2> QED BY <1>1, <1>4, <1>8, <2>1, <2>4, <2>5, <2>6, <2>7, <2>8
<1> QED BY <1>1, <1>3, <1>6, <1>7, <1>8

-----------------------------------------------------------------------------
(* Type correctness. *)

LEMMA TypeInit == Init => TypeOK
<1> SUFFICES ASSUME Init PROVE TypeOK
  OBVIOUS
<1>1. 1 \in 1..Len(Script) + 1 /\ 1 # Len(Script) + 1 /\ <<>> \in Seq(1..Len(Script))
  BY Constants, EmptySeq
<1> QED BY <1>1 DEF Init, TypeOK

\* What is taken from a stream, and what is left of it.
LEMMA TakesType ==
  ASSUME TypeOK, NEW e \in End, NEW n \in 1..Len(stream[e]), Takes(e, n)
  PROVE  stream' \in [End -> Seq(1..Len(Script))] /\ got' \in [End -> Seq(1..Len(Script))]
<1>1. stream[e] \in Seq(Byte)
  BY DEF TypeOK, Byte
<1>2. SubSeq(stream[e], 1, n) \in Seq(Byte) /\ SubSeq(stream[e], n + 1, Len(stream[e])) \in Seq(Byte)
  BY <1>1, SplitFacts
<1> QED BY <1>2 DEF Takes, TypeOK, Byte

LEMMA TypeStep ==
  ASSUME TypeOK, InOrder, [Next]_vars
  PROVE  TypeOK'
<1>1. CASE UNCHANGED vars
  BY <1>1 DEF vars, runVars, TypeOK
<1>2. ASSUME NEW e \in End, EndNext(e) PROVE TypeOK'
  <2>0. /\ UNCHANGED <<transport, whole, timely, infoLen>>
        /\ Other(e) \in End /\ Len(Script) \in Nat /\ Len(Script) >= 1
        /\ <<>> \in Seq(1..Len(Script))
    BY <1>2, OthersKeep, Constants, EmptySeq
  <2> DEFINE Rest == /\ stream' \in [End -> Seq(1..Len(Script))]
                     /\ got' \in [End -> Seq(1..Len(Script))] /\ broken' \in BOOLEAN
             Places == /\ round' \in [End -> 1..Len(Script) + 1]
                       /\ pc' \in [End -> {"send", "recv", "parse", "ended", "failed"}]
                       /\ \A x \in End : pc'[x] = "ended" <=> round'[x] = Len(Script) + 1
  <2>1. CASE Send(e)
    <3>1. Message(e, round[e]) \in Seq(1..Len(Script))
      BY <2>1, SendEffect, MessageFacts DEF Byte
    <3>2. stream[Other(e)] \o Message(e, round[e]) \in Seq(1..Len(Script))
      BY <2>0, <3>1, ConcatProperties DEF TypeOK
    <3>3. Rest
      BY <2>0, <2>1, <3>2 DEF Send, TypeOK
    <3>4. Places
      BY <2>1 DEF Send, TypeOK
    <3> QED BY <2>0, <3>3, <3>4 DEF TypeOK
  <2>2. CASE RecvBytes(e)
    <3>1. Rest
      BY <2>2, TakesType DEF RecvBytes, TypeOK
    <3>2. Places
      BY <2>2 DEF RecvBytes, TypeOK
    <3> QED BY <2>0, <3>1, <3>2 DEF TypeOK
  <2>3. CASE RecvMessage(e)
    <3> DEFINE n == OwnLength(Other(e), Head(stream[e]))
    <3>1. n \in 1..Len(stream[e])
      <4>1. pc[e] = "recv" /\ stream[e] # <<>> /\ Separate(e) /\ Separate(Other(e))
        BY <2>0, <2>3 DEF RecvMessage, InOrder
      <4> QED BY <4>1, Waiting
    <3> HIDE DEF n
    <3>2. Takes(e, n) => stream' \in [End -> Seq(1..Len(Script))] /\ got' \in [End -> Seq(1..Len(Script))]
      BY <3>1, TakesType
    <3>3. Rest
      BY <2>0, <2>3, <3>2 DEF RecvMessage, TypeOK, n
    <3>4. Places
      BY <2>3 DEF RecvMessage, TypeOK
    <3> QED BY <2>0, <3>3, <3>4 DEF TypeOK
  <2>4. CASE RecvNothing(e)
    BY <2>0, <2>4 DEF RecvNothing, TypeOK
  <2>5. CASE Parse(e)
    <3>1. round[e] \in 1..Len(Script)
      BY <2>5, ParseEffect DEF Byte
    <3>2. Rest
      BY <2>5 DEF Parse, TypeOK
    <3>3. Places
      <4>1. PICK N \in Nat : N = Len(Script)
        BY <2>0
      <4>2. PICK r \in 1..N : r = round[e]
        BY <3>1, <4>1
      <4>3. r + 1 \in 1..N + 1 /\ r \in 1..N + 1 /\ (r + 1 = N + 1 <=> r = N) /\ r # N + 1
        BY <4>1
      <4>4. CASE pc' = [pc EXCEPT ![e] = IF r = N THEN "ended" ELSE "send"]
                 /\ round' = [round EXCEPT ![e] = r + 1]
        BY <4>1, <4>2, <4>3, <4>4 DEF TypeOK
      <4>5. CASE pc' = [pc EXCEPT ![e] = "failed"] /\ round' = round
        BY <4>1, <4>2, <4>3, <4>5 DEF TypeOK
      <4> QED BY <2>5, <4>1, <4>2, <4>4, <4>5 DEF Parse
    <3> QED BY <2>0, <3>2, <3>3 DEF TypeOK
  <2> QED BY <1>2, <2>1, <2>2, <2>3, <2>4, <2>5 DEF EndNext
<1> QED BY <1>1, <1>2 DEF Next

-----------------------------------------------------------------------------
(* The steps of an end while messages are kept apart. *)

\* If the longest message fits, that of the round does.
LEMMA RoundFits ==
  ASSUME TypeOK, Fits, NEW e \in End, round[e] \in Byte
  PROVE  /\ Limit(e) \in Nat /\ OwnLength(Other(e), round[e]) <= Limit(e)
         /\ transport # "SKT" => Limit(e) = OwnLength(e, round[e])
<1> DEFINE k == round[e]
           r == IF transport = "SKT" THEN Reserved ELSE 0
<1>1. /\ infoLen[Other(e)] \in Nat /\ infoLen[e] \in Nat /\ r \in Nat /\ Reserved \in Nat
      /\ infoLen[Other(e)] <= infoLen[e] + r
  BY Constants DEF Fits, TypeOK
<1>2. Limit(e) = OwnLength(e, k) + r
  BY DEF Limit
<1>3. CASE Script[k] = "word"
  BY <1>1, <1>2, <1>3 DEF OwnLength
<1>4. CASE Script[k] # "word"
  BY <1>1, <1>2, <1>4 DEF OwnLength
<1> QED BY <1>3, <1>4

\* What the antecedent of InOrder says of a step.
Kind == (transport = "CM" /\ ~ broken /\ ~ broken') \/ (transport = "SKT" /\ Kept /\ timely)

LEMMA PendingKept ==
  ASSUME NEW e, SentBy(Other(e))' = SentBy(Other(e)), ReadBy(e)' = ReadBy(e),
         \A x, k : Message(x, k)' = Message(x, k)
  PROVE  Pending(e)' = Pending(e)
BY DEF Pending

LEMMA SendSeparate ==
  ASSUME TypeOK, NEW e \in End, EndNext(e), Send(e), \A x \in End : Separate(x)
  PROVE  \A x \in End : Separate(x)'
<1> DEFINE o == Other(e)
<1>0. /\ o \in End /\ Other(o) = e /\ (\A x \in End : x = e \/ x = o)
      /\ Separate(e) /\ Separate(o)
  BY Constants
<1>1. Separate(e)'
  <2>1. Pending(e)' = Pending(e)
    BY OthersKeep, SendEffect, PendingKept
  <2>2. ReadBy(e)' <= SentBy(o)' /\ (transport' = "SKT" => round'[o] <= ReadBy(e)' + 1)
    BY <1>0, OthersKeep, SendEffect DEF Separate
  <2> QED BY <1>0, <2>1, <2>2, SendEffect DEF Separate
<1>2. Separate(o)'
  <2>1. PICK r \in Nat : r = round[e] /\ r >= 1
    BY RoundFacts
  <2>2. PICK d \in Nat : d = ReadBy(o)
    BY <1>0, RoundFacts
  <2>3. /\ SentBy(e) = r - 1 /\ SentBy(e)' = r /\ ReadBy(e) = r - 1 /\ ReadBy(o)' = d
        /\ stream'[o] = stream[o] \o Message(e, r)
    BY <2>1, <2>2, SendEffect, OthersKeep
  <2>4. d <= r - 1 /\ (r - 1 = d \/ r - 1 = d + 1)
    <3>1. d <= SentBy(e) /\ ReadBy(e) <= SentBy(o)
      BY <1>0, <2>2 DEF Separate
    <3>2. SentBy(o) \in Nat /\ (SentBy(o) = d \/ SentBy(o) = d + 1)
      BY <1>0, <2>2, RoundFacts
    <3> QED BY <2>3, <3>1, <3>2
  <2>5. Message(e, r) \in Seq(Byte)
    BY <2>1, SendEffect, MessageFacts
  <2>6. stream'[o] = Pending(o)'
    <3>1. CASE r - 1 = d
      <4>1. stream[o] = <<>>
        BY <1>0, <2>2, <2>3, <3>1 DEF Separate, Pending
      <4>2. stream'[o] = Message(e, r)
        BY <2>3, <2>5, <4>1, ConcatEmptySeq
      <4>3. r # d /\ r = d + 1
        BY <3>1
      <4>4. Message(e, r)' = Message(e, r)
        BY OthersKeep
      <4>5. Pending(o)' = Message(e, r)'
        BY <1>0, <2>3, <4>3 DEF Pending
      <4> QED BY <4>2, <4>4, <4>5
    <3>2. CASE r - 1 = d + 1
      <4>1. r - 1 # d /\ d + 1 = r - 1 /\ (d + 1) + 1 = r /\ r # d /\ r # d + 1
        BY <3>2
      <4>2. stream[o] = Message(e, r - 1)
        BY <1>0, <2>2, <2>3, <4>1 DEF Separate, Pending
      <4>3. Message(e, r)' = Message(e, r) /\ Message(e, r - 1)' = Message(e, r - 1)
        BY OthersKeep
      <4>4. Pending(o)' = Message(e, d + 1)' \o Message(e, (d + 1) + 1)'
        BY <1>0, <2>3, <4>1 DEF Pending
      <4>5. Message(e, d + 1)' = Message(e, r - 1) /\ Message(e, (d + 1) + 1)' = Message(e, r)
        BY <4>1, <4>3
      <4> QED BY <2>3, <4>2, <4>4, <4>5
    <3> QED BY <2>4, <3>1, <3>2
  <2>7. ReadBy(o)' <= SentBy(e)'
    BY <2>3, <2>4
  <2>8. /\ transport' = "SKT" => round'[e] <= ReadBy(o)' + 1
        /\ pc'[o] # "failed"
        /\ pc'[o] = "parse" => got'[o] = Message(e, round[o])'
    <3>1. /\ transport' = transport /\ round'[e] = round[e] /\ ReadBy(o)' = ReadBy(o)
          /\ pc'[o] = pc[o] /\ round'[o] = round[o] /\ got' = got
      BY OthersKeep, SendEffect
    <3>2. /\ transport = "SKT" => round[e] <= ReadBy(o) + 1
          /\ pc[o] # "failed"
          /\ pc[o] = "parse" => got[o] = Message(e, round[o])
      BY <1>0 DEF Separate
    <3>3. Message(e, round[o])' = Message(e, round[o])
      <4>1. PICK q : q = round[o]
        OBVIOUS
      <4>2. Message(e, q)' = Message(e, q)
        BY OthersKeep
      <4>3. round'[o] = q
        BY <3>1, <4>1
      <4> QED BY <4>1, <4>2, <4>3
    <3> QED BY <3>1, <3>2, <3>3
  <2> QED BY <1>0, <2>6, <2>7, <2>8 DEF Separate
<1> QED BY <1>0, <1>1, <1>2

\* A receive that returns, returns one message.
LEMMA RecvOne ==
  ASSUME TypeOK, NEW e \in End, RecvBytes(e) \/ RecvMessage(e) \/ RecvNothing(e), Kind,
         \A x \in End : Separate(x)
  PROVE  stream[e] # <<>> /\ Takes(e, Len(Message(Other(e), round[e])))
<1> DEFINE o == Other(e)
           m == Message(o, round[e])
           s == stream[e]
<1>0. /\ o \in End /\ Other(o) = e /\ Separate(e) /\ Separate(o) /\ round[e] \in Byte
      /\ pc[e] = "recv" /\ ReadBy(e) = round[e] - 1 /\ round[e] \in Nat
  BY Constants, RecvEffect, RoundFacts
<1>1. CASE RecvBytes(e)
  <2>1. Fits /\ whole /\ transport = "SKT"
    BY <1>1 DEF Kind, Kept, RecvBytes
  <2>2. PICK n \in 1..Len(s) : Piece(s, n, Limit(e)) /\ Takes(e, n)
    BY <1>1 DEF RecvBytes
  <2>3. s # <<>>
    BY <2>2
  <2>4. s = m
    <3>1. \/ s = m
          \/ transport # "SKT"
      BY <1>0, <2>3, Waiting
    <3> QED BY <2>1, <3>1
  <2>5. PICK L \in Nat : L = OwnLength(o, round[e])
    BY <1>0, MessageFacts
  <2>6. Len(s) = L /\ \A i \in 1..L : s[i] = round[e]
    BY <1>0, <2>4, <2>5, MessageFacts
  <2>7. Limit(e) \in Nat /\ L <= Limit(e)
    BY <1>0, <2>1, <2>5, RoundFits
  <2>8. n = L
    <3>1. ASSUME n # L PROVE FALSE
      <4>1. n < L /\ n < Limit(e) /\ n \in 1..L /\ n + 1 \in 1..L
        BY <2>2, <2>6, <2>7, <3>1
      <4>2. s[n] # s[n + 1]
        BY <2>1, <2>2, <2>6, <4>1 DEF Piece
      <4> QED BY <2>6, <4>1, <4>2
    <3> QED BY <3>1
  <2> QED BY <2>2, <2>3, <2>4, <2>6, <2>8
<1>2. CASE RecvMessage(e)
  <2>1. s # <<>> /\ transport = "CM" /\ ~ broken'
    BY <1>2 DEF RecvMessage, Kind
  <2>2. Head(s) = round[e] /\ Len(m) = OwnLength(o, round[e])
    BY <1>0, <2>1, Waiting
  <2>3. Takes(e, OwnLength(o, Head(s)))
    BY <1>2, <2>1 DEF RecvMessage
  <2> QED BY <2>1, <2>2, <2>3
<1>3. CASE RecvNothing(e)
  <2>1. transport = "SKT" /\ (pc[o] = "ended" \/ pc[o] = "failed")
    BY <1>3 DEF RecvNothing, Kind
  <2>2. pc[o] = "ended" /\ round[o] <= (round[e] - 1) + 1
    BY <1>0, <2>1 DEF Separate
  <2>3. round[o] = Len(Script) + 1 /\ round[e] <= Len(Script) /\ Len(Script) \in Nat
    BY <1>0, <2>2, Constants DEF TypeOK, Byte
  <2> QED BY <1>0, <2>2, <2>3
<1> QED BY <1>1, <1>2, <1>3

LEMMA RecvSeparate ==
  ASSUME TypeOK, NEW e \in End, EndNext(e), RecvBytes(e) \/ RecvMessage(e) \/ RecvNothing(e), Kind,
         \A x \in End : Separate(x)
  PROVE  \A x \in End : Separate(x)'
<1> DEFINE o == Other(e)
<1>0. /\ o \in End /\ Other(o) = e /\ (\A x \in End : x = e \/ x = o)
      /\ Separate(e) /\ Separate(o)
  BY Constants
<1>1. PICK r \in Nat : r = round[e] /\ r >= 1
  BY RoundFacts
<1>2. PICK m : m = Message(o, r)
  OBVIOUS
<1>3. PICK s : s = stream[e]
  OBVIOUS
<1>4. s # <<>> /\ Takes(e, Len(m)) /\ pc[e] = "recv"
  BY <1>1, <1>2, <1>3, RecvOne, RecvEffect
<1>5. got'[e] = SubSeq(s, 1, Len(m)) /\ stream'[e] = SubSeq(s, Len(m) + 1, Len(s))
  BY <1>3, <1>4 DEF Takes, TypeOK
<1>6. /\ SubSeq(s, 1, Len(m)) = m
      /\ \/ SentBy(o) = r /\ SubSeq(s, Len(m) + 1, Len(s)) = <<>>
         \/ SentBy(o) = r + 1 /\ SubSeq(s, Len(m) + 1, Len(s)) = Message(o, r + 1)
  BY <1>0, <1>1, <1>2, <1>3, <1>4, Waiting
<1>7. /\ ReadBy(e)' = r /\ SentBy(o)' = SentBy(o) /\ SentBy(e)' = SentBy(e)
      /\ ReadBy(o)' = ReadBy(o) /\ ReadBy(e) = r - 1 /\ round'[e] = r /\ round'[o] = round[o]
      /\ stream'[o] = stream[o] /\ got'[o] = got[o] /\ pc'[o] = pc[o] /\ pc'[e] = "parse"
      /\ transport' = transport /\ \A x, k : Message(x, k)' = Message(x, k)
  BY <1>0, <1>1, RecvEffect, OthersKeep
<1>8. Separate(e)'
  <2>1. stream'[e] = Pending(e)'
    <3>1. CASE SentBy(o) = r /\ stream'[e] = <<>>
      BY <1>7, <3>1 DEF Pending
    <3>2. CASE SentBy(o) = r + 1 /\ stream'[e] = Message(o, r + 1)
      <4>1. r + 1 # r
        OBVIOUS
      <4>2. Pending(e)' = Message(o, r + 1)'
        BY <1>7, <3>2, <4>1 DEF Pending
      <4>3. Message(o, r + 1)' = Message(o, r + 1)
        BY <1>7
      <4> QED BY <3>2, <4>2, <4>3
    <3> QED BY <1>5, <1>6, <3>1, <3>2
  <2>2. got'[e] = Message(o, r)'
    BY <1>2, <1>5, <1>6, <1>7
  <2>3. ReadBy(e)' <= SentBy(o)'
    BY <1>6, <1>7
  <2>4. transport' = "SKT" => round'[o] <= ReadBy(e)' + 1
    <3>1. round[o] \in Nat /\ (transport = "SKT" => round[o] <= (r - 1) + 1)
      BY <1>0, <1>7, RoundFacts DEF Separate
    <3> QED BY <1>7, <3>1
  <2> QED BY <1>7, <2>1, <2>2, <2>3, <2>4 DEF Separate
<1>9. Separate(o)'
  <2>1. Pending(o)' = Pending(o)
    BY <1>0, <1>7, PendingKept
  <2> QED BY <1>0, <1>1, <1>7, <2>1 DEF Separate
<1> QED BY <1>0, <1>8, <1>9

LEMMA ParseSeparate ==
  ASSUME TypeOK, NEW e \in End, EndNext(e), Parse(e), Kind, \A x \in End : Separate(x)
  PROVE  \A x \in End : Separate(x)'
<1> DEFINE o == Other(e)
<1>0. /\ o \in End /\ Other(o) = e /\ (\A x \in End : x = e \/ x = o)
      /\ Separate(e) /\ Separate(o)
  BY Constants
<1>1. PICK r \in Nat : r = round[e] /\ r >= 1
  BY RoundFacts
<1>2. /\ pc[e] = "parse" /\ Awake(e) /\ got[e] = Message(o, r)
      /\ ReadBy(e)' = ReadBy(e) /\ SentBy(e)' = SentBy(e) /\ stream' = stream /\ got' = got
  BY <1>0, <1>1, ParseEffect DEF Separate
<1>3. (pc'[e] = "ended" \/ pc'[e] = "send") /\ round'[e] = r + 1
  BY <1>1, <1>2, ParseEffect
<1>4. /\ SentBy(o)' = SentBy(o) /\ ReadBy(o)' = ReadBy(o) /\ pc'[o] = pc[o] /\ round'[o] = round[o]
      /\ transport' = transport /\ \A x, k : Message(x, k)' = Message(x, k)
  BY OthersKeep
<1>5. Separate(e)'
  <2>1. Pending(e)' = Pending(e)
    BY <1>2, <1>4, PendingKept
  <2> QED BY <1>0, <1>2, <1>3, <1>4, <2>1 DEF Separate
<1>6. Separate(o)'
  <2>1. Pending(o)' = Pending(o)
    BY <1>0, <1>2, <1>4, PendingKept
  <2>2. transport = "SKT" => r + 1 <= ReadBy(o) + 1
    <3> SUFFICES ASSUME transport = "SKT" PROVE r + 1 <= ReadBy(o) + 1
      OBVIOUS
    <3>1. HasRead(o, r) /\ pc[o] # "failed"
      BY <1>0, <1>1, <1>2 DEF Awake, Kind, Separate
    <3>2. PICK q \in Nat : q = round[o]
      BY <1>0, RoundFacts
    <3>3. PICK d \in Nat : d = ReadBy(o)
      BY <1>0, RoundFacts
    <3>4. CASE q > r
      <4>1. d >= q - 1
        BY <1>0, <3>2, <3>3 DEF ReadBy
      <4> QED BY <3>3, <3>4, <4>1
    <3>5. CASE q = r /\ pc[o] # "recv" /\ pc[o] # "send"
      <4>1. pc[o] = "parse" \/ pc[o] = "ended"
        BY <1>0, <3>1, <3>5 DEF TypeOK
      <4>2. pc[o] # "ended"
        <5>1. r <= Len(Script) /\ Len(Script) \in Nat
          BY <1>1, ParseEffect, Constants DEF Byte
        <5>2. pc[o] = "ended" => q = Len(Script) + 1
          BY <1>0, <3>2 DEF TypeOK
        <5> QED BY <3>5, <5>1, <5>2
      <4>3. d = r
        BY <3>2, <3>3, <3>5, <4>1, <4>2 DEF ReadBy
      <4> QED BY <3>3, <4>3
    <3> QED BY <3>1, <3>2, <3>4, <3>5 DEF HasRead
  <2> QED BY <1>0, <1>2, <1>3, <1>4, <2>1, <2>2 DEF Separate
<1> QED BY <1>0, <1>5, <1>6

LEMMA InOrderStep ==
  ASSUME TypeOK, InOrder, [Next]_vars
  PROVE  InOrder'
<1>1. CASE UNCHANGED vars
  <2>1. /\ UNCHANGED <<transport, whole, timely, infoLen, round, pc, stream, got, broken>>
    BY <1>1 DEF vars, runVars
  <2>2. (Kept' <=> Kept) /\ \A x, k : Message(x, k)' = Message(x, k)
    BY <2>1 DEF Kept, Fits, OwnLength, Message
  <2>3. \A x : SentBy(x)' = SentBy(x) /\ ReadBy(x)' = ReadBy(x)
    BY <2>1 DEF SentBy, ReadBy
  <2>4. \A x : Pending(x)' = Pending(x)
    BY <2>2, <2>3 DEF Pending
  <2>5. \A x \in End : Separate(x) => Separate(x)'
    BY <2>1, <2>2, <2>3, <2>4 DEF Separate
  <2> QED BY <2>1, <2>2, <2>5 DEF InOrder
<1>2. ASSUME NEW e \in End, EndNext(e) PROVE InOrder'
  <2>1. UNCHANGED <<transport, whole, timely, infoLen>> /\ (Kept' <=> Kept)
    BY <1>2, OthersKeep
  <2>2. ~ broken' => ~ broken
    BY <1>2 DEF EndNext, Send, RecvBytes, RecvMessage, RecvNothing, Parse
  <2> SUFFICES ASSUME (transport = "CM" /\ ~ broken') \/ (transport = "SKT" /\ Kept /\ timely)
               PROVE  \A x \in End : Separate(x)'
    BY <2>1 DEF InOrder
  <2>3. Kind /\ \A x \in End : Separate(x)
    BY <2>2 DEF Kind, InOrder
  <2> QED BY <1>2, <2>3, SendSeparate, RecvSeparate, ParseSeparate DEF EndNext
<1> QED BY <1>1, <1>2 DEF Next

\* A connection breaks only by a message that is too long.
LEMMA UnbrokenStep ==
  ASSUME TypeOK, InOrder, Unbroken, [Next]_vars
  PROVE  Unbroken'
<1>1. CASE UNCHANGED vars
  BY <1>1 DEF vars, runVars, Unbroken, Kept, Fits
<1>2. ASSUME NEW e \in End, EndNext(e) PROVE Unbroken'
  <2>1. UNCHANGED <<transport, whole, timely, infoLen>> /\ (Kept' <=> Kept)
    BY <1>2, OthersKeep
  <2>2. CASE ~ RecvMessage(e)
    <3>1. broken' = broken
      BY <1>2, <2>2 DEF EndNext, Send, RecvBytes, RecvNothing, Parse
    <3> QED BY <2>1, <3>1 DEF Unbroken
  <2>3. CASE RecvMessage(e) /\ Kept
    <3>1. transport = "CM" /\ ~ broken /\ Fits /\ stream[e] # <<>> /\ pc[e] = "recv"
      BY <2>3 DEF RecvMessage, Kept
    <3>2. Separate(e) /\ Separate(Other(e))
      BY <3>1, Constants DEF InOrder
    <3>3. round[e] \in Byte /\ Head(stream[e]) = round[e]
      BY <3>1, <3>2, Waiting
    <3>4. OwnLength(Other(e), Head(stream[e])) <= Limit(e)
      BY <3>1, <3>3, RoundFits
    <3> QED BY <2>3, <3>1, <3>4 DEF RecvMessage, Unbroken
  <2>4. CASE RecvMessage(e) /\ ~ Kept
    BY <2>1, <2>4 DEF RecvMessage, Unbroken
  <2> QED BY <2>2, <2>3, <2>4
<1> QED BY <1>1, <1>2 DEF Next

-----------------------------------------------------------------------------
(* The stream of SKT without the sleep. *)

\* A stream whose bytes are of rounds after d and up to b, those of a round together.
Rising(s, d, b, o) ==
  /\ \A i \in 1..Len(s) : d < s[i] /\ s[i] <= b
  /\ \A i, j \in 1..Len(s) : i <= j =>
       s[i] <= s[j] /\ (s[i] = s[j] => j < i + OwnLength(o, s[i]))

LEMMA AscendingRising ==
  ASSUME NEW e
  PROVE  Ascending(e) <=> /\ Rising(stream[e], ReadBy(e), SentBy(Other(e)), Other(e))
                          /\ pc[Other(e)] # "failed" => ReadBy(e) <= SentBy(Other(e))
BY DEF Ascending, Rising

LEMMA AscendingNext ==
  ASSUME NEW e, NEW s, NEW d, NEW b, NEW p,
         stream'[e] = s, ReadBy(e)' = d, SentBy(Other(e))' = b, pc'[Other(e)] = p,
         \A x, k : OwnLength(x, k)' = OwnLength(x, k),
         Rising(s, d, b, Other(e)), p # "failed" => d <= b
  PROVE  Ascending(e)'
BY DEF Ascending, Rising

LEMMA RisingSend ==
  ASSUME TypeOK, NEW o \in End, NEW s \in Seq(Byte), NEW d \in Nat, NEW b \in Nat, b + 1 \in Byte,
         d <= b, Rising(s, d, b, o)
  PROVE  Rising(s \o Message(o, b + 1), d, b + 1, o)
<1>1. PICK t : t = Message(o, b + 1)
  OBVIOUS
<1>2. PICK m \in Nat : m = OwnLength(o, b + 1)
  BY MessageFacts
<1>3. t \in Seq(Byte) /\ Len(t) = m /\ \A i \in 1..m : t[i] = b + 1
  BY <1>1, <1>2, MessageFacts
<1>4. PICK n \in Nat : n = Len(s)
  BY LenProperties
<1>5. PICK u : u = s \o t
  OBVIOUS
<1>6. Len(u) = n + m /\ \A i \in 1..n + m : u[i] = IF i <= n THEN s[i] ELSE t[i - n]
  BY <1>3, <1>4, <1>5, ConcatProperties
<1>7. \A i \in 1..n : u[i] = s[i] /\ u[i] \in Nat /\ d < u[i] /\ u[i] <= b
  <2> SUFFICES ASSUME NEW i \in 1..n PROVE u[i] = s[i] /\ u[i] \in Nat /\ d < u[i] /\ u[i] <= b
    OBVIOUS
  <2>1. i \in 1..n + m /\ i <= n
    OBVIOUS
  <2>2. u[i] = s[i]
    BY <1>6, <2>1
  <2>3. s[i] \in Byte
    BY <1>4, ElementOfSeq
  <2> QED BY <1>4, <2>2, <2>3 DEF Rising, Byte
<1>8. \A i \in 1..n + m : ~ (i <= n) => u[i] = b + 1
  <2> SUFFICES ASSUME NEW i \in 1..n + m, ~ (i <= n) PROVE u[i] = b + 1
    OBVIOUS
  <2>1. i - n \in 1..m
    OBVIOUS
  <2> QED BY <1>3, <1>6, <2>1
<1>9. \A i \in 1..Len(u) : d < u[i] /\ u[i] <= b + 1
  <2> SUFFICES ASSUME NEW i \in 1..n + m PROVE d < u[i] /\ u[i] <= b + 1
    BY <1>6
  <2>1. CASE i <= n
    <3>1. i \in 1..n
      BY <2>1
    <3> QED BY <1>7, <3>1
  <2>2. CASE ~ (i <= n)
    BY <1>8, <2>2
  <2> QED BY <2>1, <2>2
<1>10. ASSUME NEW i \in 1..Len(u), NEW j \in 1..Len(u), i <= j
       PROVE  u[i] <= u[j] /\ (u[i] = u[j] => j < i + OwnLength(o, u[i]))
  <2>1. i \in 1..n + m /\ j \in 1..n + m
    BY <1>6
  <2>2. CASE j <= n
    <3>1. i \in 1..n /\ j \in 1..n
      BY <1>10, <2>1, <2>2
    <3>2. s[i] <= s[j] /\ (s[i] = s[j] => j < i + OwnLength(o, s[i]))
      BY <1>4, <1>10, <3>1 DEF Rising
    <3> QED BY <1>7, <3>1, <3>2
  <2>3. CASE i <= n /\ ~ (j <= n)
    <3>1. i \in 1..n
      BY <2>1, <2>3
    <3>2. u[i] \in Nat /\ u[i] <= b /\ u[j] = b + 1
      BY <1>7, <1>8, <2>1, <2>3, <3>1
    <3> QED BY <3>2
  <2>4. CASE ~ (i <= n)
    <3>1. u[i] = b + 1 /\ u[j] = b + 1
      BY <1>8, <1>10, <2>1, <2>4
    <3>2. j < i + m
      BY <2>1, <2>4
    <3> QED BY <1>2, <3>1, <3>2
  <2> QED BY <1>10, <2>2, <2>3, <2>4
<1> QED BY <1>1, <1>5, <1>9, <1>10 DEF Rising

\* What is left of a stream when all bytes of the earliest round have been taken.
LEMMA RisingTake ==
  ASSUME TypeOK, NEW o \in End, NEW s \in Seq(Byte), NEW d \in Nat, NEW b \in Nat,
         NEW n \in 1..Len(s), Rising(s, d, b, o), \A i \in 1..(Len(s) - n) : s[n + i] # d + 1
  PROVE  Rising(SubSeq(s, n + 1, Len(s)), d + 1, b, o)
<1>1. PICK u : u = SubSeq(s, n + 1, Len(s))
  OBVIOUS
<1>2. PICK m \in Nat : m = Len(s) - n
  BY LenProperties
<1>3. Len(s) \in Nat /\ n \in Nat /\ Len(u) = m /\ \A i \in 1..m : u[i] = s[n + i]
  BY <1>1, <1>2, SplitFacts, LenProperties
<1>4. \A i \in 1..m : n + i \in 1..Len(s)
  BY <1>2, <1>3
<1>5. \A i \in 1..m : d + 1 < u[i] /\ u[i] <= b
  <2> SUFFICES ASSUME NEW i \in 1..m PROVE d + 1 < u[i] /\ u[i] <= b
    OBVIOUS
  <2>1. PICK q \in 1..Len(s) : q = n + i
    BY <1>4
  <2>2. s[q] \in Byte /\ d < s[q] /\ s[q] <= b /\ s[q] # d + 1
    BY <1>2, <2>1, ElementOfSeq DEF Rising
  <2>3. u[i] = s[q]
    BY <1>3, <2>1
  <2> QED BY <2>2, <2>3 DEF Byte
<1>6. ASSUME NEW i \in 1..m, NEW j \in 1..m, i <= j
      PROVE  u[i] <= u[j] /\ (u[i] = u[j] => j < i + OwnLength(o, u[i]))
  <2>1. PICK q \in 1..Len(s) : q = n + i
    BY <1>4
  <2>2. PICK k \in 1..Len(s) : k = n + j
    BY <1>4
  <2>3. q <= k /\ u[i] = s[q] /\ u[j] = s[k]
    BY <1>3, <1>6, <2>1, <2>2
  <2>4. s[q] <= s[k] /\ (s[q] = s[k] => k < q + OwnLength(o, s[q]))
    BY <2>3 DEF Rising
  <2>5. PICK l \in Nat : l = OwnLength(o, s[q])
    BY ElementOfSeq, MessageFacts
  <2>6. k < q + l => j < i + l
    BY <1>3, <2>1, <2>2
  <2> QED BY <2>3, <2>4, <2>5, <2>6
<1> QED BY <1>1, <1>3, <1>5, <1>6 DEF Rising

\* A receive that takes some of a stream, takes all of its earliest round.
LEMMA PieceTakes ==
  ASSUME TypeOK, Fits, whole, NEW e \in End, pc[e] = "recv", NEW s \in Seq(Byte), NEW b \in Nat,
         Rising(s, round[e] - 1, b, Other(e)), NEW n \in 1..Len(s), Piece(s, n, Limit(e))
  PROVE  /\ round[e] <= b
         /\ \A i \in 1..(Len(s) - n) : s[n + i] # round[e]
<1>1. PICK r \in Nat : r = round[e] /\ r \in Byte
  BY RoundFacts
<1>2. PICK l \in Nat : l = OwnLength(Other(e), r)
  BY <1>1, MessageFacts, Constants
<1>3. Limit(e) \in Nat /\ l <= Limit(e)
  BY <1>1, <1>2, RoundFits
<1>4. Len(s) \in Nat /\ n \in Nat /\ 1 \in 1..Len(s) /\ \A i \in 1..Len(s) : s[i] \in Nat
  BY LenProperties, ElementOfSeq DEF Byte
<1>5. s[1] >= r /\ s[1] <= b
  BY <1>1, <1>4 DEF Rising
<1>6. ASSUME NEW i \in 1..(Len(s) - n), s[n + i] = r PROVE FALSE
  <2>1. PICK j \in 1..Len(s) : j = n + i
    BY <1>4
  <2>2. n + 1 \in 1..Len(s) /\ 1 <= n /\ n <= n + 1 /\ n + 1 <= j /\ 1 <= j
    BY <1>4, <2>1
  <2>3. s[1] <= s[n] /\ s[n] <= s[n + 1] /\ s[n + 1] <= s[j] /\ s[j] = r
    BY <1>4, <1>6, <2>1, <2>2 DEF Rising
  <2>4. s[1] = r /\ s[n] = r /\ s[n + 1] = r
    BY <1>1, <1>4, <1>5, <2>2, <2>3
  <2>5. j < 1 + l
    BY <1>2, <1>4, <2>2, <2>3, <2>4 DEF Rising
  <2>6. n < Limit(e) /\ n < Len(s)
    BY <1>3, <1>4, <2>1, <2>2, <2>5
  <2> QED BY <2>4, <2>6 DEF Piece
<1> QED BY <1>1, <1>4, <1>5, <1>6

LEMMA SendAscending ==
  ASSUME TypeOK, NEW e \in End, EndNext(e), Send(e), \A x \in End : Ascending(x)
  PROVE  \A x \in End : Ascending(x)'
<1> DEFINE o == Other(e)
<1>0. o \in End /\ Other(o) = e /\ \A x \in End : x = e \/ x = o
  BY Constants
<1>1. /\ pc'[o] = pc[o] /\ SentBy(o)' = SentBy(o) /\ ReadBy(o)' = ReadBy(o) /\ ReadBy(e)' = ReadBy(e)
      /\ stream'[e] = stream[e] /\ stream'[o] = stream[o] \o Message(e, round[e])
      /\ SentBy(e) = round[e] - 1 /\ SentBy(e)' = round[e] /\ round[e] \in Byte
      /\ \A x, k : OwnLength(x, k)' = OwnLength(x, k)
  BY OthersKeep, SendEffect
<1>2. Ascending(e)'
  <2>1. PICK s : s = stream[e]
    OBVIOUS
  <2>2. PICK d : d = ReadBy(e)
    OBVIOUS
  <2>3. PICK b : b = SentBy(o)
    OBVIOUS
  <2>4. PICK p : p = pc[o]
    OBVIOUS
  <2>5. Rising(s, d, b, o) /\ (p # "failed" => d <= b)
    BY <2>1, <2>2, <2>3, <2>4, AscendingRising
  <2> QED BY <1>1, <2>1, <2>2, <2>3, <2>4, <2>5, AscendingNext
<1>3. Ascending(o)'
  <2>1. PICK s \in Seq(Byte) : s = stream[o]
    BY <1>0 DEF TypeOK, Byte
  <2>2. PICK d \in Nat : d = ReadBy(o)
    BY <1>0, RoundFacts
  <2>3. PICK b \in Nat : b = SentBy(e)
    BY RoundFacts
  <2>4. pc[e] # "failed"
    BY DEF Send
  <2>5. Rising(s, d, b, e) /\ d <= b
    BY <1>0, <2>1, <2>2, <2>3, <2>4, AscendingRising
  <2>6. round[e] = b + 1 /\ b + 1 \in Byte
    BY <1>1, <2>3 DEF Byte
  <2>7. Rising(s \o Message(e, b + 1), d, b + 1, e)
    BY <2>5, <2>6, RisingSend
  <2>8. PICK u : u = s \o Message(e, b + 1)
    OBVIOUS
  <2>9. Rising(u, d, b + 1, e) /\ stream'[o] = u /\ SentBy(e)' = b + 1 /\ d <= b + 1
    BY <1>1, <2>1, <2>5, <2>6, <2>7, <2>8
  <2> QED BY <1>0, <1>1, <2>2, <2>9, AscendingNext
<1> QED BY <1>0, <1>2, <1>3

LEMMA RecvAscending ==
  ASSUME TypeOK, NEW e \in End, EndNext(e), RecvBytes(e) \/ RecvNothing(e),
         transport = "SKT", Kept, \A x \in End : Ascending(x)
  PROVE  \A x \in End : Ascending(x)'
<1> DEFINE o == Other(e)
<1>0. o \in End /\ Other(o) = e /\ \A x \in End : x = e \/ x = o
  BY Constants
<1>1. /\ pc'[o] = pc[o] /\ SentBy(o)' = SentBy(o) /\ ReadBy(o)' = ReadBy(o) /\ SentBy(e)' = SentBy(e)
      /\ stream'[o] = stream[o] /\ ReadBy(e) = round[e] - 1 /\ ReadBy(e)' = round[e]
      /\ pc[e] = "recv" /\ pc'[e] = "parse"
      /\ \A x, k : OwnLength(x, k)' = OwnLength(x, k)
  BY OthersKeep, RecvEffect
<1>2. PICK d \in Nat : d = round[e] - 1 /\ round[e] = d + 1
  BY RoundFacts
<1>3. PICK b \in Nat : b = SentBy(o)
  BY <1>0, RoundFacts
<1>4. PICK s \in Seq(Byte) : s = stream[e]
  BY DEF TypeOK, Byte
<1>5. Rising(s, d, b, o)
  BY <1>1, <1>2, <1>3, <1>4, AscendingRising
<1>6. Ascending(e)'
  <2>1. CASE RecvBytes(e)
    <3>1. PICK n \in 1..Len(s) : Piece(s, n, Limit(e)) /\ Takes(e, n)
      BY <1>4, <2>1 DEF RecvBytes
    <3>2. Fits /\ whole
      BY DEF Kept
    <3>3. d + 1 <= b /\ \A i \in 1..(Len(s) - n) : s[n + i] # d + 1
      BY <1>1, <1>2, <1>5, <3>1, <3>2, PieceTakes
    <3>4. PICK u : u = SubSeq(s, n + 1, Len(s))
      OBVIOUS
    <3>5. Rising(u, d + 1, b, o)
      BY <1>0, <1>5, <3>3, <3>4, RisingTake
    <3>6. stream'[e] = u
      BY <1>4, <3>1, <3>4 DEF Takes, TypeOK
    <3>7. PICK p : p = pc[o]
      OBVIOUS
    <3> QED BY <1>1, <1>2, <1>3, <3>3, <3>5, <3>6, <3>7, AscendingNext
  <2>2. CASE RecvNothing(e)
    <3>1. s = <<>> /\ stream' = stream /\ pc[o] \in {"ended", "failed"}
      BY <1>4, <2>2 DEF RecvNothing
    <3>2. Rising(s, d + 1, b, o)
      <4>1. Len(s) = 0
        BY <3>1, EmptySeq
      <4>2. 1..Len(s) = {}
        BY <4>1
      <4> QED BY <4>2 DEF Rising
    <3>3. pc[o] # "failed" => d + 1 <= b
      <4>1. pc[o] = "ended" => b = Len(Script)
        BY <1>0, <1>3, RoundFacts
      <4>2. d + 1 \in Byte
        BY <1>1, <1>2, RoundFacts
      <4> QED BY <3>1, <4>1, <4>2, Constants DEF Byte
    <3>4. PICK p : p = pc[o]
      OBVIOUS
    <3>5. stream'[e] = s
      BY <1>4, <3>1
    <3> QED BY <1>1, <1>2, <1>3, <3>2, <3>3, <3>4, <3>5, AscendingNext
  <2> QED BY <2>1, <2>2
<1>7. Ascending(o)'
  <2>1. PICK t : t = stream[o]
    OBVIOUS
  <2>2. PICK c : c = ReadBy(o)
    OBVIOUS
  <2>3. PICK a : a = SentBy(e)
    OBVIOUS
  <2>4. Rising(t, c, a, e) /\ c <= a
    BY <1>0, <1>1, <2>1, <2>2, <2>3, AscendingRising
  <2> QED BY <1>0, <1>1, <2>1, <2>2, <2>3, <2>4, AscendingNext
<1> QED BY <1>0, <1>6, <1>7

LEMMA ParseAscending ==
  ASSUME TypeOK, NEW e \in End, EndNext(e), Parse(e), \A x \in End : Ascending(x)
  PROVE  \A x \in End : Ascending(x)'
<1> DEFINE o == Other(e)
<1>0. o \in End /\ Other(o) = e /\ \A x \in End : x = e \/ x = o
  BY Constants
<1>1. /\ pc'[o] = pc[o] /\ SentBy(o)' = SentBy(o) /\ ReadBy(o)' = ReadBy(o)
      /\ SentBy(e)' = SentBy(e) /\ ReadBy(e)' = ReadBy(e) /\ stream' = stream
      /\ pc[e] = "parse" /\ \A x, k : OwnLength(x, k)' = OwnLength(x, k)
  BY OthersKeep, ParseEffect
<1>2. ASSUME NEW x \in End PROVE Ascending(x)'
  <2>1. SentBy(Other(x))' = SentBy(Other(x)) /\ ReadBy(x)' = ReadBy(x) /\ stream'[x] = stream[x]
    BY <1>0, <1>1
  <2>2. pc'[Other(x)] # "failed" => pc[Other(x)] # "failed"
    BY <1>0, <1>1
  <2>3. PICK s : s = stream[x]
    OBVIOUS
  <2>4. PICK d : d = ReadBy(x)
    OBVIOUS
  <2>5. PICK b : b = SentBy(Other(x))
    OBVIOUS
  <2>6. PICK p : p = pc'[Other(x)]
    OBVIOUS
  <2>7. Rising(s, d, b, Other(x)) /\ (p # "failed" => d <= b)
    BY <2>2, <2>3, <2>4, <2>5, <2>6, AscendingRising
  <2> QED BY <1>1, <2>1, <2>3, <2>4, <2>5, <2>6, <2>7, AscendingNext
<1> QED BY <1>2

LEMMA InSequenceStep ==
  ASSUME TypeOK, InSequence, [Next]_vars
  PROVE  InSequence'
<1>1. CASE UNCHANGED vars
  <2>1. UNCHANGED <<transport, whole, infoLen, round, pc, stream>>
    BY <1>1 DEF vars, runVars
  <2>2. \A x, k : OwnLength(x, k)' = OwnLength(x, k)
    BY <2>1 DEF OwnLength
  <2>3. \A x : SentBy(x)' = SentBy(x) /\ ReadBy(x)' = ReadBy(x)
    BY <2>1 DEF SentBy, ReadBy
  <2>4. \A x \in End : Ascending(x) => Ascending(x)'
    BY <2>1, <2>2, <2>3 DEF Ascending
  <2> QED BY <2>1, <2>4 DEF InSequence, Kept, Fits
<1>2. ASSUME NEW e \in End, EndNext(e) PROVE InSequence'
  <2>1. transport' = transport /\ (Kept' <=> Kept)
    BY <1>2, OthersKeep
  <2> SUFFICES ASSUME transport = "SKT", Kept PROVE \A x \in End : Ascending(x)'
    BY <2>1 DEF InSequence
  <2>2. ~ RecvMessage(e) /\ \A x \in End : Ascending(x)
    BY DEF RecvMessage, InSequence
  <2> QED BY <1>2, <2>2, SendAscending, RecvAscending, ParseAscending DEF EndNext
<1> QED BY <1>1, <1>2 DEF Next

-----------------------------------------------------------------------------
(* The invariant, and what it says of the library. *)

LEMMA InitIInv == Init => IInv
<1> SUFFICES ASSUME Init PROVE IInv
  OBVIOUS
<1>1. TypeOK
  BY TypeInit
<1>2. Unbroken
  BY DEF Init, Unbroken
<1>3. \A x \in End : SentBy(x) = 0 /\ ReadBy(x) = 0 /\ stream[x] = <<>> /\ pc[x] = "send" /\ round[x] = 1
  BY DEF Init, SentBy, ReadBy
<1>4. \A x \in End : Separate(x) /\ Ascending(x)
  <2> SUFFICES ASSUME NEW x \in End PROVE Separate(x) /\ Ascending(x)
    OBVIOUS
  <2>1. Other(x) \in End
    BY Constants
  <2>2. Separate(x)
    BY <1>3, <2>1 DEF Separate, Pending
  <2>3. Ascending(x)
    <3>1. PICK s : s = stream[x]
      OBVIOUS
    <3>2. Len(s) = 0 /\ 1..Len(s) = {}
      BY <1>3, <3>1, EmptySeq
    <3> QED BY <1>3, <2>1, <3>1, <3>2 DEF Ascending
  <2> QED BY <2>2, <2>3
<1> QED BY <1>1, <1>2, <1>4 DEF IInv, InOrder, InSequence

LEMMA IInvStep == IInv /\ [Next]_vars => IInv'
BY TypeStep, InOrderStep, UnbrokenStep, InSequenceStep DEF IInv

\* An end has read no more messages than the other has sent.
LEMMA ReadWasSent ==
  ASSUME IInv, Kept, NEW e \in End, pc[Other(e)] # "failed"
  PROVE  ReadBy(e) <= SentBy(Other(e))
<1>1. transport = "SKT" \/ transport = "CM"
  BY Constants DEF IInv, TypeOK
<1>2. CASE transport = "SKT"
  BY <1>2, AscendingRising DEF IInv, InSequence
<1>3. CASE transport = "CM"
  BY <1>3 DEF IInv, Unbroken, InOrder, Separate
<1> QED BY <1>1, <1>2, <1>3

LEMMA IInvBarrier == IInv => Barrier
<1> SUFFICES ASSUME IInv, Kept, NEW e \in End, pc[Other(e)] # "failed"
             PROVE  /\ round[Other(e)] >= round[e] - 1
                    /\ round[Other(e)] = round[e] - 1 => pc[Other(e)] # "send"
  BY DEF Barrier
<1>1. TypeOK /\ Other(e) \in End
  BY Constants DEF IInv
<1>2. PICK r \in Nat : r = round[e]
  BY <1>1, RoundFacts
<1>3. PICK q \in Nat : q = round[Other(e)]
  BY <1>1, RoundFacts
<1>4. PICK d \in Nat : d = ReadBy(e)
  BY <1>1, RoundFacts
<1>5. PICK b \in Nat : b = SentBy(Other(e))
  BY <1>1, RoundFacts
<1>6. d <= b
  BY <1>4, <1>5, ReadWasSent
<1>7. d = r \/ d = r - 1
  BY <1>2, <1>4 DEF ReadBy
<1>8. b <= q /\ (pc[Other(e)] = "send" => b = q - 1)
  BY <1>3, <1>5 DEF SentBy
<1> QED BY <1>2, <1>3, <1>6, <1>7, <1>8

LEMMA IInvExact == IInv => Exact
<1> SUFFICES ASSUME IInv, Kept, transport = "SKT" => timely, NEW e \in End, pc[e] = "parse"
             PROVE  got[e] = Message(Other(e), round[e])
  BY DEF Exact
<1>1. transport = "SKT" \/ transport = "CM"
  BY Constants DEF IInv, TypeOK
<1>2. Separate(e)
  BY <1>1 DEF IInv, Unbroken, InOrder
<1> QED BY <1>2 DEF Separate

\* handshake() goes through its script, and the state of a connection keeps its
\* form, whatever is read.
THEOREM TypeCorrect == Spec => []TypeOK
<1>1. Init => IInv
  BY InitIInv
<1>2. IInv /\ [Next]_vars => IInv'
  BY IInvStep
<1>3. IInv => TypeOK
  BY DEF IInv
<1> QED BY <1>1, <1>2, <1>3, PTL DEF Spec

\* What is on its way to an end is what the other has sent and it has not read:
\* message by message with SKT's sleep or over CM, round by round without.
THEOREM Invariance == Spec => []IInv
<1>1. Init => IInv
  BY InitIInv
<1>2. IInv /\ [Next]_vars => IInv'
  BY IInvStep
<1> QED BY <1>1, <1>2, PTL DEF Spec

\* A word round is a barrier: an end that has left it knows that the other, unless
\* it failed, has entered it, with or without the sleep, for any number of rounds.
THEOREM BarrierCorrect == Spec => []Barrier
<1>1. Spec => []IInv
  BY Invariance
<1>2. IInv => Barrier
  BY IInvBarrier
<1> QED BY <1>1, <1>2, PTL

\* With SKT's sleep, or over CM, an end that has received holds exactly the message
\* that the other end sent in the same round, whatever the strings' lengths.
THEOREM ExactCorrect == Spec => []Exact
<1>1. Spec => []IInv
  BY Invariance
<1>2. IInv => Exact
  BY IInvExact
<1> QED BY <1>1, <1>2, PTL

-----------------------------------------------------------------------------
(* A session. *)

Connected == {"rts", "closed"}
InTransit(o) ==
  \/ toH[o] = <<>> /\ toO[o] = <<>>
  \/ \E m \in Msg :
       /\ toH[o] = <<m>> /\ toO[o] = <<>>
       /\ m \in Command => /\ opener[o].pc \in {"answer", "closed", "dead"}
                           /\ rdma[o] = "none" /\ handler[o].qp \in Connected
  \/ \E m \in Msg :
       /\ toH[o] = <<>> /\ toO[o] = <<m>>
       /\ m = "attr" => handler[o].qp \in Connected
AtRest(o) == \/ opener[o].pc \in {"start", "made", "set", "busy", "asked"}
             \/ opener[o].pc = "answer" /\ rdma[o] # "none"
OpenerFits(o) ==
  /\ AtRest(o) => toH[o] = <<>> /\ toO[o] = <<>>
  /\ opener[o].pc \in {"start", "ready", "made", "attr", "set"} => rdma[o] = "none"
  /\ opener[o].pc \in {"set", "answer", "busy"} =>
       opener[o].qp = "rts" /\ handler[o].qp \in Connected
HandlerFits(o) ==
  /\ handler[o].pc \in {"none", "upstream"} => handler[o].qp = "none"
  /\ handler[o].pc \in {"method", "relay"} => handler[o].qp = "rts"
  /\ handler[o].pc = "done" => handler[o].qp \in {"none", "closed"}
  /\ handler[o].qp = "closed" /\ handler[o].pc # "done" => rdma[o] = "answered"
Fitting(o) == InTransit(o) /\ OpenerFits(o) /\ HandlerFits(o)
Asked == /\ cmd["client"] # "SEND_FILE_OP"
         /\ \A u \in Opener \ {"client"} : cmd[u] # "NONE"
SessionIInv == SessionTypeOK /\ Asked /\ \A o \in Opener : Fitting(o)

-----------------------------------------------------------------------------
OpenerState  == [pc : {"start", "ready", "made", "attr", "set", "answer", "busy",
                       "asked", "closed", "dead"}, qp : Qp]
HandlerState == [pc : {"none", "upstream", "loop", "attr", "method", "relay", "done"},
                 qp : Qp]

LEMMA StateTypes ==
  ASSUME SessionTypeOK, NEW o \in Opener
  PROVE  /\ opener[o] \in OpenerState /\ handler[o] \in HandlerState
         /\ toH[o] \in Seq(Msg) /\ toO[o] \in Seq(Msg)
         /\ DOMAIN opener = Opener /\ DOMAIN handler = Opener
         /\ DOMAIN toH = Opener /\ DOMAIN toO = Opener /\ DOMAIN rdma = Opener
BY DEF SessionTypeOK, OpenerState, HandlerState

\* A step on one connection leaves the others as they were.
LEMMA OthersFit ==
  ASSUME NEW p, Fitting(p), toH'[p] = toH[p], toO'[p] = toO[p],
         opener'[p] = opener[p], handler'[p] = handler[p], rdma'[p] = rdma[p]
  PROVE  Fitting(p)'
BY DEF Fitting, InTransit, OpenerFits, HandlerFits, AtRest

\* What is left of one message when some of it has been taken.
LEMMA OnePiece ==
  ASSUME NEW in, NEW k \in 1..Len(in), NEW m \in Msg, in = <<m>>
  PROVE  k = 1 /\ in[1] = m /\ SubSeq(in, k + 1, Len(in)) = <<>>
<1>1. Len(in) = 1 /\ in[1] = m
  OBVIOUS
<1>2. SubSeq(in, 2, 1) = <<>>
  OBVIOUS
<1> QED BY <1>1, <1>2

LEMMA HandlerReceives ==
  ASSUME SessionIInv, NEW o \in Opener, NEW r \in HandlerRecv(o)
  PROVE  /\ r.rest = <<>>
         /\ \/ r.msg \in Msg /\ toH[o] = <<r.msg>> /\ toO[o] = <<>>
            \/ r.msg = "eof" /\ opener[o].pc = "closed" /\ toH[o] = <<>>
            \/ r.msg = "reset" /\ opener[o].pc = "closed" /\ toH[o] = <<>> /\ toO[o] # <<>>
<1>1. InTransit(o)
  BY DEF SessionIInv, Fitting
<1>2. toH[o] = <<>> \/ \E m \in Msg : toH[o] = <<m>> /\ toO[o] = <<>>
  BY <1>1 DEF InTransit
<1>3. r \in Received(toH[o], toO[o], o \in ClosedO)
  BY DEF HandlerRecv
<1>4. \A m : <<m>> # <<>>
  OBVIOUS
<1>5. /\ r.rest = <<>>
      /\ \/ r.msg \in Msg /\ toH[o] = <<r.msg>>
         \/ r.msg = "eof" /\ o \in ClosedO /\ toH[o] = <<>>
         \/ r.msg = "reset" /\ o \in ClosedO /\ toO[o] # <<>>
  <2>1. CASE \E k \in 1..Len(toH[o]) :
               r = [msg |-> IF k = 1 THEN toH[o][1] ELSE "mixed", rest |-> SubSeq(toH[o], k + 1, Len(toH[o]))]
    <3>1. PICK k \in 1..Len(toH[o]) :
               r = [msg |-> IF k = 1 THEN toH[o][1] ELSE "mixed", rest |-> SubSeq(toH[o], k + 1, Len(toH[o]))]
      BY <2>1
    <3>2. PICK m \in Msg : toH[o] = <<m>>
      BY <1>2, <3>1
    <3>3. k = 1 /\ toH[o][1] = m /\ SubSeq(toH[o], k + 1, Len(toH[o])) = <<>>
      BY <3>2, OnePiece
    <3> QED BY <3>1, <3>2, <3>3
  <2>2. CASE r = [msg |-> "eof", rest |-> <<>>] /\ o \in ClosedO /\ toH[o] = <<>>
    BY <2>2
  <2>3. CASE r = [msg |-> "reset", rest |-> <<>>] /\ o \in ClosedO /\ toO[o] # <<>>
    BY <2>3
  <2> QED BY <1>3, <2>1, <2>2, <2>3 DEF Received
<1> QED BY <1>2, <1>4, <1>5 DEF ClosedO

LEMMA OpenerReceives ==
  ASSUME SessionIInv, NEW o \in Opener, NEW r \in OpenerRecv(o)
  PROVE  /\ r.rest = <<>>
         /\ \/ r.msg \in Msg /\ toO[o] = <<r.msg>> /\ toH[o] = <<>>
            \/ r.msg = "eof" /\ toO[o] = <<>>
            \/ r.msg = "reset" /\ toO[o] = <<>>
<1>1. InTransit(o)
  BY DEF SessionIInv, Fitting
<1>2. toO[o] = <<>> \/ \E m \in Msg : toO[o] = <<m>> /\ toH[o] = <<>>
  BY <1>1 DEF InTransit
<1>3. r \in Received(toO[o], toH[o], o \in ClosedH)
  BY DEF OpenerRecv
<1>4. \A m : <<m>> # <<>>
  OBVIOUS
<1>5. /\ r.rest = <<>>
      /\ \/ r.msg \in Msg /\ toO[o] = <<r.msg>>
         \/ r.msg = "eof" /\ toO[o] = <<>>
         \/ r.msg = "reset" /\ toH[o] # <<>>
  <2>1. CASE \E k \in 1..Len(toO[o]) :
               r = [msg |-> IF k = 1 THEN toO[o][1] ELSE "mixed", rest |-> SubSeq(toO[o], k + 1, Len(toO[o]))]
    <3>1. PICK k \in 1..Len(toO[o]) :
               r = [msg |-> IF k = 1 THEN toO[o][1] ELSE "mixed", rest |-> SubSeq(toO[o], k + 1, Len(toO[o]))]
      BY <2>1
    <3>2. PICK m \in Msg : toO[o] = <<m>>
      BY <1>2, <3>1
    <3>3. k = 1 /\ toO[o][1] = m /\ SubSeq(toO[o], k + 1, Len(toO[o])) = <<>>
      BY <3>2, OnePiece
    <3> QED BY <3>1, <3>2, <3>3
  <2>2. CASE r = [msg |-> "eof", rest |-> <<>>] /\ o \in ClosedH /\ toO[o] = <<>>
    BY <2>2
  <2>3. CASE r = [msg |-> "reset", rest |-> <<>>] /\ o \in ClosedH /\ toH[o] # <<>>
    BY <2>3
  <2> QED BY <1>3, <2>1, <2>2, <2>3 DEF Received
<1> QED BY <1>2, <1>4, <1>5

LEMMA Sent ==
  ASSUME NEW f, NEW o \in Opener, f \in [Opener -> Seq(Msg)], NEW m \in Msg
  PROVE  LET g == [f EXCEPT ![o] = Append(@, m)] IN
           /\ g \in [Opener -> Seq(Msg)]
           /\ f[o] = <<>> => g[o] = <<m>>
           /\ \A p \in Opener \ {o} : g[p] = f[p]
<1> DEFINE g == [f EXCEPT ![o] = Append(@, m)]
<1>1. f[o] \in Seq(Msg)
  OBVIOUS
<1>2. Append(f[o], m) \in Seq(Msg)
  BY <1>1
<1>3. Append(<<>>, m) = <<m>>
  OBVIOUS
<1> QED BY <1>2, <1>3

LEMMA Emptied ==
  ASSUME NEW f, NEW o \in Opener, f \in [Opener -> Seq(Msg)], NEW s, s = <<>>
  PROVE  LET g == [f EXCEPT ![o] = s] IN
           /\ g \in [Opener -> Seq(Msg)]
           /\ g[o] = <<>>
           /\ \A p \in Opener \ {o} : g[p] = f[p]
OBVIOUS

\* One end of a connection goes on.
LEMMA EndMoves ==
  ASSUME NEW S, NEW f, NEW o \in Opener, f \in [Opener -> S], NEW s \in S
  PROVE  LET g == [f EXCEPT ![o] = s] IN
           g \in [Opener -> S] /\ g[o] = s /\ \A p \in Opener \ {o} : g[p] = f[p]
OBVIOUS

LEMMA OpenerMoves ==
  ASSUME SessionTypeOK, NEW o \in Opener, NEW x,
         x \in {"start", "ready", "made", "attr", "set", "answer", "busy", "asked",
                "closed", "dead"}
  PROVE  /\ OpenerGoes(o, x) =>
              /\ opener' \in [Opener -> OpenerState]
              /\ opener'[o].pc = x /\ opener'[o].qp = opener[o].qp
              /\ \A p \in Opener \ {o} : opener'[p] = opener[p]
         /\ \A q \in Qp : Becomes(o, x, q) =>
              /\ opener' \in [Opener -> OpenerState]
              /\ opener'[o].pc = x /\ opener'[o].qp = q
              /\ \A p \in Opener \ {o} : opener'[p] = opener[p]
<1>1. opener \in [Opener -> OpenerState]
  BY DEF SessionTypeOK, OpenerState
<1>2. ASSUME OpenerGoes(o, x)
      PROVE  /\ opener' \in [Opener -> OpenerState]
             /\ opener'[o].pc = x /\ opener'[o].qp = opener[o].qp
             /\ \A p \in Opener \ {o} : opener'[p] = opener[p]
  <2>1. opener' = [opener EXCEPT ![o] = [@ EXCEPT !.pc = x]]
    BY <1>2 DEF OpenerGoes
  <2>2. opener[o] \in OpenerState
    BY <1>1
  <2>3. [opener[o] EXCEPT !.pc = x] \in OpenerState
    BY <2>2 DEF OpenerState
  <2>4. opener'[o] = [opener[o] EXCEPT !.pc = x]
    BY <1>1, <2>1
  <2>5. opener'[o].pc = x /\ opener'[o].qp = opener[o].qp
    BY <2>2, <2>4 DEF OpenerState
  <2> QED BY <1>1, <2>1, <2>3, <2>5
<1>3. ASSUME NEW q \in Qp, Becomes(o, x, q)
      PROVE  /\ opener' \in [Opener -> OpenerState]
             /\ opener'[o].pc = x /\ opener'[o].qp = q
             /\ \A p \in Opener \ {o} : opener'[p] = opener[p]
  <2>1. opener' = [opener EXCEPT ![o] = [pc |-> x, qp |-> q]]
    BY <1>3 DEF Becomes
  <2>2. [pc |-> x, qp |-> q] \in OpenerState
    BY <1>3 DEF OpenerState
  <2> QED BY <1>1, <2>1, <2>2
<1> QED BY <1>2, <1>3

LEMMA HandlerMoves ==
  ASSUME SessionTypeOK, NEW o \in Opener
  PROVE  /\ \A x \in {"none", "upstream", "loop", "attr", "method", "relay", "done"} :
              Goes(o, x) =>
                /\ handler' \in [Opener -> HandlerState] /\ failed' = failed
                /\ handler'[o].pc = x /\ handler'[o].qp = handler[o].qp
                /\ \A p \in Opener \ {o} : handler'[p] = handler[p]
         /\ Ends(o) =>
                /\ handler' \in [Opener -> HandlerState]
                /\ handler'[o].pc = "done" /\ handler'[o].qp = "closed"
                /\ \A p \in Opener \ {o} : handler'[p] = handler[p]
<1>1. handler \in [Opener -> HandlerState]
  BY DEF SessionTypeOK, HandlerState
<1>2. ASSUME NEW x \in {"none", "upstream", "loop", "attr", "method", "relay", "done"},
             Goes(o, x)
      PROVE  /\ handler' \in [Opener -> HandlerState] /\ failed' = failed
             /\ handler'[o].pc = x /\ handler'[o].qp = handler[o].qp
             /\ \A p \in Opener \ {o} : handler'[p] = handler[p]
  <2>1. handler' = [handler EXCEPT ![o] = [@ EXCEPT !.pc = x]] /\ failed' = failed
    BY <1>2 DEF Goes
  <2>2. handler[o] \in HandlerState
    BY <1>1
  <2>3. [handler[o] EXCEPT !.pc = x] \in HandlerState
    BY <2>2 DEF HandlerState
  <2>4. handler'[o] = [handler[o] EXCEPT !.pc = x]
    BY <1>1, <2>1
  <2>5. handler'[o].pc = x /\ handler'[o].qp = handler[o].qp
    BY <2>2, <2>4 DEF HandlerState
  <2> QED BY <1>1, <2>1, <2>3, <2>5
<1>3. ASSUME Ends(o)
      PROVE  /\ handler' \in [Opener -> HandlerState]
             /\ handler'[o].pc = "done" /\ handler'[o].qp = "closed"
             /\ \A p \in Opener \ {o} : handler'[p] = handler[p]
  <2>1. handler' = [handler EXCEPT ![o] = [pc |-> "done", qp |-> "closed"]]
    BY <1>3 DEF Ends
  <2>2. [pc |-> "done", qp |-> "closed"] \in HandlerState
    BY DEF HandlerState, Qp
  <2> QED BY <1>1, <2>1, <2>2
<1> QED BY <1>2, <1>3

\* A step that keeps to the connection o.
HasNode(o) == handler[o].pc \in {"loop", "attr", "method", "relay"} => handler[o].qp # "none"
Others(o)  == \A p \in Opener \ {o} :
                /\ toH'[p] = toH[p] /\ toO'[p] = toO[p] /\ rdma'[p] = rdma[p]
                /\ opener'[p] = opener[p] /\ handler'[p] = handler[p]
Types == /\ toH \in [Opener -> Seq(Msg)] /\ toO \in [Opener -> Seq(Msg)]
         /\ opener \in [Opener -> OpenerState] /\ handler \in [Opener -> HandlerState]
         /\ rdma \in [Opener -> {"none", "begun", "answered"}] /\ failed \in BOOLEAN

LEMMA TypesOf == SessionTypeOK => Types /\ \A o \in Opener : HasNode(o)
BY DEF SessionTypeOK, Types, HasNode, OpenerState, HandlerState

LEMMA AllFit ==
  ASSUME SessionIInv, UNCHANGED setting, Types',
         \A p \in Opener : Fitting(p)' /\ HasNode(p)'
  PROVE  SessionIInv'
<1>1. SessionTypeOK'
  BY DEF SessionIInv, SessionTypeOK, Types, HasNode, OpenerState, HandlerState, setting
<1>2. Asked'
  BY DEF SessionIInv, Asked, setting
<1> QED BY <1>1, <1>2 DEF SessionIInv

LEMMA OneFits ==
  ASSUME SessionIInv, UNCHANGED setting, NEW o \in Opener, Types', Others(o),
         Fitting(o)', HasNode(o)'
  PROVE  SessionIInv'
<1>1. ASSUME NEW p \in Opener
      PROVE  Fitting(p)' /\ HasNode(p)'
  <2>1. CASE p = o
    BY <2>1
  <2>2. CASE p # o
    <3>1. /\ toH'[p] = toH[p] /\ toO'[p] = toO[p] /\ rdma'[p] = rdma[p]
          /\ opener'[p] = opener[p] /\ handler'[p] = handler[p]
      BY <2>2 DEF Others
    <3>2. Fitting(p) /\ HasNode(p)
      BY TypesOf DEF SessionIInv
    <3> QED BY <3>1, <3>2, OthersFit DEF HasNode
  <2> QED BY <2>1, <2>2
<1> QED BY <1>1, AllFit
LEMMA HereFacts ==
  ASSUME SessionIInv, NEW o \in Opener
  PROVE  /\ SessionTypeOK /\ Types /\ Fitting(o) /\ HasNode(o)
         /\ opener[o] \in OpenerState /\ handler[o] \in HandlerState
BY TypesOf, StateTypes DEF SessionIInv

LEMMA ConnectFits ==
  ASSUME SessionIInv, UNCHANGED setting, NEW o \in Opener, Connect(o)
  PROVE  SessionIInv'
<1>1. toH' = [toH EXCEPT ![o] = Append(@, "BEGIN")]
  BY DEF Connect, ToHandler
<1>2. /\ toH' \in [Opener -> Seq(Msg)]
      /\ toH[o] = <<>> => toH'[o] = <<"BEGIN">>
      /\ \A p \in Opener \ {o} : toH'[p] = toH[p]
  BY <1>1, HereFacts, Sent DEF Types, Msg
<1>3. /\ opener' \in [Opener -> OpenerState]
      /\ opener'[o].pc = "ready" /\ opener'[o].qp = opener[o].qp
      /\ \A p \in Opener \ {o} : opener'[p] = opener[p]
  BY HereFacts, OpenerMoves DEF Connect
<1>4. opener[o].pc = "start" /\ UNCHANGED <<toO, handler, rdma, failed>>
  BY DEF Connect
<1>5. Types' /\ Others(o) /\ HasNode(o)'
  BY <1>2, <1>3, <1>4, HereFacts DEF Types, Others, HasNode
<1>6. toH'[o] = <<"BEGIN">> /\ toO'[o] = <<>> /\ rdma'[o] = "none"
  BY <1>2, <1>4, HereFacts DEF Fitting, OpenerFits, AtRest
<1>7. InTransit(o)'
  BY <1>6 DEF InTransit, Msg, Command
<1>8. OpenerFits(o)' /\ HandlerFits(o)'
  BY <1>3, <1>4, <1>6, HereFacts DEF Fitting, OpenerFits, HandlerFits, AtRest
<1> QED BY <1>5, <1>7, <1>8, OneFits DEF Fitting

LEMMA SendAttrFits ==
  ASSUME SessionIInv, UNCHANGED setting, NEW o \in Opener, SendAttr(o)
  PROVE  SessionIInv'
<1>1. toH' = [toH EXCEPT ![o] = Append(@, "attr")]
  BY DEF SendAttr, ToHandler
<1>2. /\ toH' \in [Opener -> Seq(Msg)]
      /\ toH[o] = <<>> => toH'[o] = <<"attr">>
      /\ \A p \in Opener \ {o} : toH'[p] = toH[p]
  BY <1>1, HereFacts, Sent DEF Types, Msg
<1>3. /\ opener' \in [Opener -> OpenerState]
      /\ opener'[o].pc = "attr" /\ opener'[o].qp = opener[o].qp
      /\ \A p \in Opener \ {o} : opener'[p] = opener[p]
  BY HereFacts, OpenerMoves DEF SendAttr
<1>4. opener[o].pc = "made" /\ UNCHANGED <<toO, handler, rdma, failed>>
  BY DEF SendAttr
<1>5. Types' /\ Others(o) /\ HasNode(o)'
  BY <1>2, <1>3, <1>4, HereFacts DEF Types, Others, HasNode
<1>6. toH'[o] = <<"attr">> /\ toO'[o] = <<>> /\ rdma'[o] = "none"
  BY <1>2, <1>4, HereFacts DEF Fitting, OpenerFits, AtRest
<1>7. InTransit(o)'
  BY <1>6 DEF InTransit, Msg, Command
<1>8. OpenerFits(o)' /\ HandlerFits(o)'
  BY <1>3, <1>4, <1>6, HereFacts DEF Fitting, OpenerFits, HandlerFits, AtRest
<1> QED BY <1>5, <1>7, <1>8, OneFits DEF Fitting

\* An opener that fails takes nothing with it but, in a proxy, a handler that has
\* no node yet.
LEMMA FailureFits ==
  ASSUME SessionIInv, UNCHANGED setting, NEW o \in Opener, OpenerFails(o),
         o # "client" => MayOpen(o), UNCHANGED <<toH, rdma>>,
         toO' \in [Opener -> Seq(Msg)], toO'[o] = <<>> \/ toO'[o] = toO[o],
         \A p \in Opener \ {o} : toO'[p] = toO[p]
  PROVE  SessionIInv'
<1>1. "closed" \in Qp /\ "client" \in Opener
  BY DEF Qp, Opener
<1>2. CASE o = "client"
  <2>1. /\ opener' \in [Opener -> OpenerState]
        /\ opener'[o].pc = "closed" /\ opener'[o].qp = "closed"
        /\ \A p \in Opener \ {o} : opener'[p] = opener[p]
    BY <1>1, <1>2, HereFacts, OpenerMoves DEF OpenerFails
  <2>2. failed' = TRUE /\ UNCHANGED <<handler, toH, rdma>>
    BY <1>2 DEF OpenerFails
  <2>3. Types' /\ Others(o) /\ HasNode(o)'
    BY <2>1, <2>2, HereFacts DEF Types, Others, HasNode
  <2>4. InTransit(o)'
    BY <2>1, <2>2, HereFacts DEF Fitting, InTransit
  <2>5. OpenerFits(o)' /\ HandlerFits(o)'
    BY <2>1, <2>2, HereFacts DEF Fitting, OpenerFits, HandlerFits, AtRest
  <2> QED BY <2>3, <2>4, <2>5, OneFits DEF Fitting
<1>3. CASE o # "client"
  <2>1. handler["client"].pc = "upstream" /\ OpenerGoes(o, "dead") /\ failed' = TRUE
        /\ handler' = [handler EXCEPT !["client"].pc = "done"]
    BY <1>3 DEF OpenerFails, MayOpen
  <2>2. /\ opener' \in [Opener -> OpenerState]
        /\ opener'[o].pc = "dead" /\ opener'[o].qp = opener[o].qp
        /\ \A p \in Opener \ {o} : opener'[p] = opener[p]
    BY <2>1, HereFacts, OpenerMoves
  <2>3. handler["client"].qp = "none" /\ handler["client"] \in HandlerState
        /\ handler \in [Opener -> HandlerState]
    BY <1>1, <2>1, HereFacts DEF Fitting, HandlerFits, Types
  <2>4. [handler["client"] EXCEPT !.pc = "done"] = [pc |-> "done", qp |-> "none"]
    BY <2>3 DEF HandlerState
  <2>5. handler' = [handler EXCEPT !["client"] = [pc |-> "done", qp |-> "none"]]
    BY <2>1, <2>4
  <2>6. [pc |-> "done", qp |-> "none"] \in HandlerState
    BY DEF HandlerState, Qp
  <2>7. /\ handler' \in [Opener -> HandlerState]
        /\ handler'["client"].pc = "done" /\ handler'["client"].qp = "none"
        /\ \A p \in Opener \ {"client"} : handler'[p] = handler[p]
    BY <1>1, <2>3, <2>5, <2>6
  <2>8. Types'
    BY <2>1, <2>2, <2>7, HereFacts DEF Types
  <2>9. ASSUME NEW p \in Opener
        PROVE  Fitting(p)' /\ HasNode(p)'
    <3>1. Fitting(p) /\ HasNode(p)
      BY HereFacts
    <3>2. CASE p = o
      <4>1. handler'[p] = handler[p]
        BY <1>3, <2>7, <3>2
      <4>2. HasNode(p)' /\ HandlerFits(p)'
        BY <3>1, <4>1 DEF Fitting, HasNode, HandlerFits
      <4>3. InTransit(p)'
        BY <2>2, <3>1, <3>2, <4>1 DEF Fitting, InTransit
      <4>4. OpenerFits(p)'
        BY <2>2, <3>2 DEF OpenerFits, AtRest
      <4> QED BY <4>2, <4>3, <4>4 DEF Fitting
    <3>3. CASE p = "client"
      <4>1. opener'[p] = opener[p] /\ toO'[p] = toO[p] /\ toH'[p] = toH[p] /\ rdma'[p] = rdma[p]
        BY <1>3, <2>2, <3>3
      <4>2. handler'[p].qp = handler[p].qp /\ handler'[p].pc = "done" /\ handler'[p].qp = "none"
        BY <2>3, <2>7, <3>3
      <4>3. HasNode(p)' /\ HandlerFits(p)'
        BY <4>2 DEF HasNode, HandlerFits
      <4>4. InTransit(p)'
        BY <3>1, <4>1, <4>2 DEF Fitting, InTransit
      <4>5. OpenerFits(p)'
        BY <3>1, <4>1, <4>2 DEF Fitting, OpenerFits, AtRest
      <4> QED BY <4>3, <4>4, <4>5 DEF Fitting
    <3>4. CASE p # o /\ p # "client"
      BY <2>2, <2>7, <3>1, <3>4, OthersFit DEF HasNode
    <3> QED BY <3>2, <3>3, <3>4
  <2> QED BY <2>8, <2>9, AllFit
<1> QED BY <1>2, <1>3
LEMMA ReadReadyFits ==
  ASSUME SessionIInv, UNCHANGED setting, NEW o \in Opener, ReadReady(o)
  PROVE  SessionIInv'
<1>1. PICK r \in OpenerRecv(o) :
        /\ toO' = [toO EXCEPT ![o] = r.rest]
        /\ IF r.msg = "READY"
             THEN Becomes(o, "made", "created") /\ UNCHANGED toH /\ UNCHANGED <<handler, failed>>
             ELSE OpenerFails(o) /\ UNCHANGED toH
  BY DEF ReadReady, OpenerReads
<1>2. opener[o].pc = "ready" /\ MayOpen(o) /\ UNCHANGED rdma
  BY DEF ReadReady, OpenerReads
<1>3. r.rest = <<>>
  BY OpenerReceives
<1>4. toO' \in [Opener -> Seq(Msg)] /\ toO'[o] = <<>> /\ \A p \in Opener \ {o} : toO'[p] = toO[p]
  BY <1>1, <1>3, HereFacts, Emptied DEF Types
<1>5. CASE r.msg # "READY"
  <2>1. OpenerFails(o) /\ UNCHANGED <<toH, rdma>>
    BY <1>1, <1>2, <1>5
  <2> QED BY <1>2, <1>4, <2>1, FailureFits
<1>6. CASE r.msg = "READY"
  <2>1. toO[o] = <<"READY">> /\ toH[o] = <<>>
    BY <1>6, OpenerReceives
  <2>2. Becomes(o, "made", "created") /\ UNCHANGED <<toH, rdma, handler, failed>>
    BY <1>1, <1>2, <1>6
  <2>3. /\ opener' \in [Opener -> OpenerState]
        /\ opener'[o].pc = "made" /\ opener'[o].qp = "created"
        /\ \A p \in Opener \ {o} : opener'[p] = opener[p]
    BY <2>2, HereFacts, OpenerMoves DEF Qp
  <2>4. Types' /\ Others(o) /\ HasNode(o)'
    BY <1>4, <2>2, <2>3, HereFacts DEF Types, Others, HasNode
  <2>5. InTransit(o)' /\ rdma'[o] = "none"
    BY <1>2, <1>4, <2>1, <2>2, HereFacts DEF Fitting, InTransit, OpenerFits
  <2>6. OpenerFits(o)' /\ HandlerFits(o)'
    BY <1>4, <2>1, <2>2, <2>3, <2>5, HereFacts DEF Fitting, OpenerFits, HandlerFits, AtRest
  <2> QED BY <2>4, <2>5, <2>6, OneFits DEF Fitting
<1> QED BY <1>5, <1>6

LEMMA ReadAttrFits ==
  ASSUME SessionIInv, UNCHANGED setting, NEW o \in Opener, ReadAttr(o)
  PROVE  SessionIInv'
<1> DEFINE next == IF o # "client" THEN "set" ELSE IF cmd[o] = "NONE" THEN "busy" ELSE "answer"
           asks == o = "client" /\ cmd[o] # "NONE"
<1>1. PICK r \in OpenerRecv(o) :
        /\ toO' = [toO EXCEPT ![o] = r.rest]
        /\ IF r.msg = "attr"
             THEN /\ Becomes(o, next, "rts")
                  /\ IF asks THEN ToHandler(o, cmd[o]) ELSE UNCHANGED toH
                  /\ UNCHANGED <<handler, failed>>
             ELSE OpenerFails(o) /\ UNCHANGED toH
  BY DEF ReadAttr, OpenerReads
<1>2. opener[o].pc = "attr" /\ MayOpen(o) /\ UNCHANGED rdma
  BY DEF ReadAttr, OpenerReads
<1>3. r.rest = <<>>
  BY OpenerReceives
<1>4. toO' \in [Opener -> Seq(Msg)] /\ toO'[o] = <<>> /\ \A p \in Opener \ {o} : toO'[p] = toO[p]
  BY <1>1, <1>3, HereFacts, Emptied DEF Types
<1>5. CASE r.msg # "attr"
  <2>1. OpenerFails(o) /\ UNCHANGED <<toH, rdma>>
    BY <1>1, <1>2, <1>5
  <2> QED BY <1>2, <1>4, <2>1, FailureFits
<1>6. CASE r.msg = "attr"
  <2>1. toO[o] = <<"attr">> /\ toH[o] = <<>>
    BY <1>6, OpenerReceives
  <2>2. Becomes(o, next, "rts") /\ UNCHANGED <<rdma, handler, failed>>
    BY <1>1, <1>2, <1>6
  <2>3. next \in {"set", "busy", "answer"} /\ (next = "answer" <=> asks)
    OBVIOUS
  <2>4. /\ opener' \in [Opener -> OpenerState]
        /\ opener'[o].pc = next /\ opener'[o].qp = "rts"
        /\ \A p \in Opener \ {o} : opener'[p] = opener[p]
    <3> HIDE DEF next
    <3> QED BY <2>2, <2>3, HereFacts, OpenerMoves DEF Qp
  <2>5. rdma'[o] = "none" /\ handler'[o].qp \in Connected
    <3>1. rdma[o] = "none"
      BY <1>2, HereFacts DEF Fitting, OpenerFits
    <3>2. <<"attr">> # <<>> /\ \A m : <<"attr">> = <<m>> => m = "attr"
      OBVIOUS
    <3>3. handler[o].qp \in Connected
      BY <2>1, <3>2, HereFacts DEF Fitting, InTransit
    <3> QED BY <2>2, <3>1, <3>3
  <2>6. CASE asks
    <3>1. cmd[o] \in Msg
      BY <2>6, HereFacts DEF SessionTypeOK, Msg
    <3>2. toH' = [toH EXCEPT ![o] = Append(@, cmd[o])]
      BY <1>1, <1>6, <2>6 DEF ToHandler
    <3>3. /\ toH' \in [Opener -> Seq(Msg)] /\ toH'[o] = <<cmd[o]>>
          /\ \A p \in Opener \ {o} : toH'[p] = toH[p]
      BY <2>1, <3>1, <3>2, HereFacts, Sent DEF Types
    <3>4. Types' /\ Others(o) /\ HasNode(o)'
      BY <1>4, <2>2, <2>4, <3>3, HereFacts DEF Types, Others, HasNode
    <3>5. opener'[o].pc = "answer"
      BY <2>3, <2>4, <2>6
    <3>6. InTransit(o)'
      BY <1>4, <2>5, <3>1, <3>3, <3>5 DEF InTransit
    <3>7. OpenerFits(o)' /\ HandlerFits(o)'
      BY <2>2, <2>4, <2>5, <3>5, HereFacts DEF Fitting, OpenerFits, HandlerFits, AtRest
    <3> QED BY <3>4, <3>6, <3>7, OneFits DEF Fitting
  <2>7. CASE ~ asks
    <3>1. UNCHANGED toH
      BY <1>1, <1>6, <2>7
    <3>2. Types' /\ Others(o) /\ HasNode(o)'
      BY <1>4, <2>2, <2>4, <3>1, HereFacts DEF Types, Others, HasNode
    <3>3. InTransit(o)'
      BY <1>4, <2>1, <3>1 DEF InTransit
    <3>4. OpenerFits(o)' /\ HandlerFits(o)'
      BY <1>4, <2>1, <2>2, <2>4, <2>5, <3>1, HereFacts
         DEF Fitting, OpenerFits, HandlerFits, AtRest
    <3> QED BY <3>2, <3>3, <3>4, OneFits DEF Fitting
  <2> QED BY <2>6, <2>7
<1> QED BY <1>5, <1>6

LEMMA StopFits ==
  ASSUME SessionIInv, UNCHANGED setting, NEW o \in Opener,
         Refused(o) \/ (o = "client" /\ ClientCrash)
  PROVE  SessionIInv'
<1>1. OpenerFails(o) /\ (o # "client" => MayOpen(o)) /\ UNCHANGED <<toH, toO, rdma>>
  BY DEF Refused, ClientCrash
<1>2. toO' \in [Opener -> Seq(Msg)] /\ \A p \in Opener : toO'[p] = toO[p]
  BY <1>1, HereFacts DEF Types
<1> QED BY <1>1, <1>2, FailureFits

LEMMA AnswerFits ==
  ASSUME SessionIInv, UNCHANGED setting, NEW o \in Opener, Answer(o)
  PROVE  SessionIInv'
<1>1. opener[o].pc = "answer" /\ rdma[o] = "begun" /\ UNCHANGED <<toH, toO, handler, failed>>
  BY DEF Answer
<1>2. /\ opener' \in [Opener -> OpenerState]
      /\ opener'[o].pc = "busy" /\ opener'[o].qp = opener[o].qp
      /\ \A p \in Opener \ {o} : opener'[p] = opener[p]
  BY HereFacts, OpenerMoves DEF Answer
<1>3. /\ rdma' \in [Opener -> {"none", "begun", "answered"}]
      /\ rdma'[o] = "answered" /\ \A p \in Opener \ {o} : rdma'[p] = rdma[p]
  BY HereFacts DEF Answer, Types
<1>4. Types' /\ Others(o) /\ HasNode(o)'
  BY <1>1, <1>2, <1>3, HereFacts DEF Types, Others, HasNode
<1>5. toH'[o] = <<>> /\ toO'[o] = <<>>
  BY <1>1, HereFacts DEF Fitting, OpenerFits, AtRest
<1>6. InTransit(o)'
  BY <1>5 DEF InTransit
<1>7. OpenerFits(o)' /\ HandlerFits(o)'
  BY <1>1, <1>2, <1>3, <1>5, HereFacts DEF Fitting, OpenerFits, HandlerFits, AtRest
<1> QED BY <1>4, <1>6, <1>7, OneFits DEF Fitting

LEMMA ClientReturnFits ==
  ASSUME SessionIInv, UNCHANGED setting, ClientReturn
  PROVE  SessionIInv'
<1> DEFINE o == "client"
<1>1. opener[o].pc = "busy" /\ UNCHANGED <<toO, handler, rdma, failed>> /\ o \in Opener
      /\ toH' = [toH EXCEPT ![o] = Append(@, "DONE")] /\ Becomes(o, "closed", "closed")
  BY DEF ClientReturn, ToHandler, Opener
<1> HIDE DEF o
<1>2. toH[o] = <<>> /\ toO[o] = <<>>
  BY <1>1, HereFacts DEF Fitting, OpenerFits, AtRest
<1>3. /\ toH' \in [Opener -> Seq(Msg)] /\ toH'[o] = <<"DONE">>
      /\ \A p \in Opener \ {o} : toH'[p] = toH[p]
  BY <1>1, <1>2, HereFacts, Sent DEF Types, Msg
<1>4. /\ opener' \in [Opener -> OpenerState]
      /\ opener'[o].pc = "closed" /\ opener'[o].qp = "closed"
      /\ \A p \in Opener \ {o} : opener'[p] = opener[p]
  BY <1>1, HereFacts, OpenerMoves DEF Qp
<1>5. Types' /\ Others(o) /\ HasNode(o)'
  BY <1>1, <1>3, <1>4, HereFacts DEF Types, Others, HasNode
<1>6. InTransit(o)'
  BY <1>1, <1>2, <1>3 DEF InTransit, Msg, Command
<1>7. OpenerFits(o)' /\ HandlerFits(o)'
  BY <1>1, <1>4, HereFacts DEF Fitting, OpenerFits, HandlerFits, AtRest
<1> QED BY <1>1, <1>5, <1>6, <1>7, OneFits DEF Fitting

LEMMA AskFits ==
  ASSUME SessionIInv, UNCHANGED setting, NEW o \in Opener \ {"client"}, Ask(o)
  PROVE  SessionIInv'
<1>1. /\ opener[o].pc = "set" /\ UNCHANGED <<toO, handler, rdma, failed>>
      /\ toH' = [toH EXCEPT ![o] = Append(@, cmd[o])] /\ OpenerGoes(o, "answer")
  BY DEF Ask, ToHandler
<1>2. toH[o] = <<>> /\ toO[o] = <<>> /\ rdma[o] = "none" /\ handler[o].qp \in Connected
      /\ opener[o].qp = "rts"
  BY <1>1, HereFacts DEF Fitting, OpenerFits, AtRest
<1>3. cmd[o] \in Msg
  BY DEF SessionIInv, SessionTypeOK, Asked, Msg
<1>4. /\ toH' \in [Opener -> Seq(Msg)] /\ toH'[o] = <<cmd[o]>>
      /\ \A p \in Opener \ {o} : toH'[p] = toH[p]
  BY <1>1, <1>2, <1>3, HereFacts, Sent DEF Types
<1>5. /\ opener' \in [Opener -> OpenerState]
      /\ opener'[o].pc = "answer" /\ opener'[o].qp = opener[o].qp
      /\ \A p \in Opener \ {o} : opener'[p] = opener[p]
  BY <1>1, HereFacts, OpenerMoves
<1>6. Types' /\ Others(o) /\ HasNode(o)'
  BY <1>1, <1>4, <1>5, HereFacts DEF Types, Others, HasNode
<1>7. InTransit(o)'
  BY <1>1, <1>2, <1>3, <1>4, <1>5 DEF InTransit
<1>8. OpenerFits(o)' /\ HandlerFits(o)'
  BY <1>1, <1>2, <1>5, HereFacts DEF Fitting, OpenerFits, HandlerFits, AtRest
<1> QED BY <1>6, <1>7, <1>8, OneFits DEF Fitting

\* The steps of an opener that send and read nothing.
LEMMA OpenerMovesOn ==
  ASSUME SessionIInv, UNCHANGED setting, NEW o \in Opener, ProxyHas(o) \/ Released(o)
  PROVE  SessionIInv'
<1>1. /\ opener' \in [Opener -> OpenerState]
      /\ opener'[o].pc = "closed" \/ (opener[o].pc = "busy" /\ opener'[o].pc = "asked")
      /\ \A p \in Opener \ {o} : opener'[p] = opener[p]
  BY HereFacts, OpenerMoves DEF ProxyHas, Released, Qp
<1>2. UNCHANGED <<toH, toO, handler, rdma, failed>>
  BY DEF ProxyHas, Released
<1>3. Types' /\ Others(o) /\ HasNode(o)'
  BY <1>1, <1>2, HereFacts DEF Types, Others, HasNode
<1>4. InTransit(o)'
  BY <1>1, <1>2, HereFacts DEF Fitting, InTransit, OpenerFits, AtRest
<1>5. OpenerFits(o)' /\ HandlerFits(o)'
  BY <1>1, <1>2, HereFacts DEF Fitting, OpenerFits, HandlerFits, AtRest
<1> QED BY <1>3, <1>4, <1>5, OneFits DEF Fitting
\* What a recv of the handler leaves.
LEMMA ReadsLeave ==
  ASSUME SessionIInv, NEW o \in Opener, NEW r \in HandlerRecv(o), NEW x, NEW M,
         Reads(o, x, r, M)
  PROVE  /\ handler[o].pc = x /\ r.msg \in M /\ UNCHANGED opener
         /\ toH' \in [Opener -> Seq(Msg)] /\ toH'[o] = <<>>
         /\ \A p \in Opener \ {o} : toH'[p] = toH[p]
<1>1. /\ handler[o].pc = x /\ r.msg \in M /\ UNCHANGED opener
      /\ toH' = [toH EXCEPT ![o] = r.rest]
  BY DEF Reads
<1>2. r.rest = <<>>
  BY HandlerReceives
<1> QED BY <1>1, <1>2, HereFacts, Emptied DEF Types

\* However a handler ends, with an answer on its way or not.
LEMMA EndFits ==
  ASSUME SessionIInv, UNCHANGED setting, NEW o \in Opener, Ends(o), failed' \in BOOLEAN,
         UNCHANGED <<opener, rdma>>,
         toH' \in [Opener -> Seq(Msg)], toO' \in [Opener -> Seq(Msg)],
         \A p \in Opener \ {o} : toH'[p] = toH[p] /\ toO'[p] = toO[p],
         toH'[o] = toH[o] \/ toH'[o] = <<>>,
         toO'[o] = toO[o] \/ (toO'[o] = <<"attr">> /\ toH'[o] = <<>> /\ ~ AtRest(o))
  PROVE  SessionIInv'
<1>1. /\ handler' \in [Opener -> HandlerState]
      /\ handler'[o].pc = "done" /\ handler'[o].qp = "closed"
      /\ \A p \in Opener \ {o} : handler'[p] = handler[p]
  BY HereFacts, HandlerMoves
<1>2. Types' /\ Others(o) /\ HasNode(o)'
  BY <1>1, HereFacts DEF Types, Others, HasNode
<1>3. handler'[o].qp \in Connected
  BY <1>1 DEF Connected
<1>4. InTransit(o)'
  <2>1. CASE toO'[o] = toO[o]
    BY <1>3, <2>1, HereFacts DEF Fitting, InTransit
  <2>2. CASE toO'[o] = <<"attr">> /\ toH'[o] = <<>>
    BY <1>3, <2>2 DEF InTransit, Msg
  <2> QED BY <2>1, <2>2
<1>5. OpenerFits(o)'
  <2>1. AtRest(o)' <=> AtRest(o)
    BY DEF AtRest
  <2> QED BY <1>3, <2>1, HereFacts DEF Fitting, OpenerFits
<1>6. HandlerFits(o)'
  BY <1>1 DEF HandlerFits
<1> QED BY <1>2, <1>4, <1>5, <1>6, OneFits DEF Fitting

LEMMA AcceptFits ==
  ASSUME SessionIInv, UNCHANGED setting, NEW o \in Opener, Accept(o)
  PROVE  SessionIInv'
<1> DEFINE s == IF HasUpstream(o) THEN [pc |-> "upstream", qp |-> "none"]
                                  ELSE [pc |-> "loop", qp |-> "created"]
<1>1. handler[o].pc = "none" /\ handler' = [handler EXCEPT ![o] = s]
      /\ UNCHANGED <<toH, toO, opener, rdma, failed>>
  BY DEF Accept
<1>2. s \in HandlerState
  BY DEF HandlerState, Qp
<1>3. \/ s.pc = "upstream" /\ s.qp = "none"
      \/ s.pc = "loop" /\ s.qp = "created"
  OBVIOUS
<1> HIDE DEF s
<1>4. handler' \in [Opener -> HandlerState] /\ handler'[o] = s
      /\ \A p \in Opener \ {o} : handler'[p] = handler[p]
  BY <1>1, <1>2, HereFacts, EndMoves DEF Types
<1>5. handler[o].qp \notin Connected
  BY <1>1, HereFacts DEF Fitting, HandlerFits, Connected
<1>6. Types' /\ Others(o) /\ HasNode(o)'
  BY <1>1, <1>3, <1>4, HereFacts DEF Types, Others, HasNode
<1>7. InTransit(o)'
  BY <1>1, <1>5, HereFacts DEF Fitting, InTransit
<1>8. OpenerFits(o)' /\ HandlerFits(o)'
  BY <1>1, <1>3, <1>4, <1>5, HereFacts DEF Fitting, OpenerFits, HandlerFits, AtRest
<1> QED BY <1>6, <1>7, <1>8, OneFits DEF Fitting

LEMMA UpstreamOpenFits ==
  ASSUME SessionIInv, UNCHANGED setting, UpstreamOpen
  PROVE  SessionIInv'
<1> DEFINE o == "client"
<1>1. handler[o].pc = "upstream" /\ handler' = [handler EXCEPT ![o] = [pc |-> "loop", qp |-> "created"]]
      /\ UNCHANGED <<toH, toO, opener, rdma, failed>> /\ o \in Opener
  BY DEF UpstreamOpen, Opener
<1> HIDE DEF o
<1>2. [pc |-> "loop", qp |-> "created"] \in HandlerState
  BY DEF HandlerState, Qp
<1>3. handler' \in [Opener -> HandlerState] /\ handler'[o] = [pc |-> "loop", qp |-> "created"]
      /\ \A p \in Opener \ {o} : handler'[p] = handler[p]
  BY <1>1, <1>2, HereFacts, EndMoves DEF Types
<1>4. handler[o].qp \notin Connected
  BY <1>1, HereFacts DEF Fitting, HandlerFits, Connected
<1>5. Types' /\ Others(o) /\ HasNode(o)'
  BY <1>1, <1>3, HereFacts DEF Types, Others, HasNode
<1>6. InTransit(o)'
  BY <1>1, <1>4, HereFacts DEF Fitting, InTransit
<1>7. OpenerFits(o)' /\ HandlerFits(o)'
  BY <1>1, <1>3, <1>4, HereFacts DEF Fitting, OpenerFits, HandlerFits, AtRest
<1> QED BY <1>1, <1>5, <1>6, <1>7, OneFits DEF Fitting

LEMMA OnBeginFits ==
  ASSUME SessionIInv, UNCHANGED setting, NEW o \in Opener, OnBegin(o)
  PROVE  SessionIInv'
<1>1. PICK r \in HandlerRecv(o) :
        /\ Reads(o, "loop", r, {"BEGIN"})
        /\ \/ ToOpener(o, "READY") /\ Goes(o, "attr")
           \/ o \in ClosedO /\ Raise(o) /\ UNCHANGED toO
  BY DEF OnBegin
<1>2. UNCHANGED <<opener, rdma>>
  BY <1>1 DEF OnBegin, Reads
<1>3. /\ handler[o].pc = "loop" /\ r.msg = "BEGIN"
      /\ toH' \in [Opener -> Seq(Msg)] /\ toH'[o] = <<>>
      /\ \A p \in Opener \ {o} : toH'[p] = toH[p]
  BY <1>1, ReadsLeave
<1>4. CASE Raise(o) /\ UNCHANGED toO
  BY <1>2, <1>3, <1>4, HereFacts, EndFits DEF Raise, Types
<1>5. CASE ToOpener(o, "READY") /\ Goes(o, "attr")
  <2>1. toH[o] = <<"BEGIN">> /\ toO[o] = <<>>
    BY <1>3, HandlerReceives
  <2>2. toO' = [toO EXCEPT ![o] = Append(@, "READY")]
    BY <1>5 DEF ToOpener
  <2>3. /\ toO' \in [Opener -> Seq(Msg)] /\ toO'[o] = <<"READY">>
        /\ \A p \in Opener \ {o} : toO'[p] = toO[p]
    BY <2>1, <2>2, HereFacts, Sent DEF Types, Msg
  <2>4. /\ handler' \in [Opener -> HandlerState] /\ failed' = failed
        /\ handler'[o].pc = "attr" /\ handler'[o].qp = handler[o].qp
        /\ \A p \in Opener \ {o} : handler'[p] = handler[p]
    BY <1>5, HereFacts, HandlerMoves
  <2>5. Types' /\ Others(o) /\ HasNode(o)'
    BY <1>2, <1>3, <2>3, <2>4, HereFacts DEF Types, Others, HasNode
  <2>6. InTransit(o)'
    BY <1>3, <2>3 DEF InTransit, Msg
  <2>7. ~ AtRest(o)
    BY <2>1, HereFacts DEF Fitting, OpenerFits
  <2>8. OpenerFits(o)' /\ HandlerFits(o)'
    BY <1>2, <1>3, <2>4, <2>7, HereFacts DEF Fitting, OpenerFits, HandlerFits, AtRest
  <2> QED BY <2>5, <2>6, <2>8, OneFits DEF Fitting
<1> QED BY <1>1, <1>4, <1>5

LEMMA OnCommandFits ==
  ASSUME SessionIInv, UNCHANGED setting, NEW o \in Opener, OnCommand(o)
  PROVE  SessionIInv'
<1>1. PICK r \in HandlerRecv(o) :
        Reads(o, "loop", r, Command) /\ Goes(o, "method") /\ UNCHANGED toO
  BY DEF OnCommand
<1>2. UNCHANGED <<opener, toO>> /\ rdma' = [rdma EXCEPT ![o] = "begun"]
  BY <1>1 DEF OnCommand, Reads
<1>3. /\ handler[o].pc = "loop" /\ r.msg \in Command
      /\ toH' \in [Opener -> Seq(Msg)] /\ toH'[o] = <<>>
      /\ \A p \in Opener \ {o} : toH'[p] = toH[p]
  BY <1>1, ReadsLeave
<1>4. toH[o] = <<r.msg>> /\ toO[o] = <<>>
  BY <1>3, HandlerReceives DEF Command
<1>5. /\ opener[o].pc \in {"answer", "closed", "dead"} /\ rdma[o] = "none"
      /\ handler[o].qp \in Connected
  <2>1. <<r.msg>> # <<>> /\ \A m : <<r.msg>> = <<m>> => m = r.msg
    OBVIOUS
  <2> QED BY <1>3, <1>4, <2>1, HereFacts DEF Fitting, InTransit
<1>6. handler[o].qp = "rts"
  BY <1>3, <1>5, HereFacts DEF Fitting, HandlerFits, Connected
<1>7. /\ handler' \in [Opener -> HandlerState] /\ failed' = failed
      /\ handler'[o].pc = "method" /\ handler'[o].qp = "rts"
      /\ \A p \in Opener \ {o} : handler'[p] = handler[p]
  BY <1>1, <1>6, HereFacts, HandlerMoves
<1>8. /\ rdma' \in [Opener -> {"none", "begun", "answered"}]
      /\ rdma'[o] = "begun" /\ \A p \in Opener \ {o} : rdma'[p] = rdma[p]
  BY <1>2, HereFacts DEF Types
<1>9. Types' /\ Others(o) /\ HasNode(o)'
  BY <1>2, <1>3, <1>7, <1>8, HereFacts DEF Types, Others, HasNode
<1>10. InTransit(o)'
  BY <1>2, <1>3, <1>4 DEF InTransit
<1>11. OpenerFits(o)' /\ HandlerFits(o)'
  BY <1>2, <1>3, <1>4, <1>5, <1>7, HereFacts
     DEF Fitting, OpenerFits, HandlerFits, AtRest, Connected
<1> QED BY <1>9, <1>10, <1>11, OneFits DEF Fitting

\* DONE, the error of a connection that was reset, and anything but a set of
\* attributes when it waits for one, end the handler.
LEMMA LastReadFits ==
  ASSUME SessionIInv, UNCHANGED setting, NEW o \in Opener,
         OnDone(o) \/ OnReset(o) \/ AttrRaises(o)
  PROVE  SessionIInv'
<1>1. PICK r \in HandlerRecv(o), x \in {"loop", "attr"} :
        (\E M : Reads(o, x, r, M)) /\ Ends(o) /\ failed' \in BOOLEAN /\ UNCHANGED <<toO, rdma>>
  BY HereFacts DEF OnDone, OnReset, AttrRaises, Raise, Types
<1>2. /\ UNCHANGED opener
      /\ toH' \in [Opener -> Seq(Msg)] /\ toH'[o] = <<>>
      /\ \A p \in Opener \ {o} : toH'[p] = toH[p]
  BY <1>1, ReadsLeave
<1> QED BY <1>1, <1>2, HereFacts, EndFits DEF Types

LEMMA OnOtherFits ==
  ASSUME SessionIInv, UNCHANGED setting, NEW o \in Opener, OnOther(o)
  PROVE  SessionIInv'
<1>1. PICK r \in HandlerRecv(o) :
        (\E M : Reads(o, "loop", r, M)) /\ Goes(o, "loop") /\ UNCHANGED <<toO, rdma>>
  BY DEF OnOther
<1>2. /\ handler[o].pc = "loop" /\ UNCHANGED opener
      /\ toH' \in [Opener -> Seq(Msg)] /\ toH'[o] = <<>>
      /\ \A p \in Opener \ {o} : toH'[p] = toH[p]
  BY <1>1, ReadsLeave
<1>3. /\ handler' \in [Opener -> HandlerState] /\ failed' = failed
      /\ handler'[o].pc = "loop" /\ handler'[o].qp = handler[o].qp
      /\ \A p \in Opener \ {o} : handler'[p] = handler[p]
  BY <1>1, HereFacts, HandlerMoves
<1>4. Types' /\ Others(o) /\ HasNode(o)'
  BY <1>1, <1>2, <1>3, HereFacts DEF Types, Others, HasNode
<1>5. InTransit(o)'
  BY <1>1, <1>2, <1>3, HereFacts DEF Fitting, InTransit
<1>6. OpenerFits(o)' /\ HandlerFits(o)'
  BY <1>1, <1>2, <1>3, HereFacts DEF Fitting, OpenerFits, HandlerFits, AtRest
<1> QED BY <1>4, <1>5, <1>6, OneFits DEF Fitting

LEMMA TakeAttrFits ==
  ASSUME SessionIInv, UNCHANGED setting, NEW o \in Opener, TakeAttr(o)
  PROVE  SessionIInv'
<1>1. PICK r \in HandlerRecv(o) :
        /\ Reads(o, "attr", r, {"attr"})
        /\ \/ /\ ToOpener(o, "attr")
              /\ \/ /\ handler' = [handler EXCEPT ![o] = [pc |-> "loop", qp |-> "rts"]]
                    /\ UNCHANGED failed
                 \/ Raise(o)
           \/ Raise(o) /\ UNCHANGED toO
  BY DEF TakeAttr
<1>2. UNCHANGED <<opener, rdma>>
  BY <1>1 DEF TakeAttr, Reads
<1>3. /\ handler[o].pc = "attr" /\ r.msg = "attr"
      /\ toH' \in [Opener -> Seq(Msg)] /\ toH'[o] = <<>>
      /\ \A p \in Opener \ {o} : toH'[p] = toH[p]
  BY <1>1, ReadsLeave
<1>4. toH[o] = <<"attr">> /\ toO[o] = <<>> /\ ~ AtRest(o)
  <2>1. toH[o] = <<"attr">> /\ toO[o] = <<>>
    BY <1>3, HandlerReceives
  <2> QED BY <2>1, HereFacts DEF Fitting, OpenerFits
<1>5. CASE Raise(o) /\ UNCHANGED toO
  BY <1>2, <1>3, <1>5, HereFacts, EndFits DEF Raise, Types
<1>6. ASSUME ToOpener(o, "attr")
      PROVE  /\ toO' \in [Opener -> Seq(Msg)] /\ toO'[o] = <<"attr">>
             /\ \A p \in Opener \ {o} : toO'[p] = toO[p]
  <2>1. toO' = [toO EXCEPT ![o] = Append(@, "attr")]
    BY <1>6 DEF ToOpener
  <2> QED BY <1>4, <2>1, HereFacts, Sent DEF Types, Msg
<1>7. CASE ToOpener(o, "attr") /\ Raise(o)
  BY <1>2, <1>3, <1>4, <1>6, <1>7, EndFits DEF Raise
<1>8. CASE /\ ToOpener(o, "attr") /\ UNCHANGED failed
           /\ handler' = [handler EXCEPT ![o] = [pc |-> "loop", qp |-> "rts"]]
  <2>1. [pc |-> "loop", qp |-> "rts"] \in HandlerState
    BY DEF HandlerState, Qp
  <2>2. handler' \in [Opener -> HandlerState] /\ handler'[o] = [pc |-> "loop", qp |-> "rts"]
        /\ \A p \in Opener \ {o} : handler'[p] = handler[p]
    BY <1>8, <2>1, HereFacts, EndMoves DEF Types
  <2>3. handler'[o].qp \in Connected
    BY <2>2 DEF Connected
  <2>4. Types' /\ Others(o) /\ HasNode(o)'
    BY <1>2, <1>3, <1>6, <1>8, <2>2, HereFacts DEF Types, Others, HasNode
  <2>5. InTransit(o)'
    BY <1>3, <1>6, <1>8, <2>3 DEF InTransit, Msg
  <2>6. OpenerFits(o)' /\ HandlerFits(o)'
    BY <1>2, <1>4, <2>2, <2>3, HereFacts DEF Fitting, OpenerFits, HandlerFits, AtRest
  <2> QED BY <2>4, <2>5, <2>6, OneFits DEF Fitting
<1> QED BY <1>1, <1>5, <1>7, <1>8

LEMMA MethodReturnsFits ==
  ASSUME SessionIInv, UNCHANGED setting, NEW o \in Opener, MethodReturns(o)
  PROVE  SessionIInv'
<1> DEFINE x == IF HasUpstream(o) THEN "relay" ELSE "loop"
           q == IF cmd[o] = "SEND_FILE_OP" THEN "closed" ELSE handler[o].qp
<1>1. /\ handler[o].pc = "method" /\ rdma[o] = "answered"
      /\ UNCHANGED <<toH, toO, opener, rdma, failed>>
  BY DEF MethodReturns
<1>2. handler[o].qp = "rts" /\ handler[o] \in HandlerState /\ handler \in [Opener -> HandlerState]
  BY <1>1, HereFacts DEF Fitting, HandlerFits, Types
<1>3. handler' = [handler EXCEPT ![o] = [pc |-> x, qp |-> q]]
  BY DEF MethodReturns
<1>5. /\ x \in {"relay", "loop"} /\ q \in Connected
      /\ x = "relay" => q = "rts"
  BY <1>2 DEF Connected, HasUpstream, SessionIInv, Asked
<1> HIDE DEF x, q
<1>6. [pc |-> x, qp |-> q] \in HandlerState
  BY <1>5 DEF HandlerState, Connected, Qp
<1>7. handler' \in [Opener -> HandlerState] /\ handler'[o] = [pc |-> x, qp |-> q]
      /\ \A p \in Opener \ {o} : handler'[p] = handler[p]
  BY <1>2, <1>3, <1>6, EndMoves
<1>8. handler'[o].pc = x /\ handler'[o].qp = q /\ q # "none"
  BY <1>5, <1>7 DEF Connected
<1>9. Types' /\ Others(o) /\ HasNode(o)'
  BY <1>1, <1>7, <1>8, HereFacts DEF Types, Others, HasNode
<1>10. InTransit(o)'
  BY <1>1, <1>5, <1>8, HereFacts DEF Fitting, InTransit
<1>11. OpenerFits(o)'
  BY <1>1, <1>5, <1>8, HereFacts DEF Fitting, OpenerFits, AtRest
<1>12. HandlerFits(o)'
  BY <1>1, <1>5, <1>8 DEF HandlerFits
<1> QED BY <1>9, <1>10, <1>11, <1>12, OneFits DEF Fitting

LEMMA MethodRaisesFits ==
  ASSUME SessionIInv, UNCHANGED setting, NEW o \in Opener, MethodRaises(o)
  PROVE  SessionIInv'
BY HereFacts, EndFits DEF MethodRaises, Raise, Types

LEMMA RelayReturnsFits ==
  ASSUME SessionIInv, UNCHANGED setting, RelayReturns
  PROVE  SessionIInv'
<1> DEFINE o == "client"
<1>1. handler[o].pc = "relay" /\ UNCHANGED <<toH, toO, opener, rdma>> /\ Goes(o, "loop")
      /\ o \in Opener
  BY DEF RelayReturns, Relaying, Opener
<1> HIDE DEF o
<1>2. /\ handler' \in [Opener -> HandlerState] /\ failed' = failed
      /\ handler'[o].pc = "loop" /\ handler'[o].qp = handler[o].qp
      /\ \A p \in Opener \ {o} : handler'[p] = handler[p]
  BY <1>1, HereFacts, HandlerMoves
<1>3. Types' /\ Others(o) /\ HasNode(o)'
  BY <1>1, <1>2, HereFacts DEF Types, Others, HasNode
<1>4. InTransit(o)'
  BY <1>1, <1>2, HereFacts DEF Fitting, InTransit
<1>5. OpenerFits(o)' /\ HandlerFits(o)'
  BY <1>1, <1>2, HereFacts DEF Fitting, OpenerFits, HandlerFits, AtRest
<1> QED BY <1>1, <1>3, <1>4, <1>5, OneFits DEF Fitting
LEMMA SessionBegins == SessionInit => SessionIInv
<1> SUFFICES ASSUME SessionInit PROVE SessionIInv
  OBVIOUS
<1>1. PICK c \in {"NONE", "PUSH", "PULL", "SEND_FILE"} :
        cmd = [client |-> c,
               up1 |-> IF program = "proxy-server1" THEN "SEND_FILE" ELSE "SEND_FILE_META",
               up2 |-> "SEND_FILE_OP"]
  BY DEF SessionInit
<1>2. cmd["client"] = c /\ cmd["up1"] \in {"SEND_FILE", "SEND_FILE_META"} /\ cmd["up2"] = "SEND_FILE_OP"
  BY <1>1
<1>3. cmd = [o \in Opener |-> cmd[o]]
  BY <1>1 DEF Opener
<1>4. \A o \in Opener : cmd[o] \in Command \union {"NONE"}
  BY <1>2 DEF Opener, Command
<1>5. cmd \in [Opener -> Command \union {"NONE"}]
  BY <1>3, <1>4
<1>6. Asked
  BY <1>2 DEF Asked, Opener
<1>7. SessionTypeOK
  <2>1. program \in Programs /\ is_control_plane \in BOOLEAN
    BY DEF SessionInit
  <2>2. toH \in [Opener -> Seq(Msg)] /\ toO \in [Opener -> Seq(Msg)]
    BY DEF SessionInit
  <2>3. Types /\ \A o \in Opener : HasNode(o)
    BY <2>2 DEF SessionInit, Types, HasNode, OpenerState, HandlerState, Qp
  <2> QED BY <1>5, <2>1, <2>3 DEF SessionTypeOK, Types, HasNode, OpenerState, HandlerState
<1>8. \A o \in Opener : Fitting(o)
  BY DEF SessionInit, Fitting, InTransit, OpenerFits, HandlerFits, AtRest, Connected
<1> QED BY <1>6, <1>7, <1>8 DEF SessionIInv

LEMMA SessionStep == SessionIInv /\ [SessionNext]_sessionVars => SessionIInv'
<1> SUFFICES ASSUME SessionIInv, [SessionNext]_sessionVars PROVE SessionIInv'
  OBVIOUS
<1>1. CASE UNCHANGED sessionVars
  <2>1. UNCHANGED setting /\ UNCHANGED <<toH, toO, opener, handler, rdma, failed>>
    BY <1>1 DEF sessionVars
  <2>2. Types'
    BY <2>1, TypesOf DEF Types, SessionIInv
  <2>3. \A p \in Opener : Fitting(p)' /\ HasNode(p)'
    BY <2>1, HereFacts, OthersFit DEF HasNode
  <2> QED BY <2>1, <2>2, <2>3, AllFit
<1>2. CASE SessionNext
  <2>1. UNCHANGED setting
    BY <1>2 DEF SessionNext
  <2>2. ASSUME NEW o \in Opener, OpenerNext(o) \/ Answer(o)
        PROVE  SessionIInv'
    BY <2>1, <2>2, ConnectFits, ReadReadyFits, SendAttrFits, ReadAttrFits, AnswerFits DEF OpenerNext
  <2>3. ASSUME NEW o \in Opener, ServerNext(o)
        PROVE  SessionIInv'
    BY <2>1, <2>3, AcceptFits, OnBeginFits, OnCommandFits, LastReadFits, OnOtherFits,
       TakeAttrFits, MethodReturnsFits DEF ServerNext
  <2>4. ASSUME NEW u \in Opener \ {"client"}, ProxyNext(u) \/ Released(u)
        PROVE  SessionIInv'
    BY <2>1, <2>2, <2>4, AskFits, OpenerMovesOn DEF ProxyNext
  <2>5. CASE FaultNext
    BY <2>1, <2>5, StopFits, MethodRaisesFits DEF FaultNext, Opener
  <2>6. CASE ClientNext \/ UpstreamOpen \/ RelayReturns
    BY <2>1, <2>2, <2>6, ClientReturnFits, UpstreamOpenFits, RelayReturnsFits DEF ClientNext, Opener
  <2> QED BY <1>2, <2>3, <2>4, <2>5, <2>6 DEF SessionNext
<1> QED BY <1>1, <1>2

\* The invariant of a session, for any of the programs, with or without faults.
THEOREM SessionInvariance == SessionSpec => []SessionIInv
BY SessionBegins, SessionStep, PTL DEF SessionSpec

\* The state of both ends of every connection stays in its type: among others, a
\* handler beyond its set-up has a node.
THEOREM SessionTypeCorrect == SessionSpec => []SessionTypeOK
<1>1. SessionIInv => SessionTypeOK
  BY DEF SessionIInv
<1> QED BY <1>1, SessionInvariance, PTL

\* No recv can run two messages of SocketClient and HandleServer together: there
\* is never a second one to be read.
THEOREM OneUnreadCorrect == SessionSpec => []OneUnread
<1>1. ASSUME SessionIInv, NEW o \in Opener
      PROVE  Len(toH[o]) <= 1 /\ Len(toO[o]) <= 1
  <2>1. InTransit(o)
    BY <1>1 DEF SessionIInv, Fitting
  <2>2. /\ toH[o] = <<>> \/ \E m \in Msg : toH[o] = <<m>>
        /\ toO[o] = <<>> \/ \E m \in Msg : toO[o] = <<m>>
    BY <2>1 DEF InTransit
  <2>3. ASSUME NEW s, s = <<>> \/ \E m \in Msg : s = <<m>>
        PROVE  Len(s) <= 1
    <3>1. CASE s = <<>>
      BY <3>1
    <3>2. ASSUME NEW m \in Msg, s = <<m>>
          PROVE  Len(s) = 1
      BY <3>2
    <3> QED BY <2>3, <3>1, <3>2
  <2> QED BY <2>2, <2>3
<1>2. SessionIInv => OneUnread
  BY <1>1 DEF OneUnread
<1> QED BY <1>2, SessionInvariance, PTL

\* The methods of SocketNode run on connected queue pairs, none of which is used
\* after its close, and a handler that ends leaves none open.
THEOREM NodeLifetimeCorrect == SessionSpec => []NodeLifetime
<1>1. SessionIInv => NodeLifetime
  BY DEF SessionIInv, Fitting, OpenerFits, HandlerFits, NodeLifetime, Connected
<1> QED BY <1>1, SessionInvariance, PTL

\* No step of an opener touches a handler that is in its loop, ...
LEMMA FailureLeaves ==
  ASSUME SessionIInv, NEW o \in Opener, handler[o].pc = "loop", NEW p \in Opener, OpenerFails(p),
         p # "client" => MayOpen(p)
  PROVE  handler'[o] = handler[o]
<1>1. CASE p = "client"
  BY <1>1 DEF OpenerFails
<1>2. CASE p # "client"
  <2>1. handler["client"].pc = "upstream" /\ handler' = [handler EXCEPT !["client"].pc = "done"]
    BY <1>2 DEF OpenerFails, MayOpen
  <2>2. o # "client"
    BY <2>1
  <2> QED BY <2>1, <2>2, HereFacts DEF Types
<1> QED BY <1>1, <1>2

\* ... and what its recv returns is b''.
LEMMA GoneReads ==
  ASSUME SessionIInv, NEW o \in Opener, toH[o] = <<>>, toO[o] = <<>>,
         NEW r \in HandlerRecv(o)
  PROVE  r.msg = "eof"
<1>1. <<r.msg>> # <<>>
  OBVIOUS
<1> QED BY <1>1, HandlerReceives

LEMMA GoneStays ==
  ASSUME SessionIInv, SessionNext, NEW o \in Opener, handler[o].pc = "loop",
         toH[o] = <<>>, toO[o] = <<>>
  PROVE  handler'[o] = handler[o]
<1>1. handler[o] \in HandlerState /\ handler \in [Opener -> HandlerState]
  BY HereFacts DEF Types
<1>2. ASSUME NEW p \in Opener, OpenerNext(p) \/ Answer(p) \/ Refused(p)
      PROVE  handler'[o] = handler[o]
  BY <1>2, FailureLeaves
     DEF OpenerNext, Connect, SendAttr, ReadReady, ReadAttr, OpenerReads, Answer, Refused
<1>3. ASSUME NEW p \in Opener, ServerNext(p) \/ MethodRaises(p)
      PROVE  handler'[o] = handler[o]
  <2>1. CASE p # o
    <3>1. ASSUME NEW s, handler' = [handler EXCEPT ![p] = s]
          PROVE  handler'[o] = handler[o]
      BY <1>1, <2>1, <3>1
    <3>2. \E s : handler' = [handler EXCEPT ![p] = s]
      BY <1>3 DEF ServerNext, MethodRaises, Accept, OnBegin, OnCommand, OnDone, OnReset, OnOther,
                  TakeAttr, AttrRaises, MethodReturns, Raise, Ends, Goes
    <3> QED BY <3>1, <3>2
  <2>2. CASE p = o
    <3>1. OnOther(o)
      BY <1>3, <2>2, GoneReads DEF ServerNext, MethodRaises, Accept, OnBegin, OnCommand, OnDone,
           OnReset, TakeAttr, AttrRaises, MethodReturns, Reads, Command
    <3>2. handler' = [handler EXCEPT ![o] = [@ EXCEPT !.pc = "loop"]]
      BY <3>1 DEF OnOther, Goes
    <3>3. [handler[o] EXCEPT !.pc = "loop"] = handler[o]
      BY <1>1 DEF HandlerState
    <3> QED BY <1>1, <3>2, <3>3
  <2> QED BY <2>1, <2>2
<1>4. ASSUME NEW p \in Opener \ {"client"}, ProxyNext(p) \/ Released(p)
      PROVE  handler'[o] = handler[o]
  BY <1>2, <1>4 DEF ProxyNext, Ask, ProxyHas, Released
<1>5. CASE ClientNext \/ UpstreamOpen \/ RelayReturns
  <2>1. CASE ClientNext
    BY <1>2, <2>1 DEF ClientNext, ClientReturn, Opener
  <2>2. CASE UpstreamOpen \/ RelayReturns
    BY <1>1, <2>2 DEF UpstreamOpen, RelayReturns, Relaying, Goes
  <2> QED BY <1>5, <2>1, <2>2
<1>6. CASE FaultNext
  BY <1>2, <1>3, <1>6, FailureLeaves DEF FaultNext, ClientCrash, Opener
<1> QED BY <1>3, <1>4, <1>5, <1>6 DEF SessionNext

\* The loop of HandleServer.handle has no branch for the b'' of a client that has
\* gone: no step of anybody takes such a handler out of it.
THEOREM GoneUnnoticedCorrect == SessionSpec => GoneUnnoticed
<1> DEFINE Spins(o) == handler[o].pc = "loop" /\ o \in ClosedO /\ toH[o] = <<>> /\ toO[o] = <<>>
<1>1. SessionIInv /\ [SessionNext]_sessionVars =>
        [\A o \in Opener : Spins(o) => handler'[o] = handler[o]]_sessionVars
  BY GoneStays
<1>2. SessionSpec => [][\A o \in Opener : Spins(o) => handler'[o] = handler[o]]_sessionVars
  BY <1>1, SessionInvariance, PTL DEF SessionSpec
<1> QED BY <1>2 DEF GoneUnnoticed
=============================================================================
