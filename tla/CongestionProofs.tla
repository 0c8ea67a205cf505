-------------------------- MODULE CongestionProofs ---------------------------
(***************************************************************************)
(* For every number of packets, set of feigned losses and count of turns:  *)
(* the types hold, and the transfer implements Transfer, so packets are    *)
(* accepted in order and what the client takes for acknowledged has been   *)
(* accepted.  The inductive invariant Inv says where the ids in the two    *)
(* streams come from: a packet under way has been sent, and the answers    *)
(* under way ascend from the last one the client saw to the last accepted. *)
(* For the window, the count of losses and the server's turns, Progress    *)
(* says how far the transfer is: the client and the server take turns, and *)
(* between two losses the window has had time to grow and to recover.      *)
(***************************************************************************)
EXTENDS Congestion, SequenceTheorems, FiniteSetTheorems, TLAPS

SentBefore == \A k \in DOMAIN toServer : toServer[k].id \in packetBuffer

Ascending(s) == \A j, k \in DOMAIN s : j < k => s[j].id <= s[k].id
AnswersAscend ==
  /\ Ascending(toClient)
  /\ \A k \in DOMAIN toClient : lastAckId <= toClient[k].id /\ toClient[k].id <= lastPacketId
  /\ lastAckId <= lastPacketId /\ lastPacketId >= 1
  /\ server = SYN => toClient = <<>> /\ lastAckId = -1

Inv == TypeOK /\ SentBefore /\ AnswersAscend

-----------------------------------------------------------------------------
(* The streams.                                                            *)
LEMMA Popped ==
  ASSUME NEW s \in Seq(Message), s # <<>>
  PROVE  /\ Head(s) \in Message /\ Tail(s) \in Seq(Message)
         /\ 1 \in DOMAIN s /\ Head(s) = s[1]
         /\ \A k \in DOMAIN Tail(s) : k \in Nat /\ k + 1 \in DOMAIN s /\ 1 < k + 1 /\ Tail(s)[k] = s[k + 1]
<1>1. /\ Tail(s) \in Seq(Message) /\ Head(s) = s[1] /\ Len(s) \in Nat \ {0}
      /\ DOMAIN s = 1..Len(s) /\ DOMAIN Tail(s) = 1..(Len(s) - 1)
      /\ \A j \in 1..(Len(s) - 1) : Tail(s)[j] = s[j + 1]
  BY HeadTailProperties, LenProperties, EmptySeq
<1>2. 1 \in DOMAIN s /\ s[1] \in Message
  BY <1>1
<1> QED
  BY <1>1, <1>2

LEMMA Appended ==
  ASSUME NEW s \in Seq(Message), NEW m \in Message
  PROVE  /\ Append(s, m) \in Seq(Message)
         /\ \A k \in DOMAIN Append(s, m) :
              \/ k \in DOMAIN s /\ Append(s, m)[k] = s[k]
              \/ k = Len(s) + 1 /\ Append(s, m)[k] = m
         /\ \A k \in DOMAIN s : k \in Nat /\ k < Len(s) + 1
         /\ Len(s) \in Nat
  BY AppendProperties, LenProperties

(* What is left of a stream after a recv of n messages.                    *)
LEMMA Cut ==
  ASSUME NEW s \in Seq(Message), NEW n \in DOMAIN s
  PROVE  /\ After(s, n) \in Seq(Message)
         /\ \A k \in DOMAIN After(s, n) : k + n \in DOMAIN s /\ After(s, n)[k] = s[k + n]
         /\ s # <<>> /\ Received(s, n).id = s[1].id /\ 1 \in DOMAIN s
<1>1. /\ Len(s) \in Nat /\ DOMAIN s = 1..Len(s) /\ n \in 1..Len(s)
      /\ \A k \in DOMAIN s : s[k] \in Message
  BY LenProperties, ElementOfSeq
<1>2. /\ After(s, n) \in Seq(Message) /\ Len(After(s, n)) = Len(s) - n
      /\ \A k \in 1..(Len(s) - n) : After(s, n)[k] = s[k + n]
  <2> DEFINE t == [k \in 1..(Len(s) - n) |-> s[k + n]]
  <2>1. After(s, n) = t
    BY <1>1 DEF After
  <2>2. \A k \in 1..(Len(s) - n) : k + n \in DOMAIN s
    BY <1>1
  <2>3. Len(s) - n \in Nat
    BY <1>1
  <2>4. t \in Seq(Message) /\ Len(t) = Len(s) - n
    BY <1>1, <2>2, <2>3
  <2> QED
    BY <2>1, <2>4
<1>3. DOMAIN After(s, n) = 1..(Len(s) - n)
  BY <1>2, LenProperties
<1>4. s # <<>> /\ 1 \in DOMAIN s
  BY <1>1
<1> QED
  BY <1>1, <1>2, <1>3, <1>4 DEF Received

-----------------------------------------------------------------------------
(* CongestionControl keeps the types of its members.                       *)
ControlType ==
  [state : {SlowStart, Avoidance, Recovery}, cwnd : Nat, ssthresh : Nat, dupAcks : Nat]

LEMMA Halves == \A n \in Nat : n \div 2 \in Nat
OBVIOUS

LEMMA Wraps == \A n \in Nat : (n + Wrap - 1) % Wrap \in Nat
<1>1. Wrap \in Nat /\ Wrap > 0
  BY CongestionAssumption
<1>2. \A n \in Nat : n + Wrap - 1 \in Nat
  BY <1>1
<1>3. \A n \in Nat : n % Wrap \in 0..(Wrap - 1)
  BY <1>1
<1> QED
  BY <1>1, <1>2, <1>3

LEMMA ControlTyped ==
  ASSUME NEW c \in ControlType, NEW isDuplicateAck \in BOOLEAN, NEW lossCount \in Nat
  PROVE  OnPacketAcked(c, isDuplicateAck, lossCount) \in ControlType /\ OnTimeout(c) \in ControlType
<1>1. \A d \in ControlType : EnterFastRecovery(d) \in ControlType
  <2> SUFFICES ASSUME NEW d \in ControlType PROVE EnterFastRecovery(d) \in ControlType
    OBVIOUS
  <2>1. d.cwnd \div 2 \in Nat /\ d.cwnd \div 2 + 3 \in Nat
    BY Halves DEF ControlType
  <2> DEFINE half == d.cwnd \div 2
             more == d.cwnd \div 2 + 3
  <2>2. EnterFastRecovery(d) = [d EXCEPT !.ssthresh = half, !.cwnd = more, !.state = Recovery]
    BY DEF EnterFastRecovery
  <2> HIDE DEF half, more
  <2> QED
    BY <2>1, <2>2 DEF ControlType, half, more
<1>2. \A d \in ControlType : ExitFastRecovery(d) \in ControlType
  BY Wraps DEF ExitFastRecovery, ControlType
<1>3. \A d \in ControlType : [d EXCEPT !.cwnd = @ + 1] \in ControlType
  BY DEF ControlType
<1>4. \A d \in ControlType : Grow(d) \in ControlType
  <2> SUFFICES ASSUME NEW d \in ControlType PROVE Grow(d) \in ControlType
    OBVIOUS
  <2>1. d.state = SlowStart \/ d.state = Avoidance \/ d.state = Recovery
    BY DEF ControlType
  <2>2. SlowStart # Avoidance /\ SlowStart # Recovery /\ Avoidance # Recovery
    BY DEF SlowStart, Avoidance, Recovery
  <2>3. CASE d.state = SlowStart
    <3>1. 2 * d.cwnd \in Nat
      BY DEF ControlType
    <3>2. \A s \in {SlowStart, Avoidance, Recovery} : \A n \in Nat :
            [d EXCEPT !.cwnd = n, !.state = s] \in ControlType
      BY DEF ControlType
    <3>3. Grow(d) = [d EXCEPT !.cwnd = 2 * d.cwnd,
                              !.state = IF 2 * d.cwnd >= d.ssthresh THEN Avoidance ELSE d.state]
      BY <2>2, <2>3 DEF Grow
    <3> QED
      BY <2>3, <3>1, <3>2, <3>3
  <2>4. CASE d.state = Avoidance
    BY <1>3, <2>2, <2>4 DEF Grow
  <2>5. CASE d.state = Recovery
    BY <2>2, <2>5 DEF Grow
  <2> QED
    BY <2>1, <2>3, <2>4, <2>5
<1>5. OnDuplicate(c) \in ControlType
  <2> DEFINE d == [c EXCEPT !.dupAcks = @ + 1]
  <2>1. d \in ControlType
    BY DEF ControlType
  <2> HIDE DEF d
  <2>2. CASE d.state = Recovery
    BY <1>3, <2>1, <2>2 DEF OnDuplicate, d
  <2>3. CASE d.state # Recovery /\ d.dupAcks = 3
    BY <1>1, <2>1, <2>3 DEF OnDuplicate, d
  <2>4. CASE d.state # Recovery /\ d.dupAcks # 3
    BY <2>1, <2>4 DEF OnDuplicate, d
  <2> QED
    BY <2>2, <2>3, <2>4
<1>6. OnNewAck(c, lossCount) \in ControlType
  <2> DEFINE d == [c EXCEPT !.dupAcks = 0]
             e == CASE d.state = Recovery /\ lossCount <= 0 -> ExitFastRecovery(d)
                    [] d.state = Recovery /\ lossCount > 0  -> [d EXCEPT !.cwnd = @ + 1]
                    [] d.state # Recovery                   -> d
  <2>1. d \in ControlType
    BY DEF ControlType
  <2> HIDE DEF d
  <2>2. CASE d.state = Recovery /\ lossCount <= 0
    <3>1. e = ExitFastRecovery(d)
      BY <2>2
    <3> QED
      BY <1>2, <1>4, <2>1, <3>1 DEF OnNewAck, d
  <2>3. CASE d.state = Recovery /\ lossCount > 0
    <3>1. e = [d EXCEPT !.cwnd = @ + 1]
      BY <2>3
    <3> QED
      BY <1>3, <1>4, <2>1, <3>1 DEF OnNewAck, d
  <2>4. CASE d.state # Recovery
    <3>1. e = d
      BY <2>4
    <3> QED
      BY <1>4, <2>1, <3>1 DEF OnNewAck, d
  <2>5. lossCount <= 0 \/ lossCount > 0
    OBVIOUS
  <2> QED
    BY <2>2, <2>3, <2>4, <2>5
<1>7. OnTimeout(c) \in ControlType
  BY Halves DEF OnTimeout, ControlType
<1> QED
  BY <1>5, <1>6, <1>7 DEF OnPacketAcked

-----------------------------------------------------------------------------
(* Every step keeps the invariant and is a step of Transfer or a stutter.  *)
Maps == [Promise!Next]_Promise!vars
Keeps == Inv' /\ Maps

(* The type invariant, one conjunct for each variable. *)
TypeParts ==
  /\ toServer \in Seq(Message) /\ toClient \in Seq(Message)
  /\ client \in {"connect", "handshake", "send", "recv", "done", "died"}
  /\ server \in {SYN, ACK, "loop", "closed", "down"}
  /\ i \in Nat /\ packetId \in Nat /\ losses \in Nat /\ lastPacketId \in Nat /\ severed \in Nat
  /\ lastAckId \in Nat \cup {-1}
  /\ packetBuffer \subseteq Nat /\ dropped \subseteq Dropped
  /\ round \in 0..Rounds
  /\ cc \in ControlType
  /\ garbled \in BOOLEAN

LEMMA Types == (TypeOK <=> TypeParts) /\ (TypeOK' <=> TypeParts')
<1>1. TypeOK <=> TypeParts
  BY DEF TypeOK, TypeParts, ControlType
<1> QED
  BY <1>1, PTL

LEMMA SentTypes ==
  ASSUME Inv, NEW message \in {SYN, ACK, DEFAULT_MESSAGE}, NEW next, SendTo(message, next)
  PROVE  /\ toServer' \in Seq(Message) /\ severed' \in Nat /\ packetId' \in Nat
         /\ packetBuffer' \subseteq Nat
         /\ client' \in {next, "died"}
         /\ SentBefore'
         /\ packetBuffer' = packetBuffer \cup {packetId} /\ packetId \in packetBuffer'
<1>1. /\ toServer \in Seq(Message) /\ severed \in Nat /\ packetId \in Nat
      /\ packetBuffer \subseteq Nat
  BY Types DEF Inv, TypeParts
<1>2. /\ packetBuffer' = packetBuffer \cup {packetId} /\ packetId' = packetId + 1
  BY DEF SendTo
<1> DEFINE m == [id |-> packetId, data |-> message]
<1>3. m \in Message /\ m.id = packetId
  BY <1>1 DEF Message
<1>4. \/ severed' = severed + 1 /\ toServer' = toServer
      \/ toServer' = Append(toServer, m) /\ severed' = severed
  BY DEF SendTo
<1>5. client' \in {next, "died"}
  BY DEF SendTo
<1> HIDE DEF m
<1>6. toServer' \in Seq(Message) /\ severed' \in Nat
  BY <1>1, <1>3, <1>4, Appended
<1>7. SentBefore'
  <2>1. CASE toServer' = toServer
    BY <1>2, <2>1 DEF Inv, SentBefore
  <2>2. CASE toServer' = Append(toServer, m)
    BY <1>1, <1>2, <1>3, <2>2, Appended DEF Inv, SentBefore
  <2> QED
    BY <1>4, <2>1, <2>2
<1> QED
  BY <1>1, <1>2, <1>5, <1>6, <1>7

LEMMA Sending ==
  ASSUME Inv, NEW message \in {SYN, ACK, DEFAULT_MESSAGE},
         NEW next \in {"handshake", "send", "recv"}, SendTo(message, next),
         UNCHANGED <<i, lastAckId, losses, cc, receiver>>,
         garbled' \in BOOLEAN,
         toClient' = toClient \/ (toClient # <<>> /\ toClient' = Tail(toClient))
  PROVE  Keeps
<1>1. /\ toServer' \in Seq(Message) /\ severed' \in Nat /\ packetId' \in Nat
      /\ packetBuffer' \subseteq Nat
      /\ client' \in {next, "died"}
      /\ SentBefore'
      /\ packetBuffer' = packetBuffer \cup {packetId} /\ packetId \in packetBuffer'
  BY SentTypes
<1>2. toClient \in Seq(Message)
  BY Types DEF Inv, TypeParts
<1>3. toClient' \in Seq(Message)
  BY <1>2, Popped
<1>4. TypeOK'
  <2>1. UNCHANGED <<i, lastAckId, losses, cc, server, round, lastPacketId, dropped>>
    BY DEF receiver
  <2>2. client' \in {"connect", "handshake", "send", "recv", "done", "died"}
    BY <1>1
  <2> QED
    BY <1>1, <1>3, <2>1, <2>2, Types DEF Inv, TypeParts
<1>5. AnswersAscend'
  <2>1. UNCHANGED <<lastAckId, lastPacketId, server>>
    BY DEF receiver
  <2>2. CASE toClient' = toClient
    BY <2>1, <2>2 DEF Inv, AnswersAscend, Ascending
  <2>3. CASE toClient # <<>> /\ toClient' = Tail(toClient)
    BY <1>2, <2>1, <2>3, Popped DEF Inv, AnswersAscend, Ascending
  <2> QED
    BY <2>2, <2>3
<1>6. Maps
  BY <1>1 DEF Maps, Promise!Next, Promise!Send, receiver
<1> QED
  BY <1>1, <1>4, <1>5, <1>6 DEF Keeps, Inv

LEMMA ClientKeeps ==
  ASSUME Inv, Client
  PROVE  Keeps
<1>1. TypeParts /\ SentBefore /\ AnswersAscend
  BY Types DEF Inv
<1>2. CASE Connect
  BY <1>1, <1>2, Sending DEF Connect, TypeParts
<1>3. CASE Handshake
  <2>1. garbled' \in BOOLEAN
    BY <1>1, <1>3 DEF Handshake, Reads, TypeParts
  <2>2. CASE SendTo(ACK, "send")
    BY <1>3, <2>1, <2>2, Sending DEF Handshake
  <2>3. CASE client' = "send" /\ UNCHANGED <<packetBuffer, packetId, toServer, severed>>
    <3>1. /\ toClient # <<>> /\ toClient' = Tail(toClient)
          /\ UNCHANGED <<i, lastAckId, losses, cc, server, round, lastPacketId, dropped>>
      BY <1>3 DEF Handshake, receiver
    <3>2. TypeOK' /\ SentBefore'
      BY <1>1, <2>1, <2>3, <3>1, Types, Popped DEF TypeParts, SentBefore
    <3>3. toClient \in Seq(Message)
      BY <1>1 DEF TypeParts
    <3>4. AnswersAscend'
      BY <1>1, <3>1, <3>3, Popped DEF AnswersAscend, Ascending
    <3> QED
      BY <2>3, <3>1, <3>2, <3>4 DEF Keeps, Inv, Maps, Promise!vars
  <2> QED
    BY <1>3, <2>2, <2>3 DEF Handshake
<1>4. CASE SendData
  BY <1>1, <1>4, Sending DEF SendData, TypeParts
<1>5. CASE ReceiveAck
  <2> DEFINE id == Head(toClient).id
             isDup == id = lastAckId
             count == LossCount(losses, isDup)
             new == OnPacketAcked(cc, isDup, count)
             back == GoesBack(isDup, new)
  <2>1. /\ toClient \in Seq(Message) /\ toClient # <<>> /\ losses \in Nat /\ i \in Nat
        /\ packetId \in Nat /\ cc \in ControlType
    BY <1>1, <1>5 DEF ReceiveAck, TypeParts
  <2>2. id \in Nat /\ id = toClient[1].id /\ 1 \in DOMAIN toClient
    BY <2>1, Popped DEF Message
  <2>3. /\ toClient' = Tail(toClient) /\ lastAckId' = id /\ losses' = count /\ cc' = new
        /\ packetId' = IF back THEN id + 1 ELSE packetId
        /\ i' = (IF back THEN id + 1 ELSE i) + 1
        /\ client' = "send"
        /\ UNCHANGED <<toServer, packetBuffer, server, round, lastPacketId, dropped,
                       garbled, severed>>
    BY <1>5 DEF ReceiveAck, receiver
  <2>4. count \in Nat /\ isDup \in BOOLEAN
    BY <2>1 DEF LossCount
  <2>5. new \in ControlType
    BY <2>1, <2>4, ControlTyped
  <2> HIDE DEF id, isDup, count, new, back
  <2>6. packetId' \in Nat /\ i' \in Nat
    BY <2>1, <2>2, <2>3
  <2>7. toClient' \in Seq(Message)
    BY <2>1, <2>3, Popped
  <2>8. TypeOK' /\ SentBefore'
    BY <1>1, <2>2, <2>3, <2>4, <2>5, <2>6, <2>7, Types DEF TypeParts, SentBefore
  <2>9. \A k \in DOMAIN toClient' : id <= toClient'[k].id
    <3> SUFFICES ASSUME NEW k \in DOMAIN toClient' PROVE id <= toClient'[k].id
      OBVIOUS
    <3>1. k + 1 \in DOMAIN toClient /\ 1 < k + 1 /\ toClient'[k] = toClient[k + 1]
      BY <2>1, <2>3, Popped
    <3> QED
      BY <1>1, <2>2, <3>1 DEF AnswersAscend, Ascending
  <2>10. AnswersAscend'
    BY <1>1, <2>1, <2>2, <2>3, <2>9, Popped DEF AnswersAscend, Ascending
  <2>11. Maps
    <3>1. lastAckId \in Int /\ lastPacketId \in Nat /\ lastAckId <= id /\ id <= lastPacketId
      BY <1>1, <2>2 DEF AnswersAscend, TypeParts
    <3>2. CASE id = lastAckId
      BY <2>3, <3>2 DEF Maps, Promise!vars
    <3>3. CASE id # lastAckId
      <4>1. id \in (lastAckId + 1)..lastPacketId
        BY <2>2, <3>1, <3>3
      <4> QED
        BY <2>3, <4>1 DEF Maps, Promise!Next, Promise!Acknowledge
    <3> QED
      BY <3>2, <3>3
  <2> QED
    BY <2>8, <2>10, <2>11 DEF Keeps, Inv
<1>6. CASE Timeout
  <2>1. cc' \in ControlType /\ i' \in Nat /\ client' = "send"
    BY <1>1, <1>6, ControlTyped DEF Timeout, TypeParts
  <2>2. UNCHANGED <<toServer, toClient, packetId, lastAckId, packetBuffer, losses, server,
                    round, lastPacketId, dropped, garbled, severed>>
    BY <1>6 DEF Timeout, receiver
  <2>3. TypeOK'
    BY <1>1, <2>1, <2>2, Types DEF TypeParts
  <2> QED
    BY <1>1, <2>2, <2>3 DEF Keeps, Inv, Maps, Promise!vars, SentBefore, AnswersAscend, Ascending
<1>7. CASE HandshakeRefused \/ Finish
  <2>1. client' \in {"died", "done"} /\
        UNCHANGED <<toServer, toClient, i, packetId, lastAckId, packetBuffer, losses, cc, server,
                    round, lastPacketId, dropped, garbled, severed>>
    BY <1>7 DEF HandshakeRefused, Finish, receiver
  <2>2. TypeOK'
    BY <1>1, <2>1, Types DEF TypeParts
  <2> QED
    BY <1>1, <2>1, <2>2 DEF Keeps, Inv, Maps, Promise!vars, SentBefore, AnswersAscend, Ascending
<1> QED
  BY <1>2, <1>3, <1>4, <1>5, <1>6, <1>7 DEF Client

(* An answer goes behind those under way.                                  *)
LEMMA Answering ==
  ASSUME Inv, NEW id \in Nat, NEW message \in {SYN_ACK, ACK}, Answer(id, message),
         server' # SYN, UNCHANGED lastAckId, id <= lastPacketId',
         lastPacketId <= lastPacketId', lastPacketId' \in Nat,
         server = SYN \/ lastPacketId <= id
  PROVE  toClient' \in Seq(Message) /\ AnswersAscend'
<1> DEFINE m == [id |-> id, data |-> message]
<1>1. m \in Message /\ m.id = id /\ toClient' = Append(toClient, m)
  BY DEF Message, Answer
<1> HIDE DEF m
<1>2. /\ toClient \in Seq(Message) /\ lastAckId \in Nat \cup {-1} /\ lastPacketId \in Nat
      /\ AnswersAscend
  BY Types DEF Inv, TypeParts
<1>3. \A k \in DOMAIN toClient : toClient[k].id \in Nat /\ toClient[k].id <= id
  <2>1. \A k \in DOMAIN toClient : toClient[k].id \in Nat /\ toClient[k].id <= lastPacketId
    <3>1. \A k \in DOMAIN toClient : toClient[k] \in Message
      BY <1>2
    <3> QED
      BY <1>2, <3>1 DEF AnswersAscend, Message
  <2>2. CASE server = SYN
    <3>1. DOMAIN toClient = {}
      BY <1>2, <2>2, EmptySeq DEF AnswersAscend
    <3> QED
      BY <3>1
  <2>3. CASE lastPacketId <= id
    BY <1>2, <2>1, <2>3
  <2> QED
    BY <2>2, <2>3
<1>4. lastAckId <= id
  BY <1>2 DEF AnswersAscend
<1>5. Ascending(toClient')
  BY <1>1, <1>2, <1>3, Appended DEF AnswersAscend, Ascending
<1>6. \A k \in DOMAIN toClient' : lastAckId <= toClient'[k].id /\ toClient'[k].id <= lastPacketId'
  BY <1>1, <1>2, <1>3, <1>4, Appended DEF AnswersAscend
<1>7. lastAckId <= lastPacketId' /\ lastPacketId' >= 1
  BY <1>2 DEF AnswersAscend
<1>8. toClient' \in Seq(Message)
  BY <1>1, <1>2, Appended
<1> QED
  BY <1>5, <1>6, <1>7, <1>8 DEF AnswersAscend

LEMMA ServerKeeps ==
  ASSUME Inv, Server
  PROVE  Keeps
<1>1. TypeParts /\ SentBefore /\ AnswersAscend
  BY Types DEF Inv
<1>2. toServer \in Seq(Message)
  BY <1>1 DEF TypeParts
<1>3. SYN # ACK /\ SYN \notin {"loop", "closed", "down"}
  BY DEF SYN, ACK
<1>4. CASE ReceiveSYN
  <2>1. /\ server = SYN /\ toServer # <<>> /\ toServer' = Tail(toServer)
        /\ UNCHANGED <<client, i, packetId, lastAckId, packetBuffer, losses, cc, round,
                       lastPacketId, dropped, severed>>
        /\ \/ server' = ACK /\ Answer(0, SYN_ACK)
           \/ server' = "closed" /\ UNCHANGED toClient
    BY <1>4 DEF ReceiveSYN, sender
  <2>2. garbled' \in BOOLEAN
    BY <1>1, <1>4 DEF ReceiveSYN, Reads, TypeParts
  <2>3. lastPacketId \in Nat
    BY <1>1 DEF TypeParts
  <2>4. toClient' \in Seq(Message) /\ AnswersAscend'
    <3>1. CASE server' = ACK /\ Answer(0, SYN_ACK)
      BY <1>3, <2>1, <2>3, <3>1, Answering
    <3>2. CASE server' = "closed" /\ UNCHANGED toClient
      BY <1>1, <1>3, <2>1, <3>2 DEF AnswersAscend, Ascending, TypeParts
    <3> QED
      BY <2>1, <3>1, <3>2
  <2>5. toServer' \in Seq(Message) /\ SentBefore'
    BY <1>1, <1>2, <2>1, Popped DEF SentBefore
  <2>6. TypeOK'
    BY <1>1, <2>1, <2>2, <2>4, <2>5, Types DEF TypeParts
  <2> QED
    BY <2>1, <2>4, <2>5, <2>6 DEF Keeps, Inv, Maps, Promise!vars
<1>5. CASE ReceiveACK
  <2>1. PICK n \in DOMAIN toServer :
          /\ toServer' = After(toServer, n)
          /\ server' \in {"loop", "closed"} /\ garbled' \in BOOLEAN
    BY <1>1, <1>5 DEF ReceiveACK, Reads, TypeParts
  <2>2. UNCHANGED <<toClient, client, i, packetId, lastAckId, packetBuffer, losses, cc, round,
                    lastPacketId, dropped, severed>>
    BY <1>5 DEF ReceiveACK, sender
  <2>3. toServer' \in Seq(Message) /\ SentBefore'
    BY <1>1, <1>2, <2>1, <2>2, Cut DEF SentBefore
  <2>4. TypeOK' /\ AnswersAscend'
    BY <1>1, <1>3, <2>1, <2>2, <2>3, Types DEF TypeParts, AnswersAscend, Ascending
  <2> QED
    BY <2>2, <2>3, <2>4 DEF Keeps, Inv, Maps, Promise!vars
<1>6. CASE ReceiveData
  <2>1. /\ server = "loop" /\ round < Rounds /\ round' = round + 1
        /\ UNCHANGED <<server, client, i, packetId, lastAckId, packetBuffer, losses, cc, severed>>
    BY <1>6 DEF ReceiveData, sender
  <2>2. PICK n \in DOMAIN toServer, equal \in BOOLEAN :
          LET packet == Received(toServer, n)
              next   == InOrder(packet.id)
              ignore == next /\ Ignored(packet.id)
          IN
          /\ toServer' = After(toServer, n)
          /\ Reads(packet, DEFAULT_MESSAGE, equal)
          /\ dropped' = IF equal /\ ignore THEN dropped \cup {packet.id} ELSE dropped
          /\ lastPacketId' = IF equal /\ next /\ ~ignore THEN packet.id ELSE lastPacketId
          /\ IF equal THEN Answer(lastPacketId', ACK) ELSE UNCHANGED toClient
    BY <1>6 DEF ReceiveData
  <2> DEFINE id == Received(toServer, n).id
  <2>3. id \in packetBuffer /\ id \in Nat
    <3>1. id = toServer[1].id /\ 1 \in DOMAIN toServer
      BY <1>2, Cut
    <3> QED
      BY <1>1, <3>1 DEF SentBefore, TypeParts
  <2>4. /\ toServer' = After(toServer, n)
        /\ dropped' = dropped \/ (dropped' = dropped \cup {id} /\ id \in Dropped)
        /\ garbled' \in BOOLEAN
        /\ lastPacketId' = lastPacketId \/ (lastPacketId' = id /\ id = lastPacketId + 1)
        /\ Answer(lastPacketId', ACK) \/ (UNCHANGED toClient /\ lastPacketId' = lastPacketId)
    BY <1>1, <2>2 DEF Ignored, InOrder, Reads, TypeParts
  <2> HIDE DEF id
  <2>5. lastPacketId \in Nat /\ lastPacketId' \in Nat /\ lastPacketId <= lastPacketId'
    BY <1>1, <2>3, <2>4 DEF TypeParts
  <2>6. toServer' \in Seq(Message) /\ SentBefore'
    BY <1>1, <1>2, <2>1, <2>4, Cut DEF SentBefore
  <2>7. toClient' \in Seq(Message) /\ AnswersAscend'
    <3>1. CASE Answer(lastPacketId', ACK)
      <4>1. server' # SYN
        BY <1>3, <2>1
      <4>2. PICK last \in Nat : last = lastPacketId'
        BY <2>5
      <4>3. Answer(last, ACK) /\ last <= lastPacketId' /\ lastPacketId <= last
        BY <2>5, <3>1, <4>2
      <4> QED
        BY <2>1, <2>5, <4>1, <4>3, Answering
    <3>2. CASE UNCHANGED toClient /\ lastPacketId' = lastPacketId
      BY <1>1, <2>1, <3>2 DEF AnswersAscend, Ascending, TypeParts
    <3> QED
      BY <2>4, <3>1, <3>2
  <2>8. TypeOK'
    <3>1. round' \in 0..Rounds
      BY <1>1, <2>1, CongestionAssumption DEF TypeParts
    <3>2. dropped' \subseteq Dropped
      BY <1>1, <2>4 DEF TypeParts
    <3> QED
      BY <1>1, <2>1, <2>4, <2>5, <2>6, <2>7, <3>1, <3>2, Types DEF TypeParts
  <2>9. Maps
    BY <2>1, <2>3, <2>4 DEF Maps, Promise!vars, Promise!Next, Promise!Accept
  <2> QED
    BY <2>6, <2>7, <2>8, <2>9 DEF Keeps, Inv
<1>7. CASE EndOfStream
  <2>1. server' = "down" /\
        UNCHANGED <<toServer, toClient, client, i, packetId, lastAckId, packetBuffer, losses, cc,
                    round, lastPacketId, dropped, garbled, severed>>
    BY <1>7 DEF EndOfStream, sender
  <2>2. TypeOK' /\ AnswersAscend'
    BY <1>1, <1>3, <2>1, Types DEF TypeParts, AnswersAscend, Ascending
  <2> QED
    BY <1>1, <2>1, <2>2 DEF Keeps, Inv, Maps, Promise!vars, SentBefore
<1> QED
  BY <1>4, <1>5, <1>6, <1>7 DEF Server

-----------------------------------------------------------------------------
(* The inductive invariant and the theorems.                               *)
LEMMA InitInv == Init => Inv /\ Promise!Init
<1> SUFFICES ASSUME Init PROVE Inv /\ Promise!Init
  OBVIOUS
<1>1. <<>> \in Seq(Message) /\ DOMAIN <<>> = {}
  BY EmptySeq
<1>2. NewControl \in ControlType
  BY CongestionAssumption DEF NewControl, ControlType
<1>3. 0 \in 0..Rounds
  BY CongestionAssumption
<1>4. TypeOK
  BY <1>1, <1>2, <1>3, Types DEF Init, TypeParts
<1>5. SentBefore /\ AnswersAscend
  BY <1>1 DEF Init, SentBefore, AnswersAscend, Ascending
<1>6. Promise!Init
  BY DEF Init, Promise!Init
<1> QED
  BY <1>4, <1>5, <1>6 DEF Inv

LEMMA NextInv == Inv /\ [Next]_vars => Inv' /\ [Promise!Next]_Promise!vars
<1> SUFFICES ASSUME Inv, [Next]_vars PROVE Keeps
  BY DEF Keeps, Maps
<1>1. CASE UNCHANGED vars
  <2>1. UNCHANGED <<toServer, toClient, client, i, packetId, lastAckId, packetBuffer, losses, cc,
                    server, round, lastPacketId, dropped, garbled, severed>>
    BY <1>1 DEF vars, sender, receiver
  <2>2. TypeOK'
    BY <2>1, Types DEF Inv, TypeParts
  <2> QED
    BY <2>1, <2>2 DEF Keeps, Inv, Maps, Promise!vars, SentBefore, AnswersAscend, Ascending
<1> QED
  BY <1>1, ClientKeeps, ServerKeeps DEF Next

LEMMA Invariance == Spec => []Inv
BY InitInv, NextInv, PTL DEF Spec

(* Types hold in every reachable state: the counters of both programs and  *)
(* the congestion window never go below zero.                              *)
THEOREM TypeCorrect == Spec => []TypeOK
BY Invariance, PTL DEF Inv

(* The server accepts packets in order, each once it was sent, and what    *)
(* the client takes for acknowledged has been accepted, however recv cuts  *)
(* the stream, whatever losses are feigned and comparisons garbled.        *)
THEOREM Refinement == Spec => InOrderAndAcknowledged
BY InitInv, NextInv, Invariance, PTL DEF Spec, InOrderAndAcknowledged, Promise!Spec

-----------------------------------------------------------------------------
(* What the answers make of the window.                                    *)
LEMMA Thirds ==
  /\ SlowStart # Avoidance /\ SlowStart # Recovery /\ Avoidance # Recovery
  /\ \A c \in ControlType : /\ c.state \in {SlowStart, Avoidance, Recovery}
                            /\ c.cwnd \in Nat /\ c.ssthresh \in Nat /\ c.dupAcks \in Nat
BY DEF SlowStart, Avoidance, Recovery, ControlType

(* ssthresh_ - 1 does not exceed its mathematical value.                   *)
LEMMA WrapsDown ==
  ASSUME NEW n \in Nat \ {0}
  PROVE  (n + Wrap - 1) % Wrap \in 0..(n - 1)
<1> DEFINE x == n + Wrap - 1
           q == x \div Wrap
           r == x % Wrap
<1>1. Wrap \in Nat /\ Wrap > 0 /\ x \in Nat
  BY CongestionAssumption
<1>2. r \in 0..(Wrap - 1) /\ q \in Nat /\ x = Wrap * q + r
  <2> HIDE DEF x
  <2> QED
    BY <1>1
<1>3. q >= 1
  <2> SUFFICES ASSUME q = 0 PROVE FALSE
    <3> HIDE DEF q
    <3> QED
      BY <1>2
  <2>1. Wrap * q = 0
    BY <1>1
  <2>2. x = r
    <3> HIDE DEF q, r, x
    <3> QED
      BY <1>1, <1>2, <2>1
  <2> HIDE DEF r
  <2> QED
    BY <1>1, <1>2, <2>2
<1>4. Wrap * q >= Wrap
  <2> HIDE DEF q
  <2>1. q - 1 \in Nat /\ Wrap * q = Wrap + Wrap * (q - 1)
    BY <1>1, <1>2, <1>3
  <2>2. Wrap * (q - 1) \in Nat
    BY <1>1, <2>1
  <2> QED
    BY <1>1, <2>1, <2>2
<1>5. r <= n - 1
  <2> HIDE DEF q, r
  <2>1. Wrap * q \in Nat
    BY <1>1, <1>2
  <2> DEFINE y == Wrap * q
  <2>2. y \in Nat /\ y >= Wrap /\ n + Wrap - 1 = y + r /\ r \in Nat
    BY <1>1, <1>2, <1>4, <2>1
  <2> HIDE DEF y
  <2> QED
    BY <1>1, <2>2
<1> QED
  BY <1>2, <1>5

LEMMA FirstDuplicates ==
  ASSUME NEW c \in ControlType, c.state # Recovery, c.dupAcks \in {0, 1}
  PROVE  OnDuplicate(c) = [c EXCEPT !.dupAcks = @ + 1]
<1> DEFINE d == [c EXCEPT !.dupAcks = @ + 1]
<1>1. d.state # Recovery /\ d.dupAcks # 3
  BY DEF ControlType
<1> QED
  BY <1>1 DEF OnDuplicate

LEMMA ThirdDuplicate ==
  ASSUME NEW c \in ControlType, c.state # Recovery, c.dupAcks = 2, c.cwnd >= 2,
         NEW d, d = OnDuplicate(c)
  PROVE  /\ d.state = Recovery /\ d.ssthresh >= 1 /\ d.ssthresh <= d.cwnd
         /\ d.cwnd = d.ssthresh + 3 /\ 2 * d.ssthresh <= c.cwnd
         /\ d.ssthresh \in Nat /\ d.cwnd \in Nat
<1> DEFINE e == [c EXCEPT !.dupAcks = @ + 1]
<1>1. e.state # Recovery /\ e.dupAcks = 3 /\ e.cwnd = c.cwnd /\ e \in ControlType
  BY DEF ControlType
<1>2. d = EnterFastRecovery(e)
  BY <1>1 DEF OnDuplicate
<1>3. \A k \in Nat : k >= 2 => k \div 2 >= 1 /\ 2 * (k \div 2) <= k /\ k \div 2 \in Nat
  OBVIOUS
<1>4. c.cwnd \in Nat
  BY Thirds
<1> DEFINE half == c.cwnd \div 2
<1>5. half >= 1 /\ 2 * half <= c.cwnd /\ half \in Nat
  BY <1>3, <1>4
<1>6. d.state = Recovery /\ d.ssthresh = half /\ d.cwnd = half + 3
  BY <1>1, <1>2 DEF EnterFastRecovery, ControlType
<1> HIDE DEF half
<1> QED
  BY <1>5, <1>6

(* Growth: doubled below the threshold, one more beyond it.                *)
LEMMA Grown ==
  ASSUME NEW c \in ControlType, NEW n \in Nat, c.state # Recovery, c.cwnd >= 1,
         c.state = SlowStart => c.ssthresh = Ssthresh /\ (c.cwnd = 1 \/ c.cwnd < Ssthresh),
         NEW d, d = OnNewAck(c, n)
  PROVE  /\ d.state # Recovery /\ d.dupAcks = 0 /\ d.cwnd \in Nat /\ d.cwnd >= 2
         /\ d.cwnd = c.cwnd + 1 \/ d.cwnd <= 2 * Ssthresh
         /\ d.state = SlowStart => d.ssthresh = Ssthresh /\ d.cwnd < Ssthresh
<1> DEFINE e == [c EXCEPT !.dupAcks = 0]
<1>1. /\ e \in ControlType /\ e.state = c.state /\ e.cwnd = c.cwnd /\ e.ssthresh = c.ssthresh
      /\ e.dupAcks = 0 /\ c.cwnd \in Nat /\ c.state \in {SlowStart, Avoidance}
  BY DEF ControlType
<1>2. d = Grow(e)
  BY <1>1 DEF OnNewAck
<1> HIDE DEF e
<1>3. Ssthresh \in Nat \ {0}
  BY CongestionAssumption
<1>4. CASE c.state = SlowStart
  <2>1. d = [e EXCEPT !.cwnd = 2 * @, !.state = IF 2 * e.cwnd >= e.ssthresh THEN Avoidance ELSE @]
    BY <1>1, <1>2, <1>4, Thirds DEF Grow
  <2>2. /\ d.cwnd = 2 * c.cwnd /\ d.dupAcks = 0 /\ d.ssthresh = Ssthresh
        /\ d.state = IF 2 * c.cwnd >= Ssthresh THEN Avoidance ELSE SlowStart
    BY <1>1, <1>4, <2>1 DEF ControlType
  <2> QED
    BY <1>1, <1>3, <1>4, <2>2, Thirds
<1>5. CASE c.state = Avoidance
  <2>1. d = [e EXCEPT !.cwnd = @ + 1]
    BY <1>1, <1>2, <1>5, Thirds DEF Grow
  <2>2. d.cwnd = c.cwnd + 1 /\ d.dupAcks = 0 /\ d.state = Avoidance
    BY <1>1, <1>5, <2>1 DEF ControlType
  <2> QED
    BY <1>1, <2>2, Thirds
<1> QED
  BY <1>1, <1>4, <1>5

LEMMA Repaired ==
  ASSUME NEW c \in ControlType, NEW n \in Nat, c.state = Recovery,
         NEW d, d = OnNewAck(c, n)
  PROVE  /\ n > 0 => d.state = Recovery /\ d.cwnd = c.cwnd + 1 /\ d.ssthresh = c.ssthresh
         /\ n = 0 /\ c.ssthresh >= 1 =>
              d.state = Avoidance /\ d.cwnd \in 1..c.ssthresh /\ d.dupAcks = 0
<1> DEFINE e == [c EXCEPT !.dupAcks = 0]
<1>1. /\ e \in ControlType /\ e.state = Recovery /\ e.cwnd = c.cwnd /\ e.ssthresh = c.ssthresh
      /\ e.dupAcks = 0 /\ c.cwnd \in Nat /\ c.ssthresh \in Nat
  BY DEF ControlType
<1> HIDE DEF e
<1>2. CASE n > 0
  <2> DEFINE f == [e EXCEPT !.cwnd = @ + 1]
  <2>1. d = Grow(f)
    BY <1>1, <1>2 DEF OnNewAck, e
  <2>2. f.state = Recovery /\ f.cwnd = c.cwnd + 1 /\ f.ssthresh = c.ssthresh
    BY <1>1 DEF ControlType
  <2> HIDE DEF f
  <2>3. d = f
    BY <2>1, <2>2, Thirds DEF Grow
  <2> QED
    BY <1>2, <2>2, <2>3
<1>3. CASE n = 0 /\ c.ssthresh >= 1
  <2> DEFINE f == ExitFastRecovery(e)
  <2>1. d = Grow(f)
    BY <1>1, <1>3 DEF OnNewAck, e
  <2> DEFINE w == (c.ssthresh + Wrap - 1) % Wrap
  <2>2. w \in 0..(c.ssthresh - 1)
    BY <1>1, <1>3, WrapsDown
  <2>3. f.state = Avoidance /\ f.cwnd = w /\ f.dupAcks = 0 /\ f = [f EXCEPT !.cwnd = w]
    BY <1>1 DEF ControlType, ExitFastRecovery
  <2>4. Grow(f) = [f EXCEPT !.cwnd = @ + 1]
    <3> HIDE DEF f, w
    <3> QED
      BY <2>3, Thirds DEF Grow
  <2>5. d.state = Avoidance /\ d.cwnd = w + 1 /\ d.dupAcks = 0
    <3>1. DOMAIN f = {"state", "cwnd", "ssthresh", "dupAcks"}
      BY <1>1 DEF ControlType, ExitFastRecovery
    <3> HIDE DEF f, w
    <3> QED
      BY <2>1, <2>3, <2>4, <3>1
  <2> HIDE DEF w
  <2> QED
    BY <1>1, <1>3, <2>2, <2>5
<1> QED
  BY <1>1, <1>2, <1>3

-----------------------------------------------------------------------------
(* How far the transfer is, for the invariants on the counters and the     *)
(* window: until a comparison fails the two programs take turns, so at     *)
(* most one message is under way, and the client is in one of three        *)
(* phases: nothing is missing, a packet was ignored and duplicates are     *)
(* counted, or the loop has gone back and makes the loss good.             *)
Hello(id) == [id |-> id, data |-> DEFAULT_MESSAGE]
Ack(id)   == [id |-> id, data |-> ACK]

Count == Cardinality(dropped)

Bounded ==
  /\ cc.cwnd \in 1..(2 * Ssthresh + lastAckId + 1)
  /\ round <= lastPacketId + 3 * Count
  /\ packetBuffer \subseteq 0..(PacketsToSend + 1) /\ lastPacketId <= PacketsToSend + 1
  /\ packetId <= i + 1 \/ (client \in {"recv", "died"} /\ packetId = i + 2)

Untouched == round = 0 /\ lastPacketId = 1 /\ dropped = {}
Unread    == cc = NewControl /\ i = 1 /\ losses = 0 /\ lastAckId = -1

(* The handshake.                                                          *)
Opening ==
  \/ /\ server = SYN /\ ~garbled
     /\ \/ client = "connect" /\ packetId = 0 /\ toServer = <<>> /\ packetBuffer = {}
        \/ /\ client = "handshake" /\ packetId = 1 /\ packetBuffer = {0}
           /\ toServer = <<[id |-> 0, data |-> SYN]>>
  \/ /\ server = ACK /\ ~garbled
     /\ \/ /\ client = "handshake" /\ packetId = 1 /\ packetBuffer = {0}
           /\ toServer = <<>> /\ toClient = <<[id |-> 0, data |-> SYN_ACK]>>
        \/ /\ client \in {"send", "done"} /\ packetId = 2 /\ packetBuffer = 0..1
           /\ toServer = <<Ack(1)>> /\ toClient = <<>>
        \/ /\ client = "recv" /\ packetId = 3 /\ packetBuffer = 0..2
           /\ toServer = <<Ack(1), Hello(2)>> /\ toClient = <<>>
  \/ /\ server = ACK /\ garbled /\ toClient = <<>> /\ packetId <= i + 1
     /\ \/ client \in {"send", "done"} /\ packetId = 1 /\ toServer = <<>>
        \/ client = "recv" /\ toServer = <<Hello(1)>>

Seen(k) == lastAckId = k \/ (k = 1 /\ lastAckId = -1)

(* All up to k is acknowledged; slow start is below the threshold, and a   *)
(* window of one is the first or the one a repair ended with.              *)
Steady(k) ==
  /\ cc.state # Recovery /\ cc.dupAcks = 0 /\ losses = 0
  /\ cc.state = SlowStart => cc.ssthresh = Ssthresh /\ (cc.cwnd = 1 \/ cc.cwnd < Ssthresh)
  /\ cc.cwnd = 1 => k = 1 \/ k - 2 \in dropped
  /\ Seen(k)

(* The packet after the last accepted was ignored; n answers said so.      *)
Missing(n) ==
  /\ cc.state # Recovery /\ cc.dupAcks = n /\ losses = n /\ cc.cwnd >= 2
  /\ cc.state = SlowStart => cc.ssthresh = Ssthresh /\ cc.cwnd < Ssthresh
  /\ lastPacketId + 1 \in dropped /\ lastAckId = lastPacketId

(* All up to k is acknowledged of the three packets from the ignored one.  *)
Mending(k) ==
  /\ cc.state = Recovery /\ losses \in 1..3
  /\ cc.ssthresh \in 1..cc.cwnd
  /\ k + losses - 2 \in dropped /\ lastAckId = k

(* Before the server reads the packet next, sent already (1) or not (0).   *)
Course(next, sent) ==
  \/ /\ Steady(lastPacketId) /\ next = lastPacketId + 1
     /\ packetBuffer = 0..(lastPacketId + sent)
     /\ round = lastPacketId - 1 + 3 * Count
  \/ /\ losses \in 1..2 /\ Missing(losses) /\ next = lastPacketId + 1 + losses
     /\ packetBuffer = 0..(lastPacketId + losses + sent)
     /\ round = lastPacketId - 1 + 3 * (Count - 1) + losses
  \/ /\ Mending(lastPacketId) /\ next = lastPacketId + 1
     /\ packetBuffer = 0..(lastPacketId + losses)
     /\ round = lastPacketId - 1 + 3 * Count

(* After it: accepted, not accepted, accepted again.                       *)
Replied ==
  \/ /\ Steady(lastPacketId - 1) /\ packetId = lastPacketId + 1 /\ lastPacketId >= 2
     /\ packetBuffer = 0..lastPacketId
     /\ round = lastPacketId - 1 + 3 * Count
  \/ /\ losses \in 0..2 /\ Missing(losses) /\ packetId = lastPacketId + 2 + losses
     /\ packetBuffer = 0..(lastPacketId + losses + 1)
     /\ round = lastPacketId - 1 + 3 * (Count - 1) + losses + 1
  \/ /\ Mending(lastPacketId - 1) /\ packetId = lastPacketId + 1
     /\ packetBuffer = 0..(lastPacketId - 1 + losses)
     /\ round = lastPacketId - 1 + 3 * Count

Exchange ==
  \/ /\ client \in {"send", "done"} /\ ~garbled /\ toServer = <<>> /\ toClient = <<>>
     /\ Course(packetId, 0) /\ packetId <= i + 1
  \/ /\ client = "recv" /\ ~garbled /\ toServer = <<Hello(packetId - 1)>> /\ toClient = <<>>
     /\ Course(packetId - 1, 1)
  \/ /\ client = "recv" /\ ~garbled /\ toServer = <<>> /\ toClient = <<Ack(lastPacketId)>>
     /\ Replied
  \/ client = "recv" /\ garbled /\ toServer = <<>> /\ toClient = <<>>

Progress ==
  /\ Bounded
  /\ server \in {SYN, ACK} => Untouched /\ Unread /\ Opening
  /\ server = "closed" => Untouched /\ cc.cwnd = 1 /\ toClient = <<>> /\ client # "connect"
  /\ server = "loop" => Exchange
  /\ server = "down" => client \in {"done", "died"} /\ toServer = <<>>

-----------------------------------------------------------------------------
(* Streams of one message and of two.                                      *)
LEMMA Words ==
  /\ SYN # ACK /\ SYN # SYN_ACK /\ SYN_ACK # ACK
  /\ DEFAULT_MESSAGE # ACK /\ DEFAULT_MESSAGE # SYN /\ "run together" # ACK
  /\ SYN \notin {"loop", "closed", "down"} /\ ACK \notin {"loop", "closed", "down"}
BY DEF SYN, ACK, SYN_ACK, DEFAULT_MESSAGE

LEMMA Messages ==
  ASSUME NEW id \in Nat
  PROVE  Hello(id) \in Message /\ Ack(id) \in Message
BY DEF Hello, Ack, Message

LEMMA OneMessage ==
  ASSUME NEW m \in Message
  PROVE  /\ <<m>> # <<>> /\ Head(<<m>>) = m /\ Tail(<<m>>) = <<>> /\ Append(<<>>, m) = <<m>>
         /\ DOMAIN <<m>> = {1} /\ After(<<m>>, 1) = <<>>
         /\ Received(<<m>>, 1).id = m.id /\ Received(<<m>>, 1).data = m.data
<1>1. <<m>> # <<>> /\ Head(<<m>>) = m /\ Append(<<>>, m) = <<m>> /\ DOMAIN <<m>> = {1} /\ Len(<<m>>) = 1
  OBVIOUS
<1>2. Tail(<<m>>) = <<>>
  <2>1. Tail(<<m>>) \in Seq(Message) /\ Len(Tail(<<m>>)) = 0
    BY <1>1, HeadTailProperties
  <2> QED
    BY <2>1, EmptySeq
<1>3. After(<<m>>, 1) = <<>>
  <2>1. <<m>> \in Seq(Message) /\ 1 \in DOMAIN <<m>>
    BY <1>1
  <2>2. After(<<m>>, 1) \in Seq(Message) /\ \A k \in DOMAIN After(<<m>>, 1) : k + 1 \in {1}
    BY <1>1, <2>1, Cut
  <2>3. DOMAIN After(<<m>>, 1) = 1..Len(After(<<m>>, 1)) /\ Len(After(<<m>>, 1)) \in Nat
    BY <2>2, LenProperties
  <2>4. Len(After(<<m>>, 1)) = 0
    BY <2>2, <2>3
  <2> QED
    BY <2>2, <2>4, EmptySeq
<1>4. Received(<<m>>, 1).id = m.id /\ Received(<<m>>, 1).data = m.data
  BY <1>1 DEF Received
<1> QED
  BY <1>1, <1>2, <1>3, <1>4

LEMMA TwoMessages ==
  ASSUME NEW m \in Message, NEW n \in Message
  PROVE  /\ Append(<<m>>, n) = <<m, n>> /\ DOMAIN <<m, n>> = {1, 2}
         /\ After(<<m, n>>, 1) = <<n>>
         /\ Received(<<m, n>>, 1).data = m.data /\ Received(<<m, n>>, 2).data = "run together"
<1>1. /\ Append(<<m>>, n) = <<m, n>> /\ DOMAIN <<m, n>> = {1, 2} /\ Len(<<m, n>>) = 2
      /\ <<m, n>>[2] = n /\ Head(<<m, n>>) = m
  <2>1. Append(<<m>>, n) = <<m, n>>
    <3>1. <<m>> \in Seq(Message) /\ Len(<<m>>) = 1 /\ <<m>>[1] = m
      OBVIOUS
    <3>2. /\ Append(<<m>>, n) \in Seq(Message) /\ Len(Append(<<m>>, n)) = 2
          /\ Append(<<m>>, n)[1] = m /\ Append(<<m>>, n)[2] = n
      BY <3>1, AppendProperties
    <3>3. <<m, n>> \in Seq(Message) /\ Len(<<m, n>>) = 2 /\ <<m, n>>[1] = m /\ <<m, n>>[2] = n
      OBVIOUS
    <3>4. \A k \in 1..2 : k = 1 \/ k = 2
      OBVIOUS
    <3> QED
      BY <3>2, <3>3, <3>4, SeqEqual
  <2>2. DOMAIN <<m, n>> = 1..2 /\ Len(<<m, n>>) = 2 /\ 1..2 = {1, 2}
    OBVIOUS
  <2>3. <<m, n>>[2] = n /\ Head(<<m, n>>) = m
    OBVIOUS
  <2> QED
    BY <2>1, <2>2, <2>3
<1>2. After(<<m, n>>, 1) = <<n>>
  <2>1. After(<<m, n>>, 1) = [k \in 1..1 |-> <<m, n>>[k + 1]]
    BY <1>1 DEF After
  <2> QED
    BY <1>1, <2>1
<1> QED
  BY <1>1, <1>2 DEF Received

LEMMA Counted ==
  ASSUME Inv
  PROVE  /\ Count \in Nat /\ Count <= Cardinality(Dropped) /\ Cardinality(Dropped) \in Nat
         /\ \A id \in Dropped \ dropped : Cardinality(dropped \cup {id}) = Count + 1
<1>1. dropped \in SUBSET Dropped
  BY Types DEF Inv, TypeParts
<1>2. IsFiniteSet(Dropped) /\ IsFiniteSet(dropped) /\ Cardinality(dropped) <= Cardinality(Dropped)
  BY <1>1, NumbersAssumption, FS_Subset
<1> QED
  BY <1>2, FS_CardinalityType, FS_AddElement DEF Count

(* A packet the client sends, to a server that still reads.                *)
LEMMA SentOne ==
  ASSUME Inv, ~Closed, NEW message \in {SYN, ACK, DEFAULT_MESSAGE}, NEW next, SendTo(message, next)
  PROVE  /\ packetBuffer' = packetBuffer \cup {packetId} /\ packetId' = packetId + 1
         /\ toServer' = Append(toServer, [id |-> packetId, data |-> message])
         /\ client' = next
         /\ packetId \in Nat /\ [id |-> packetId, data |-> message] \in Message
BY Types DEF SendTo, Inv, TypeParts, Message

LEMMA BoundedKept ==
  ASSUME Inv, Bounded, UNCHANGED <<cc, lastAckId, round, lastPacketId, dropped>>,
         packetBuffer' = packetBuffer \/ (packetBuffer' = packetBuffer \cup {packetId} /\ packetId <= PacketsToSend + 1),
         packetId' <= i' + 1 \/ (client' \in {"recv", "died"} /\ packetId' = i' + 2)
  PROVE  Bounded'
<1>1. packetId \in Nat /\ PacketsToSend \in Nat
  BY Types, CongestionAssumption DEF Inv, TypeParts
<1>2. packetBuffer' \subseteq 0..(PacketsToSend + 1)
  <2>1. packetBuffer \subseteq 0..(PacketsToSend + 1)
    BY DEF Bounded
  <2>2. packetId <= PacketsToSend + 1 => packetId \in 0..(PacketsToSend + 1)
    BY <1>1
  <2> QED
    BY <2>1, <2>2
<1>3. cc' = cc /\ lastAckId' = lastAckId /\ round' = round /\ lastPacketId' = lastPacketId /\ Count' = Count
  BY DEF Count
<1>4. /\ cc.cwnd \in 1..(2 * Ssthresh + lastAckId + 1) /\ lastPacketId <= PacketsToSend + 1
      /\ round <= lastPacketId + 3 * Count
  BY DEF Bounded
<1>5. /\ cc'.cwnd \in 1..(2 * Ssthresh + lastAckId' + 1) /\ lastPacketId' <= PacketsToSend + 1
      /\ round' <= lastPacketId' + 3 * Count'
  BY <1>3, <1>4
<1> QED
  BY <1>2, <1>5 DEF Bounded

LEMMA ConnectProgress ==
  ASSUME Inv, Progress, Connect
  PROVE  Progress'
<1>1. server = SYN /\ Untouched /\ Unread /\ packetId = 0 /\ toServer = <<>> /\ packetBuffer = {} /\ ~garbled
  <2>1. client = "connect" /\ server \in {SYN, ACK, "loop", "closed", "down"}
    BY Types DEF Inv, TypeParts, Connect
  <2> QED
    BY <2>1, Words DEF Progress, Opening, Exchange
<1>2. /\ packetBuffer' = {0} /\ packetId' = 1 /\ client' = "handshake"
      /\ toServer' = <<[id |-> 0, data |-> SYN]>>
  <2>1. ~Closed /\ SendTo(SYN, "handshake")
    BY <1>1, Words DEF Closed, Connect
  <2>2. /\ packetBuffer' = packetBuffer \cup {packetId} /\ packetId' = packetId + 1
        /\ toServer' = Append(toServer, [id |-> packetId, data |-> SYN])
        /\ client' = "handshake"
    BY <2>1, SentOne
  <2> QED
    BY <1>1, <2>2
<1>3. UNCHANGED <<toClient, i, lastAckId, losses, cc, server, round, lastPacketId, dropped, garbled>>
  BY DEF Connect, receiver
<1>4. Bounded'
  <2>1. PacketsToSend \in Nat /\ i = 1
    BY <1>1, CongestionAssumption DEF Unread
  <2> QED
    BY <1>1, <1>2, <1>3, <2>1, BoundedKept DEF Progress
<1> QED
  BY <1>1, <1>2, <1>3, <1>4, Words DEF Progress, Untouched, Unread, Opening

LEMMA HandshakeProgress ==
  ASSUME Inv, Progress, Handshake
  PROVE  Progress'
<1>1. /\ server = ACK /\ Untouched /\ Unread /\ packetId = 1 /\ packetBuffer = {0} /\ ~garbled
      /\ toServer = <<>> /\ toClient = <<[id |-> 0, data |-> SYN_ACK]>>
  <2>1. client = "handshake" /\ toClient # <<>> /\ server \in {SYN, ACK, "loop", "closed", "down"}
    BY Types DEF Inv, TypeParts, Handshake
  <2>2. server # SYN
    BY <2>1 DEF Inv, AnswersAscend
  <2> QED
    BY <2>1, <2>2, Words DEF Progress, Opening, Exchange
<1>2. UNCHANGED <<i, lastAckId, losses, cc, server, round, lastPacketId, dropped>>
  BY DEF Handshake, receiver
<1>3. toClient' = <<>>
  <2>1. [id |-> 0, data |-> SYN_ACK] \in Message
    BY DEF Message
  <2> QED
    BY <1>1, <2>1, OneMessage DEF Handshake
<1>4. \/ /\ packetBuffer' = 0..1 /\ packetId' = 2 /\ client' = "send" /\ ~garbled'
         /\ toServer' = <<Ack(1)>>
      \/ /\ client' = "send" /\ garbled'
         /\ UNCHANGED <<packetBuffer, packetId, toServer>>
  <2>1. PICK equal \in BOOLEAN :
          /\ Reads(Head(toClient), SYN_ACK, equal)
          /\ IF equal THEN SendTo(ACK, "send")
                      ELSE client' = "send" /\ UNCHANGED <<packetBuffer, packetId, toServer, severed>>
    BY DEF Handshake
  <2>2. CASE equal
    <3>1. ~Closed /\ SendTo(ACK, "send")
      BY <1>1, <2>1, <2>2, Words DEF Closed
    <3>2. /\ packetBuffer' = packetBuffer \cup {packetId} /\ packetId' = packetId + 1
          /\ toServer' = Append(toServer, [id |-> packetId, data |-> ACK])
          /\ client' = "send"
      BY <3>1, SentOne
    <3>3. ~garbled'
      BY <1>1, <2>1, <2>2 DEF Reads
    <3>4. {0} \cup {1} = 0..1
      OBVIOUS
    <3> QED
      BY <1>1, <3>2, <3>3, <3>4 DEF Ack
  <2>3. CASE ~equal
    <3>1. Head(toClient).data = SYN_ACK
      BY <1>1
    <3> QED
      BY <2>1, <2>3, <3>1 DEF Reads
  <2> QED
    BY <2>2, <2>3
<1>5. Bounded'
  <2>1. PacketsToSend \in Nat /\ i = 1 /\ packetId <= PacketsToSend + 1
    BY <1>1, CongestionAssumption DEF Unread
  <2>2. packetBuffer' = packetBuffer \/ packetBuffer' = packetBuffer \cup {packetId}
    <3>1. {0} \cup {1} = 0..1
      OBVIOUS
    <3> QED
      BY <1>1, <1>4, <3>1
  <2>3. packetId' <= i' + 1
    BY <1>1, <1>2, <1>4, <2>1
  <2> QED
    BY <1>2, <2>1, <2>2, <2>3, BoundedKept DEF Progress
<1>6. packetId <= i + 1
  BY <1>1 DEF Unread
<1> QED
  BY <1>1, <1>2, <1>3, <1>4, <1>5, <1>6, Words DEF Progress, Untouched, Unread, Opening

(* The client stops, or takes the end of the stream for a timeout.         *)
LEMMA EndingProgress ==
  ASSUME Inv, Progress, HandshakeRefused \/ Timeout \/ Finish
  PROVE  Progress'
<1>1. /\ server \in {SYN, ACK, "loop", "closed", "down"} /\ i \in Nat /\ packetId \in Nat
      /\ cc \in ControlType
  BY Types DEF Inv, TypeParts
<1>2. UNCHANGED <<toServer, toClient, packetId, lastAckId, packetBuffer, losses, server, round,
                  lastPacketId, dropped, garbled>>
  BY DEF HandshakeRefused, Timeout, Finish, receiver
<1>3. CASE HandshakeRefused
  <2>1. server = "closed" /\ client = "handshake" /\ client' = "died" /\ UNCHANGED <<i, cc>>
    BY <1>3 DEF HandshakeRefused, Closed
  <2>2. packetId <= i + 1
    BY <2>1 DEF Progress, Bounded
  <2>3. Bounded'
    BY <1>2, <2>1, <2>2, BoundedKept DEF Progress
  <2> QED
    BY <1>2, <2>1, <2>3, Words DEF Progress, Untouched
<1>4. CASE Timeout
  <2>1. server = "closed" /\ client = "recv" /\ client' = "send" /\ cc' = OnTimeout(cc) /\ i' = i + 1
    BY <1>4 DEF Timeout, Closed
  <2>2. cc.cwnd = 1 /\ cc'.cwnd = 1 /\ packetId <= i' + 1
    BY <1>1, <2>1 DEF Progress, Bounded, OnTimeout, ControlType
  <2>3. Bounded'
    BY <1>2, <2>2 DEF Progress, Bounded, Count
  <2> QED
    BY <1>2, <2>1, <2>2, <2>3, Words DEF Progress, Untouched
<1>5. CASE Finish
  <2>1. client = "send" /\ client' = "done" /\ UNCHANGED <<i, cc>>
    BY <1>5 DEF Finish
  <2>2. packetId <= i + 1
    BY <2>1 DEF Progress, Bounded
  <2>3. Bounded'
    BY <1>2, <2>1, <2>2, BoundedKept DEF Progress
  <2>4. CASE server \in {SYN, ACK}
    BY <1>2, <2>1, <2>3, <2>4, Words DEF Progress, Untouched, Unread, Opening
  <2>5. CASE server = "loop"
    <3>1. /\ ~garbled /\ toServer = <<>> /\ toClient = <<>> /\ Course(packetId, 0)
      BY <2>1, <2>5 DEF Progress, Exchange
    <3>2. Course(packetId, 0)' 
      BY <1>2, <2>1, <3>1 DEF Course, Steady, Missing, Mending, Seen, Count
    <3>3. Exchange'
      BY <1>2, <2>1, <2>2, <3>1, <3>2 DEF Exchange
    <3> QED
      BY <1>2, <2>1, <2>3, <2>5, <3>3, Words DEF Progress
  <2>6. CASE server \in {"closed", "down"}
    BY <1>2, <2>1, <2>3, <2>6, Words DEF Progress, Untouched
  <2> QED
    BY <1>1, <2>4, <2>5, <2>6
<1> QED
  BY <1>3, <1>4, <1>5

(* The client sends the packet the server reads next.                      *)
LEMMA CourseSent ==
  ASSUME Inv, Course(packetId, 0),
         packetBuffer' = packetBuffer \cup {packetId}, packetId' = packetId + 1,
         UNCHANGED <<lastAckId, losses, cc, round, lastPacketId, dropped>>
  PROVE  Course(packetId - 1, 1)'
<1>1. packetId \in Nat /\ lastPacketId \in Nat /\ losses \in Nat
  BY Types DEF Inv, TypeParts
<1>2. \A a \in Nat : (0..a) \cup {a + 1} = 0..(a + 1)
  OBVIOUS
<1>3. \A a, b \in Nat : b <= a => (0..a) \cup {b} = 0..a
  OBVIOUS
<1>4. /\ lastAckId' = lastAckId /\ losses' = losses /\ cc' = cc /\ round' = round
      /\ lastPacketId' = lastPacketId /\ dropped' = dropped /\ Count' = Count
      /\ packetId' - 1 = packetId
  BY <1>1 DEF Count
<1>5. /\ Steady(lastPacketId) => Steady(lastPacketId)'
      /\ Missing(losses) => Missing(losses)'
      /\ Mending(lastPacketId) => Mending(lastPacketId)'
  BY <1>4 DEF Steady, Missing, Mending, Seen
<1>6. CASE /\ Steady(lastPacketId) /\ packetId = lastPacketId + 1
           /\ packetBuffer = 0..(lastPacketId + 0)
           /\ round = lastPacketId - 1 + 3 * Count
  <2>1. packetBuffer' = 0..(lastPacketId + 1)
    <3>1. lastPacketId + 0 = lastPacketId
      BY <1>1
    <3> QED
      BY <1>1, <1>2, <1>6, <3>1
  <2> QED
    BY <1>4, <1>5, <1>6, <2>1 DEF Course
<1>7. CASE /\ losses \in 1..2 /\ Missing(losses) /\ packetId = lastPacketId + 1 + losses
           /\ packetBuffer = 0..(lastPacketId + losses + 0)
           /\ round = lastPacketId - 1 + 3 * (Count - 1) + losses
  <2>1. packetBuffer' = 0..(lastPacketId + losses + 1)
    <3>1. /\ lastPacketId + losses + 0 = lastPacketId + losses /\ lastPacketId + losses \in Nat
          /\ packetId = (lastPacketId + losses) + 1
      BY <1>1, <1>7
    <3> QED
      BY <1>2, <1>7, <3>1
  <2> QED
    BY <1>4, <1>5, <1>7, <2>1 DEF Course
<1>8. CASE /\ Mending(lastPacketId) /\ packetId = lastPacketId + 1
           /\ packetBuffer = 0..(lastPacketId + losses)
           /\ round = lastPacketId - 1 + 3 * Count
  <2>1. packetBuffer' = 0..(lastPacketId + losses)
    <3>1. losses >= 1
      BY <1>8 DEF Mending
    <3>2. packetId <= lastPacketId + losses /\ lastPacketId + losses \in Nat
      BY <1>1, <1>8, <3>1
    <3> QED
      BY <1>1, <1>3, <1>8, <3>2
  <2> QED
    BY <1>4, <1>5, <1>8, <2>1 DEF Course
<1> QED
  BY <1>6, <1>7, <1>8 DEF Course

LEMMA SendDataProgress ==
  ASSUME Inv, Progress, SendData
  PROVE  Progress'
<1>1. /\ server \in {SYN, ACK, "loop", "closed", "down"} /\ i \in Nat /\ packetId \in Nat
      /\ lastPacketId \in Nat /\ losses \in Nat /\ PacketsToSend \in Nat
  BY Types, CongestionAssumption DEF Inv, TypeParts
<1>2. client = "send" /\ i <= PacketsToSend /\ SendTo(DEFAULT_MESSAGE, "recv")
  BY DEF SendData
<1>3. UNCHANGED <<toClient, i, lastAckId, losses, cc, server, round, lastPacketId, dropped, garbled>>
  BY DEF SendData, receiver
<1>4. packetId <= i + 1 /\ packetId <= PacketsToSend + 1
  BY <1>1, <1>2 DEF Progress, Bounded
<1>5. /\ packetBuffer' = packetBuffer \cup {packetId} /\ packetId' = packetId + 1
      /\ client' \in {"recv", "died"}
  BY <1>2 DEF SendTo
<1>6. Bounded'
  <2>1. packetId' <= i' + 1 \/ packetId' = i' + 2
    BY <1>1, <1>3, <1>4, <1>5
  <2> QED
    BY <1>3, <1>4, <1>5, <2>1, BoundedKept DEF Progress
<1>7. ~Closed => /\ toServer' = Append(toServer, Hello(packetId))
                 /\ client' = "recv" /\ Hello(packetId) \in Message
  BY <1>2, SentOne DEF Hello
<1>8. CASE server \in {SYN, ACK}
  <2>1. server = ACK /\ Untouched /\ Unread /\ Opening
    BY <1>2, <1>8, Words DEF Progress, Opening
  <2>2. client' = "recv" /\ toServer' = Append(toServer, Hello(packetId)) /\ toClient' = <<>>
    BY <1>2, <1>3, <1>7, <2>1, Words DEF Closed, Opening
  <2>3. CASE ~garbled
    <3>1. packetId = 2 /\ packetBuffer = 0..1 /\ toServer = <<Ack(1)>>
      BY <1>2, <2>1, <2>3, Words DEF Opening
    <3>2. toServer' = <<Ack(1), Hello(2)>>
      BY <2>2, <3>1, Messages, TwoMessages
    <3>3. (0..1) \cup {2} = 0..2
      OBVIOUS
    <3>4. packetBuffer' = 0..2 /\ packetId' = 3
      BY <1>5, <3>1, <3>3
    <3> QED
      BY <1>3, <1>6, <2>1, <2>2, <2>3, <3>2, <3>4, Words DEF Progress, Untouched, Unread, Opening
  <2>4. CASE garbled
    <3>1. packetId = 1 /\ toServer = <<>>
      BY <1>2, <2>1, <2>4, Words DEF Opening
    <3>2. toServer' = <<Hello(1)>> /\ packetId' <= i' + 1
      <4>1. i = 1 /\ packetId' = 2
        BY <1>5, <2>1, <3>1 DEF Unread
      <4> QED
        BY <1>3, <2>2, <3>1, <4>1, Messages, OneMessage
    <3> QED
      BY <1>3, <1>6, <2>1, <2>2, <2>4, <3>2, Words DEF Progress, Untouched, Unread, Opening
  <2> QED
    BY <2>3, <2>4
<1>9. CASE server = "loop"
  <2>1. ~garbled /\ toServer = <<>> /\ toClient = <<>> /\ Course(packetId, 0)
    BY <1>2, <1>9 DEF Progress, Exchange
  <2>2. toServer' = <<Hello(packetId)>> /\ client' = "recv" /\ packetId' - 1 = packetId
    BY <1>1, <1>5, <1>7, <1>9, <2>1, OneMessage DEF Closed
  <2>3. Course(packetId - 1, 1)'
    BY <1>3, <1>5, <2>1, CourseSent
  <2>4. Exchange'
    BY <1>3, <2>1, <2>2, <2>3 DEF Exchange
  <2> QED
    BY <1>3, <1>6, <1>9, <2>4, Words DEF Progress
<1>10. CASE server = "closed"
  BY <1>3, <1>5, <1>6, <1>10, Words DEF Progress, Untouched
<1>11. CASE server = "down"
  BY <1>2, <1>11 DEF Progress
<1> QED
  BY <1>1, <1>8, <1>9, <1>10, <1>11

LEMMA ReceiveAckProgress ==
  ASSUME Inv, Progress, ReceiveAck
  PROVE  Progress'
<1> DEFINE a == lastPacketId
           isDup == a = lastAckId
           count == LossCount(losses, isDup)
           new == OnPacketAcked(cc, isDup, count)
           back == GoesBack(isDup, new)
<1>1. /\ server \in {SYN, ACK, "loop", "closed", "down"} /\ i \in Nat /\ packetId \in Nat
      /\ a \in Nat /\ losses \in Nat /\ cc \in ControlType /\ lastAckId \in Nat \cup {-1}
      /\ Count \in Nat /\ dropped \subseteq Dropped /\ round \in Nat
      /\ Ssthresh \in Nat /\ Ssthresh >= 1 /\ PacketsToSend \in Nat
  <2>1. round \in Nat
    BY Types, CongestionAssumption DEF Inv, TypeParts
  <2> QED
    BY <2>1, Types, Counted, CongestionAssumption DEF Inv, TypeParts
<1>2. client = "recv" /\ toClient # <<>>
  BY DEF ReceiveAck
<1>3. server = "loop"
  BY <1>1, <1>2, Words DEF Progress, Opening, Inv, AnswersAscend
<1>4. ~garbled /\ toServer = <<>> /\ toClient = <<Ack(a)>> /\ Replied
  BY <1>2, <1>3, Words DEF Progress, Exchange
<1>5. Head(toClient).id = a /\ Tail(toClient) = <<>>
  BY <1>1, <1>4, Messages, OneMessage DEF Ack
<1>6. /\ toClient' = <<>> /\ lastAckId' = a /\ losses' = count /\ cc' = new
      /\ packetId' = (IF back THEN a + 1 ELSE packetId)
      /\ i' = (IF back THEN a + 1 ELSE i) + 1
      /\ client' = "send"
  BY <1>5 DEF ReceiveAck
<1>7. /\ toServer' = toServer /\ packetBuffer' = packetBuffer /\ server' = server /\ round' = round
      /\ lastPacketId' = a /\ dropped' = dropped /\ garbled' = garbled /\ Count' = Count
  BY DEF ReceiveAck, receiver, Count
<1>8. /\ cc.cwnd \in 1..(2 * Ssthresh + lastAckId + 1) /\ round <= a + 3 * Count
      /\ packetBuffer \subseteq 0..(PacketsToSend + 1) /\ a <= PacketsToSend + 1
      /\ packetId <= i + 2
  BY <1>1, <1>2 DEF Progress, Bounded
<1> HIDE DEF a, isDup, count, new, back
<1>9. SUFFICES /\ cc'.cwnd \in 1..(2 * Ssthresh + a + 1)
               /\ packetId' <= i' + 1
               /\ Course(packetId, 0)'
  <2>1. Bounded'
    BY <1>6, <1>7, <1>8, <1>9 DEF Bounded
  <2>2. Exchange'
    BY <1>4, <1>6, <1>7, <1>9 DEF Exchange
  <2> QED
    BY <1>3, <1>7, <2>1, <2>2, Words DEF Progress
<1>10. a = lastPacketId
  BY DEF a
<1>11. ASSUME /\ Steady(a - 1) /\ packetId = a + 1 /\ a >= 2
              /\ packetBuffer = 0..a
              /\ round = a - 1 + 3 * Count
       PROVE  /\ cc'.cwnd \in 1..(2 * Ssthresh + a + 1)
              /\ packetId' <= i' + 1
              /\ Course(packetId, 0)'
  <2>1. /\ cc.state # Recovery /\ cc.cwnd >= 1 /\ losses = 0
        /\ cc.state = SlowStart => cc.ssthresh = Ssthresh /\ (cc.cwnd = 1 \/ cc.cwnd < Ssthresh)
        /\ lastAckId < a /\ ~isDup
    BY <1>1, <1>8, <1>11 DEF Steady, Seen, isDup
  <2>2. count = 0 /\ new = OnNewAck(cc, count) /\ ~back
    BY <2>1 DEF LossCount, OnPacketAcked, GoesBack, count, new, back
  <2>3. /\ new.state # Recovery /\ new.dupAcks = 0 /\ new.cwnd \in Nat /\ new.cwnd >= 2
        /\ new.cwnd = cc.cwnd + 1 \/ new.cwnd <= 2 * Ssthresh
        /\ new.state = SlowStart => new.ssthresh = Ssthresh /\ new.cwnd < Ssthresh
    BY <1>1, <2>1, <2>2, Grown
  <2>4. new.cwnd <= 2 * Ssthresh + a + 1
    BY <1>1, <1>8, <2>1, <2>3
  <2>5. Steady(lastPacketId)'
    BY <1>6, <1>7, <2>2, <2>3 DEF Steady, Seen
  <2>6. packetId' = a + 1 /\ i' = i + 1
    BY <1>6, <1>11, <2>2
  <2>7. Course(packetId, 0)'
    <3>1. a + 0 = a
      BY <1>1
    <3> QED
      BY <1>7, <1>11, <2>5, <2>6, <3>1 DEF Course
  <2> QED
    BY <1>1, <1>6, <1>8, <1>11, <2>3, <2>4, <2>6, <2>7
<1>12. ASSUME /\ losses \in 0..2 /\ Missing(losses) /\ packetId = a + 2 + losses
              /\ packetBuffer = 0..(a + losses + 1)
              /\ round = a - 1 + 3 * (Count - 1) + losses + 1
       PROVE  /\ cc'.cwnd \in 1..(2 * Ssthresh + a + 1)
              /\ packetId' <= i' + 1
              /\ Course(packetId, 0)'
  <2>1. /\ cc.state # Recovery /\ cc.dupAcks = losses /\ cc.cwnd >= 2
        /\ cc.state = SlowStart => cc.ssthresh = Ssthresh /\ cc.cwnd < Ssthresh
        /\ a + 1 \in dropped /\ lastAckId = a
    BY <1>10, <1>12 DEF Missing
  <2>2. count = losses + 1 /\ new = OnDuplicate(cc) /\ isDup
    BY <2>1 DEF LossCount, OnPacketAcked, count, new, isDup
  <2>3. CASE losses < 2
    <3>1. new = [cc EXCEPT !.dupAcks = @ + 1]
      BY <1>1, <2>1, <2>2, <2>3, FirstDuplicates
    <3>2. /\ new.state = cc.state /\ new.cwnd = cc.cwnd /\ new.ssthresh = cc.ssthresh
          /\ new.dupAcks = count /\ ~back
      BY <1>1, <2>1, <2>2, <3>1 DEF ControlType, GoesBack, back
    <3>3. packetId' = packetId /\ i' = i + 1
      BY <1>6, <3>2
    <3>4. Missing(losses)'
      BY <1>6, <1>7, <2>1, <2>2, <3>2 DEF Missing
    <3>5. Course(packetId, 0)'
      <4>1. /\ count \in 1..2 /\ packetId = a + 1 + count /\ a + losses + 1 = a + count + 0
            /\ round = a - 1 + 3 * (Count - 1) + count
        BY <1>1, <1>12, <2>2, <2>3
      <4> QED
        BY <1>6, <1>7, <1>12, <3>3, <3>4, <4>1 DEF Course
    <3> QED
      BY <1>1, <1>6, <1>8, <2>1, <3>2, <3>3, <3>5
  <2>4. CASE losses = 2
    <3>1. /\ new.state = Recovery /\ new.ssthresh >= 1 /\ new.ssthresh <= new.cwnd
          /\ new.cwnd = new.ssthresh + 3 /\ 2 * new.ssthresh <= cc.cwnd
          /\ new.ssthresh \in Nat /\ new.cwnd \in Nat
      BY <1>1, <2>1, <2>2, <2>4, ThirdDuplicate
    <3>2. a + 1 > 2
      BY <1>1, <2>1, NumbersAssumption
    <3>3. new.cwnd <= 2 * Ssthresh + a + 1
      <4>1. cc.cwnd <= 2 * Ssthresh + a + 1 /\ cc.cwnd \in Nat
        BY <1>1, <1>8, <2>1
      <4> QED
        BY <1>1, <3>1, <3>2, <4>1
    <3>4. back /\ packetId' = a + 1 /\ i' = a + 2 /\ count = 3
      <4>1. back
        BY <2>2, <3>1 DEF GoesBack, back
      <4> QED
        BY <1>1, <1>6, <2>2, <2>4, <4>1
    <3>5. Mending(lastPacketId)'
      <4>1. a + 3 - 2 = a + 1
        BY <1>1
      <4>2. new.ssthresh \in 1..new.cwnd
        BY <3>1
      <4> QED
        BY <1>6, <1>7, <2>1, <3>1, <3>4, <4>1, <4>2 DEF Mending
    <3>6. Course(packetId, 0)'
      <4>1. a + losses + 1 = a + 3 /\ round = a - 1 + 3 * Count
        BY <1>1, <1>12, <2>4
      <4> QED
        BY <1>6, <1>7, <1>12, <3>4, <3>5, <4>1 DEF Course
    <3> QED
      BY <1>1, <1>6, <3>1, <3>3, <3>4, <3>6
  <2> QED
    BY <1>12, <2>3, <2>4
<1>13. ASSUME /\ Mending(a - 1) /\ packetId = a + 1
              /\ packetBuffer = 0..(a - 1 + losses)
              /\ round = a - 1 + 3 * Count
       PROVE  /\ cc'.cwnd \in 1..(2 * Ssthresh + a + 1)
              /\ packetId' <= i' + 1
              /\ Course(packetId, 0)'
  <2>1. /\ cc.state = Recovery /\ losses \in 1..3 /\ cc.ssthresh \in 1..cc.cwnd
        /\ (a - 1) + losses - 2 \in dropped /\ lastAckId = a - 1
    BY <1>13 DEF Mending
  <2>2. ~isDup /\ losses \in Nat /\ losses >= 1
    BY <1>1, <2>1 DEF isDup
  <2>3. count = losses - 1 /\ new = OnNewAck(cc, count) /\ ~back /\ count \in Nat
    BY <2>2 DEF LossCount, OnPacketAcked, GoesBack, count, new, back
  <2>4. packetId' = a + 1 /\ i' = i + 1
    BY <1>6, <1>13, <2>3
  <2>5. CASE count > 0
    <3>1. new.state = Recovery /\ new.cwnd = cc.cwnd + 1 /\ new.ssthresh = cc.ssthresh
      BY <1>1, <2>1, <2>3, <2>5, Repaired
    <3>2. new.cwnd \in 1..(2 * Ssthresh + a + 1)
      BY <1>1, <1>8, <2>1, <3>1
    <3>3. Mending(lastPacketId)'
      <4>1. /\ count \in 1..3 /\ a + count - 2 = (a - 1) + losses - 2
            /\ new.ssthresh \in 1..new.cwnd
        BY <1>1, <1>8, <2>1, <2>3, <2>5, <3>1
      <4> QED
        BY <1>6, <1>7, <2>1, <3>1, <4>1 DEF Mending
    <3>4. Course(packetId, 0)'
      <4>1. a - 1 + losses = a + count
        BY <1>1, <2>3
      <4> QED
        BY <1>6, <1>7, <1>13, <2>4, <3>3, <4>1 DEF Course
    <3> QED
      BY <1>1, <1>6, <1>8, <1>13, <2>4, <3>2, <3>4
  <2>6. CASE count = 0
    <3>1. new.state = Avoidance /\ new.cwnd \in 1..cc.ssthresh /\ new.dupAcks = 0
      BY <1>1, <2>1, <2>3, <2>6, Repaired
    <3>2. new.cwnd \in 1..(2 * Ssthresh + a + 1)
      BY <1>1, <1>8, <2>1, <3>1
    <3>3. Steady(lastPacketId)'
      <4>1. a - 2 \in dropped
        <5>1. (a - 1) + losses - 2 = a - 2
          BY <1>1, <2>2, <2>3, <2>6
        <5> QED
          BY <2>1, <5>1
      <4> QED
        BY <1>6, <1>7, <2>6, <3>1, <4>1, Thirds DEF Steady, Seen
    <3>4. Course(packetId, 0)'
      <4>1. a - 1 + losses = a + 0
        BY <1>1, <2>2, <2>3, <2>6
      <4> QED
        BY <1>6, <1>7, <1>13, <2>4, <3>3, <4>1 DEF Course
    <3> QED
      BY <1>1, <1>6, <1>8, <1>13, <2>4, <3>2, <3>4
  <2>7. count = 0 \/ count > 0
    <3>1. count \in Nat
      BY <2>3
    <3> QED
      BY <3>1
  <2> QED
    BY <2>5, <2>6, <2>7
<1> QED
  BY <1>4, <1>10, <1>11, <1>12, <1>13 DEF Replied

(* The server hears nothing but the end of the stream, or the SYN.         *)
LEMMA OpeningProgress ==
  ASSUME Inv, Progress, EndOfStream \/ ReceiveSYN
  PROVE  Progress'
<1>1. UNCHANGED <<client, i, packetId, lastAckId, packetBuffer, losses, cc, round, lastPacketId, dropped>>
  BY DEF EndOfStream, ReceiveSYN, sender
<1>2. Bounded'
  BY <1>1 DEF Progress, Bounded, Count
<1>3. CASE EndOfStream
  <2>1. server' = "down" /\ client \in {"done", "died"} /\ toServer' = <<>>
    BY <1>3 DEF EndOfStream
  <2> QED
    BY <1>1, <1>2, <2>1, Words DEF Progress
<1>4. CASE ReceiveSYN
  <2>1. server = SYN /\ toServer # <<>>
    BY <1>4 DEF ReceiveSYN
  <2>2. /\ Untouched /\ Unread /\ ~garbled /\ client = "handshake" /\ packetId = 1
        /\ packetBuffer = {0} /\ toServer = <<[id |-> 0, data |-> SYN]>> /\ toClient = <<>>
    BY <2>1, Words DEF Progress, Opening, Inv, AnswersAscend
  <2>3. /\ [id |-> 0, data |-> SYN] \in Message /\ [id |-> 0, data |-> SYN_ACK] \in Message
    BY DEF Message
  <2>4. toServer' = <<>>
    BY <1>4, <2>2, <2>3, OneMessage DEF ReceiveSYN
  <2>5. PICK equal \in BOOLEAN :
          /\ Reads(Head(toServer), SYN, equal)
          /\ IF equal THEN server' = ACK /\ Answer(0, SYN_ACK)
                      ELSE server' = "closed" /\ UNCHANGED toClient
    BY <1>4 DEF ReceiveSYN
  <2>6. CASE equal
    <3>1. server' = ACK /\ ~garbled'
      BY <2>2, <2>5, <2>6 DEF Reads
    <3>2. toClient' = <<[id |-> 0, data |-> SYN_ACK]>>
      <4>1. toClient' = Append(<<>>, [id |-> 0, data |-> SYN_ACK])
        BY <2>2, <2>5, <2>6 DEF Answer
      <4> QED
        BY <2>3, <4>1, OneMessage
    <3> QED
      BY <1>1, <1>2, <2>2, <2>4, <3>1, <3>2, Words DEF Progress, Untouched, Unread, Opening
  <2>7. CASE ~equal
    <3>1. server' = "closed" /\ toClient' = <<>>
      BY <2>2, <2>5, <2>7
    <3>2. cc'.cwnd = 1
      BY <1>1, <2>2 DEF Unread, NewControl
    <3> QED
      BY <1>1, <1>2, <2>2, <3>1, <3>2, Words DEF Progress, Untouched
  <2> QED
    BY <2>6, <2>7
<1> QED
  BY <1>3, <1>4

LEMMA ReceiveACKProgress ==
  ASSUME Inv, Progress, ReceiveACK
  PROVE  Progress'
<1>1. UNCHANGED <<toClient, client, i, packetId, lastAckId, packetBuffer, losses, cc, round,
                  lastPacketId, dropped>>
  BY DEF ReceiveACK, sender
<1>2. Bounded'
  BY <1>1 DEF Progress, Bounded, Count
<1>3. server = ACK /\ Untouched /\ Unread /\ Opening
  BY Words DEF Progress, ReceiveACK
<1>4. PICK n \in DOMAIN toServer : \E equal \in BOOLEAN :
        /\ toServer' = After(toServer, n)
        /\ Reads(Received(toServer, n), ACK, equal)
        /\ server' = IF equal THEN "loop" ELSE "closed"
  BY DEF ReceiveACK
<1>5. \/ server' = "loop" /\ Received(toServer, n).data = ACK /\ garbled' = garbled
      \/ server' = "closed"
  BY <1>4 DEF Reads
<1>6. DOMAIN <<>> = {}
  OBVIOUS
<1>7. /\ toClient = <<>> /\ client # "connect"
      /\ \/ /\ client \in {"send", "done"} /\ packetId = 2 /\ packetBuffer = 0..1 /\ ~garbled
            /\ toServer = <<Ack(1)>>
         \/ /\ client = "recv" /\ packetId = 3 /\ packetBuffer = 0..2 /\ ~garbled
            /\ toServer = <<Ack(1), Hello(2)>>
         \/ toServer = <<Hello(1)>>
  BY <1>3, <1>4, <1>6, Words DEF Opening
<1>8. CASE server' = "closed"
  <2>1. cc'.cwnd = 1
    BY <1>1, <1>3 DEF Unread, NewControl
  <2> QED
    BY <1>1, <1>2, <1>3, <1>7, <1>8, <2>1, Words DEF Progress, Untouched
<1>9. CASE server' = "loop" /\ Received(toServer, n).data = ACK /\ garbled' = garbled
  <2>1. Ack(1) \in Message /\ Hello(1) \in Message /\ Hello(2) \in Message
    BY Messages
  <2>2. Steady(lastPacketId)'
    <3>1. /\ cc.state # Recovery /\ cc.dupAcks = 0 /\ cc.ssthresh = Ssthresh /\ cc.cwnd = 1
      BY <1>3, Thirds DEF Unread, NewControl
    <3> QED
      BY <1>1, <1>3, <3>1 DEF Steady, Seen, Unread, Untouched
  <2>3. round' = lastPacketId' - 1 + 3 * Count' /\ lastPacketId' = 1 /\ packetId' = packetId
    <3>1. Count' = 0
      BY <1>1, <1>3, FS_EmptySet DEF Count, Untouched
    <3> QED
      BY <1>1, <1>3, <3>1 DEF Untouched
  <2>4. CASE /\ client \in {"send", "done"} /\ packetId = 2 /\ packetBuffer = 0..1 /\ ~garbled
             /\ toServer = <<Ack(1)>>
    <3>1. n = 1 /\ toServer' = <<>>
      <4>1. n = 1
        BY <2>1, <2>4, OneMessage
      <4> QED
        BY <1>4, <2>1, <2>4, <4>1, OneMessage
    <3>2. Course(packetId, 0)'
      BY <1>1, <2>2, <2>3, <2>4 DEF Course
    <3>3. packetId' <= i' + 1
      BY <1>1, <1>3, <2>4 DEF Unread
    <3>4. Exchange'
      BY <1>1, <1>7, <1>9, <2>4, <3>1, <3>2, <3>3 DEF Exchange
    <3> QED
      BY <1>1, <1>2, <1>9, <3>4, Words DEF Progress
  <2>5. CASE /\ client = "recv" /\ packetId = 3 /\ packetBuffer = 0..2 /\ ~garbled
             /\ toServer = <<Ack(1), Hello(2)>>
    <3>1. n = 1 /\ toServer' = <<Hello(2)>>
      <4>1. n \in {1, 2} /\ (n = 2 => Received(toServer, n).data = "run together")
        <5>1. /\ DOMAIN <<Ack(1), Hello(2)>> = {1, 2}
              /\ Received(<<Ack(1), Hello(2)>>, 2).data = "run together"
          BY <2>1, TwoMessages
        <5> QED
          BY <2>5, <5>1
      <4>2. n = 1
        BY <1>9, <4>1, Words
      <4> QED
        BY <1>4, <2>1, <2>5, <4>2, TwoMessages
    <3>2. Course(packetId - 1, 1)'
      BY <1>1, <2>2, <2>3, <2>5 DEF Course
    <3>3. Exchange'
      <4>1. packetId' - 1 = 2
        BY <1>1, <2>5
      <4> QED
        BY <1>1, <1>7, <1>9, <2>5, <3>1, <3>2, <4>1 DEF Exchange
    <3> QED
      BY <1>1, <1>2, <1>9, <3>3, Words DEF Progress
  <2>6. CASE toServer = <<Hello(1)>>
    <3>1. n = 1
      BY <2>1, <2>6, OneMessage
    <3>2. Received(toServer, n).data = DEFAULT_MESSAGE
      BY <2>1, <2>6, <3>1, OneMessage DEF Hello
    <3> QED
      BY <1>9, <3>2, Words
  <2> QED
    BY <1>7, <2>4, <2>5, <2>6
<1> QED
  BY <1>5, <1>8, <1>9

(* The server reads what the client sent last.                             *)
LEMMA ReceiveDataProgress ==
  ASSUME Inv, Progress, ReceiveData
  PROVE  Progress'
<1> DEFINE a == lastPacketId
           p == packetId - 1
<1>1. /\ client \in {"connect", "handshake", "send", "recv", "done", "died"}
      /\ i \in Nat /\ packetId \in Nat /\ p \in Int
      /\ a \in Nat /\ a >= 1 /\ losses \in Nat /\ cc \in ControlType /\ lastAckId \in Nat \cup {-1}
      /\ Count \in Nat /\ dropped \subseteq Dropped /\ round \in Nat /\ PacketsToSend \in Nat
  <2>1. round \in Nat
    BY Types, CongestionAssumption DEF Inv, TypeParts
  <2>2. a >= 1
    BY DEF Inv, AnswersAscend
  <2> QED
    BY <2>1, <2>2, Types, Counted, CongestionAssumption DEF Inv, TypeParts
<1>2. server = "loop" /\ round' = round + 1
  BY DEF ReceiveData
<1>3. PICK n \in DOMAIN toServer, equal \in BOOLEAN :
        LET packet == Received(toServer, n)
            next   == InOrder(packet.id)
            ignore == next /\ Ignored(packet.id)
        IN
        /\ toServer' = After(toServer, n)
        /\ Reads(packet, DEFAULT_MESSAGE, equal)
        /\ dropped' = IF equal /\ ignore THEN dropped \cup {packet.id} ELSE dropped
        /\ lastPacketId' = IF equal /\ next /\ ~ignore THEN packet.id ELSE lastPacketId
        /\ IF equal THEN Answer(lastPacketId', ACK) ELSE UNCHANGED toClient
  BY DEF ReceiveData
<1>4. DOMAIN <<>> = {}
  OBVIOUS
<1>5. /\ client = "recv" /\ ~garbled /\ toServer = <<Hello(p)>> /\ toClient = <<>> /\ Course(p, 1)
  BY <1>2, <1>3, <1>4, Words DEF Progress, Exchange
<1>6. Hello(p) \in Message
  <2>1. p \in Nat
    BY <1>1, <1>5 DEF Course
  <2> QED
    BY <2>1, Messages
<1>7. /\ n = 1 /\ toServer' = <<>> /\ Received(toServer, n).id = p
      /\ Received(toServer, n).data = DEFAULT_MESSAGE
  <2>1. DOMAIN toServer = {1}
    BY <1>5, <1>6, OneMessage
  <2>2. n = 1
    BY <1>3, <2>1
  <2> QED
    BY <1>3, <1>5, <1>6, <2>2, OneMessage DEF Hello
<1>8. /\ client' = client /\ i' = i /\ packetId' = packetId /\ lastAckId' = lastAckId
      /\ packetBuffer' = packetBuffer /\ losses' = losses /\ cc' = cc /\ server' = server
  BY DEF ReceiveData, sender
<1>9. /\ cc.cwnd \in 1..(2 * Ssthresh + lastAckId + 1)
      /\ packetBuffer \subseteq 0..(PacketsToSend + 1) /\ a <= PacketsToSend + 1
      /\ packetId <= i + 1 \/ (client \in {"recv", "died"} /\ packetId = i + 2)
  BY DEF Progress, Bounded
<1> HIDE DEF a, p
<1>10. a = lastPacketId /\ packetId = p + 1
  BY <1>1 DEF a, p
<1>11. SUFFICES /\ round' <= lastPacketId' + 3 * Count'
                /\ lastPacketId' <= PacketsToSend + 1
                /\ \/ garbled' /\ toClient' = <<>>
                   \/ ~garbled' /\ toClient' = <<Ack(lastPacketId')>> /\ Replied'
  <2>1. Bounded'
    BY <1>8, <1>9, <1>11 DEF Bounded
  <2>2. Exchange'
    BY <1>5, <1>7, <1>8, <1>11 DEF Exchange
  <2> QED
    BY <1>2, <1>8, <2>1, <2>2, Words DEF Progress
<1>12. CASE ~equal
  <2>1. /\ garbled' /\ toClient' = <<>> /\ lastPacketId' = a /\ dropped' = dropped
    BY <1>3, <1>5, <1>7, <1>10, <1>12 DEF Reads
  <2>2. Count' = Count
    BY <2>1 DEF Count
  <2>3. round + 1 <= a + 3 * Count
    BY <1>1, <1>5, <1>10 DEF Course
  <2> QED
    BY <1>2, <1>9, <2>1, <2>2, <2>3
<1>13. CASE equal
  <2>1. /\ ~garbled'
        /\ dropped' = IF InOrder(p) /\ Ignored(p) THEN dropped \cup {p} ELSE dropped
        /\ lastPacketId' = IF InOrder(p) /\ ~Ignored(p) THEN p ELSE lastPacketId
        /\ Answer(lastPacketId', ACK)
    <3>1. ~garbled'
      BY <1>3, <1>5, <1>13 DEF Reads
    <3>2. dropped' = IF InOrder(p) /\ Ignored(p) THEN dropped \cup {p} ELSE dropped
      BY <1>3, <1>7, <1>13
    <3>3. lastPacketId' = IF InOrder(p) /\ ~Ignored(p) THEN p ELSE lastPacketId
      BY <1>3, <1>7, <1>13
    <3>4. Answer(lastPacketId', ACK)
      BY <1>3, <1>13
    <3> QED
      BY <3>1, <3>2, <3>3, <3>4
  <2>2. toClient' = <<Ack(lastPacketId')>>
    <3>1. lastPacketId' \in Nat
      <4>1. p \in Nat
        BY <1>1, <1>5, <1>10 DEF Course
      <4> QED
        BY <1>1, <1>10, <2>1, <4>1
    <3>2. Ack(lastPacketId') \in Message /\ toClient' = Append(<<>>, Ack(lastPacketId'))
      BY <1>5, <2>1, <3>1, Messages DEF Answer, Ack
    <3> QED
      BY <3>2, OneMessage
  <2>3. SUFFICES /\ round' <= lastPacketId' + 3 * Count'
                 /\ lastPacketId' <= PacketsToSend + 1
                 /\ Replied'
    BY <2>1, <2>2
  <2>4. ASSUME /\ Steady(a) /\ p = a + 1 /\ packetBuffer = 0..(a + 1)
               /\ round = a - 1 + 3 * Count
        PROVE  /\ round' <= lastPacketId' + 3 * Count'
               /\ lastPacketId' <= PacketsToSend + 1
               /\ Replied'
    <3>1. InOrder(p)
      BY <1>10, <2>4 DEF InOrder
    <3>2. CASE ~Ignored(p)
      <4>1. lastPacketId' = a + 1 /\ dropped' = dropped
        BY <2>1, <2>4, <3>1, <3>2
      <4>2. Count' = Count /\ round' = a + 3 * Count /\ lastPacketId' - 1 = a
        BY <1>1, <1>2, <2>4, <4>1 DEF Count
      <4>3. a + 1 <= PacketsToSend + 1
        <5>1. a + 1 \in 0..(a + 1)
          BY <1>1
        <5> QED
          BY <1>1, <1>9, <2>4, <5>1
      <4>4. Steady(lastPacketId - 1)'
        BY <1>8, <2>4, <4>1, <4>2 DEF Steady, Seen
      <4>5. /\ packetId' = lastPacketId' + 1 /\ lastPacketId' >= 2
            /\ packetBuffer' = 0..lastPacketId'
            /\ round' = lastPacketId' - 1 + 3 * Count'
        BY <1>1, <1>8, <1>10, <2>4, <4>1, <4>2
      <4>6. Replied'
        BY <4>4, <4>5 DEF Replied
      <4> QED
        BY <1>1, <4>1, <4>2, <4>3, <4>6
    <3>3. CASE Ignored(p)
      <4>1. lastPacketId' = a /\ dropped' = dropped \cup {a + 1} /\ a + 1 \in Dropped \ dropped
        BY <1>10, <2>1, <2>4, <3>1, <3>3 DEF Ignored
      <4>2. Count' = Count + 1
        BY <4>1, Counted DEF Count
      <4>3. a + 1 > 2 /\ a - 2 \notin dropped
        <5>1. a + 1 > 2
          BY <4>1, NumbersAssumption
        <5>2. SUFFICES ASSUME a - 2 \in dropped PROVE FALSE
          BY <5>1
        <5>3. a - 2 \in Dropped /\ a + 1 \in Dropped /\ a - 2 < a + 1
          BY <1>1, <4>1, <5>2
        <5>4. (a - 2) + 4 <= a + 1
          BY <5>3, NumbersAssumption
        <5> QED
          BY <1>1, <5>4
      <4>4. cc.cwnd >= 2 /\ lastAckId = a
        BY <1>1, <1>9, <2>4, <4>3 DEF Steady, Seen
      <4>5. Missing(losses)' /\ losses' = 0
        BY <1>8, <2>4, <4>1, <4>4 DEF Steady, Missing
      <4>6. /\ packetId' = lastPacketId' + 2 + losses'
            /\ packetBuffer' = 0..(lastPacketId' + losses' + 1)
            /\ round' = lastPacketId' - 1 + 3 * (Count' - 1) + losses' + 1
        <5>1. a + 0 + 1 = a + 1
          BY <1>1
        <5> QED
          BY <1>1, <1>2, <1>8, <1>10, <2>4, <4>1, <4>2, <4>5, <5>1
      <4>7. Replied'
        BY <4>5, <4>6 DEF Replied
      <4> QED
        BY <1>1, <1>2, <1>9, <2>4, <4>1, <4>2, <4>7
    <3> QED
      BY <3>2, <3>3
  <2>5. ASSUME /\ losses \in 1..2 /\ Missing(losses) /\ p = a + 1 + losses
               /\ packetBuffer = 0..(a + losses + 1)
               /\ round = a - 1 + 3 * (Count - 1) + losses
        PROVE  /\ round' <= lastPacketId' + 3 * Count'
               /\ lastPacketId' <= PacketsToSend + 1
               /\ Replied'
    <3>1. ~InOrder(p)
      BY <1>1, <1>10, <2>5 DEF InOrder
    <3>2. lastPacketId' = a /\ dropped' = dropped /\ Count' = Count
      BY <1>10, <2>1, <3>1 DEF Count
    <3>3. Missing(losses)'
      BY <1>8, <1>10, <2>5, <3>2 DEF Missing
    <3>4. /\ packetId' = lastPacketId' + 2 + losses'
          /\ packetBuffer' = 0..(lastPacketId' + losses' + 1)
          /\ round' = lastPacketId' - 1 + 3 * (Count' - 1) + losses' + 1
          /\ losses' \in 0..2
      BY <1>1, <1>2, <1>8, <1>10, <2>5, <3>2
    <3>5. Replied'
      BY <3>3, <3>4 DEF Replied
    <3> QED
      BY <1>1, <1>2, <1>9, <2>5, <3>2, <3>5
  <2>6. ASSUME /\ Mending(a) /\ p = a + 1 /\ packetBuffer = 0..(a + losses)
               /\ round = a - 1 + 3 * Count
        PROVE  /\ round' <= lastPacketId' + 3 * Count'
               /\ lastPacketId' <= PacketsToSend + 1
               /\ Replied'
    <3>1. losses \in 1..3 /\ a + losses - 2 \in dropped
      BY <2>6 DEF Mending
    <3>2. InOrder(p)
      BY <1>10, <2>6 DEF InOrder
    <3>3. ~Ignored(p)
      <4>1. SUFFICES ASSUME a + 1 \in Dropped, a + 1 \notin dropped PROVE FALSE
        BY <2>6 DEF Ignored
      <4>2. a + losses - 2 \in Dropped /\ a + losses - 2 <= a + 1 /\ a + losses - 2 # a + 1
        BY <1>1, <3>1, <4>1
      <4>3. a + losses - 2 < a + 1
        BY <1>1, <4>2
      <4>4. (a + losses - 2) + 4 <= a + 1
        BY <4>1, <4>2, <4>3, NumbersAssumption
      <4> QED
        BY <1>1, <3>1, <4>4
    <3>4. lastPacketId' = a + 1 /\ dropped' = dropped
      BY <2>1, <2>6, <3>2, <3>3
    <3>5. Count' = Count /\ round' = a + 3 * Count /\ lastPacketId' - 1 = a
      BY <1>1, <1>2, <2>6, <3>4 DEF Count
    <3>6. a + 1 <= PacketsToSend + 1
      <4>1. a + 1 \in 0..(a + losses)
        BY <1>1, <3>1
      <4> QED
        BY <1>1, <1>9, <2>6, <4>1
    <3>7. Mending(lastPacketId - 1)'
      BY <1>8, <2>6, <3>4, <3>5 DEF Mending
    <3>8. /\ packetId' = lastPacketId' + 1
          /\ packetBuffer' = 0..(lastPacketId' - 1 + losses')
          /\ round' = lastPacketId' - 1 + 3 * Count'
      BY <1>1, <1>8, <1>10, <2>6, <3>4, <3>5
    <3>9. Replied'
      BY <3>7, <3>8 DEF Replied
    <3> QED
      BY <1>1, <3>4, <3>5, <3>6, <3>9
  <2> QED
    BY <1>5, <1>10, <2>4, <2>5, <2>6 DEF Course
<1> QED
  BY <1>12, <1>13

LEMMA InitProgress == Init => Progress
<1> SUFFICES ASSUME Init PROVE Progress
  OBVIOUS
<1>1. Ssthresh \in Nat /\ Ssthresh >= 1 /\ PacketsToSend \in Nat
  BY CongestionAssumption
<1>2. cc.cwnd = 1 /\ Count = 0
  BY FS_EmptySet DEF Init, NewControl, Count
<1>3. Bounded
  BY <1>1, <1>2 DEF Init, Bounded
<1> QED
  BY <1>3, Words DEF Init, Progress, Untouched, Unread, Opening

LEMMA NextProgress == Inv /\ Progress /\ [Next]_vars => Progress'
<1> SUFFICES ASSUME Inv, Progress, [Next]_vars PROVE Progress'
  OBVIOUS
<1>1. CASE UNCHANGED vars
  <2>1. UNCHANGED <<toServer, toClient, client, i, packetId, lastAckId, packetBuffer, losses, cc,
                    server, round, lastPacketId, dropped, garbled, severed>>
    BY <1>1 DEF vars, sender, receiver
  <2>2. Bounded' /\ (Untouched => Untouched') /\ (Unread => Unread') /\ (Opening => Opening')
    BY <2>1 DEF Progress, Bounded, Count, Untouched, Unread, Opening
  <2>3. /\ Course(packetId, 0) => Course(packetId, 0)'
        /\ Course(packetId - 1, 1) => Course(packetId - 1, 1)'
        /\ Replied => Replied'
    BY <2>1 DEF Course, Replied, Steady, Missing, Mending, Seen, Count
  <2>4. Exchange => Exchange'
    BY <2>1, <2>3 DEF Exchange
  <2> QED
    BY <2>1, <2>2, <2>4 DEF Progress
<1>2. CASE Client
  BY <1>2, ConnectProgress, HandshakeProgress, EndingProgress, SendDataProgress,
     ReceiveAckProgress DEF Client
<1>3. CASE Server
  BY <1>3, OpeningProgress, ReceiveACKProgress, ReceiveDataProgress DEF Server
<1> QED
  BY <1>1, <1>2, <1>3 DEF Next

LEMMA Progressing == Spec => [](Inv /\ Progress)
BY Invariance, InitProgress, NextProgress, PTL DEF Spec

(* The congestion window never leaves its bounds, for every threshold and  *)
(* width of uint32_t: leaving recovery, ssthresh_ - 1 never wraps.         *)
THEOREM WindowBounded == Spec => []WindowSane
<1>1. Progress => WindowSane
  BY DEF Progress, Bounded, WindowSane
<1> QED
  BY <1>1, Progressing, PTL

(* handle_client's loop never runs out of turns, whichever packets are     *)
(* ignored: the client's close comes first.                                *)
THEOREM TurnsLeft == Spec => []RoundsSuffice
<1>1. Inv /\ Progress => RoundsSuffice
  <2> SUFFICES ASSUME Inv, Progress PROVE RoundsSuffice
    OBVIOUS
  <2>1. /\ round <= lastPacketId + 3 * Count /\ lastPacketId <= PacketsToSend + 1
    BY DEF Progress, Bounded
  <2>2. /\ Count \in Nat /\ Count <= Cardinality(Dropped) /\ Cardinality(Dropped) \in Nat
    BY Counted
  <2>3. /\ round \in Nat /\ lastPacketId \in Nat /\ PacketsToSend \in Nat /\ Rounds \in Nat
    BY Types, CongestionAssumption DEF Inv, TypeParts
  <2>4. Rounds > PacketsToSend + 1 + 3 * Cardinality(Dropped)
    BY NumbersAssumption
  <2> QED
    BY <2>1, <2>2, <2>3, <2>4 DEF RoundsSuffice
<1> QED
  BY <1>1, Progressing, PTL

LEMMA LastOf ==
  ASSUME NEW h \in Nat
  PROVE  Max(0..h) = h
<1>1. h \in 0..h /\ \A y \in 0..h : h >= y
  OBVIOUS
<1>2. \A x \in 0..h : (\A y \in 0..h : x >= y) => x = h
  OBVIOUS
<1> QED
  BY <1>1, <1>2 DEF Max

(* Whenever the client has its answer, its count of losses is how far the  *)
(* last acknowledgement is behind what it has sent, and the server has     *)
(* accepted what was acknowledged and no more: no answer is counted twice  *)
(* or missed, for any set of ignored packets.                              *)
THEOREM LossesCounted == Spec => []LossesAreTheHole
<1>1. Inv /\ Progress => LossesAreTheHole
  <2> SUFFICES ASSUME Inv, Progress, Undisturbed, Answered
               PROVE  losses = Max(packetBuffer) - lastAckId /\ lastAckId = lastPacketId
    BY DEF LossesAreTheHole
  <2>1. /\ server \in {SYN, ACK, "loop", "closed", "down"} /\ losses \in Nat /\ lastPacketId \in Nat
        /\ lastAckId \in Nat \cup {-1} /\ PacketsToSend \in Nat /\ lastPacketId >= 1
    BY Types, CongestionAssumption DEF Inv, TypeParts, AnswersAscend
  <2>2. client = "send" /\ ~garbled /\ server # "closed" /\ packetBuffer # 0..1
    <3>1. (0..1) \cap (2..PacketsToSend + 1) = {}
      BY <2>1
    <3> QED
      BY <3>1 DEF Answered, Undisturbed, Closed
  <2>3. Course(packetId, 0)
    BY <2>1, <2>2, Words DEF Progress, Opening, Exchange
  <2>4. \A k \in Nat : Max(0..k) = k
    BY LastOf
  <2>5. CASE Steady(lastPacketId) /\ packetBuffer = 0..(lastPacketId + 0)
    <3>1. lastPacketId + 0 = lastPacketId /\ losses = 0 /\ Seen(lastPacketId)
      BY <2>1, <2>5 DEF Steady
    <3>2. Max(packetBuffer) = lastPacketId
      BY <2>1, <2>4, <2>5, <3>1
    <3>3. lastPacketId # 1
      BY <2>2, <2>5, <3>1
    <3> QED
      BY <2>1, <3>1, <3>2, <3>3 DEF Seen
  <2>6. CASE Missing(losses) /\ packetBuffer = 0..(lastPacketId + losses + 0)
    <3>1. lastPacketId + losses + 0 = lastPacketId + losses /\ lastPacketId + losses \in Nat
      BY <2>1
    <3>2. Max(packetBuffer) = lastPacketId + losses
      BY <2>4, <2>6, <3>1
    <3> QED
      BY <2>1, <2>6, <3>2 DEF Missing
  <2>7. CASE Mending(lastPacketId) /\ packetBuffer = 0..(lastPacketId + losses)
    <3>1. Max(packetBuffer) = lastPacketId + losses
      BY <2>1, <2>4, <2>7
    <3> QED
      BY <2>1, <2>7, <3>1 DEF Mending
  <2> QED
    BY <2>3, <2>5, <2>6, <2>7 DEF Course
<1> QED
  BY <1>1, Progressing, PTL
=============================================================================
