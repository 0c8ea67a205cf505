----------------------------- MODULE Congestion -----------------------------
(***************************************************************************)
(* src/A4/Part2: a client sends numbered packets over one TCP connection,  *)
(* each after the answer to the one before, and keeps a congestion window; *)
(* the server acknowledges the last packet that came in order and feigns   *)
(* the loss of some.  A recv returns whatever the stream holds, so two     *)
(* sends may come out as one string.                                       *)
(***************************************************************************)
EXTENDS Integers, Sequences, FiniteSets, FiniteSetsExt

CONSTANTS PacketsToSend,  \* packetsToSend, 40
          Dropped,        \* ids the server ignores once, 10 and 23
          Rounds,         \* turns of the server's loop, 101
          Ssthresh,       \* the first ssthresh_, 64
          Wrap            \* 2^32, where uint32_t wraps; less for TLC

ASSUME CongestionAssumption ==
  /\ PacketsToSend \in Nat /\ Dropped \subseteq Nat
  /\ Rounds \in Nat /\ Ssthresh \in Nat \ {0} /\ Wrap \in Nat /\ Wrap > Ssthresh

(* What the program's numbers have in common (40, 10 and 23, 101): the     *)
(* window has grown before a packet is ignored, one loss is made good      *)
(* before the next, and the server has turns for every packet, for three   *)
(* more a loss and for a comparison that fails.                            *)
ASSUME NumbersAssumption ==
  /\ IsFiniteSet(Dropped)
  /\ \A d \in Dropped : d > 2
  /\ \A d, e \in Dropped : d < e => d + 4 <= e
  /\ Rounds > PacketsToSend + 1 + 3 * Cardinality(Dropped)

VARIABLES
  toServer, toClient,  \* the two directions of the connection: [id, data]
  client,              \* where the client's code stands
  i,                   \* send_data's loop counter
  packetId, lastAckId,
  packetBuffer,        \* ids of the packets sent
  losses,              \* numberOfLossPacket
  cc,                  \* the CongestionControl object
  server,              \* where handle_client stands
  round,               \* its loop counter
  lastPacketId,
  dropped,             \* Dropped ids already ignored (flag7, flag8)
  garbled,             \* a getData() pointer no longer led to the data
  severed              \* packets sent into a connection the server has closed

sender   == <<client, i, packetId, lastAckId, packetBuffer, losses, cc>>
receiver == <<server, round, lastPacketId, dropped>>
vars     == <<toServer, toClient, sender, receiver, garbled, severed>>

SYN == "SYN"   SYN_ACK == "SYN_ACK"   ACK == "ACK"   DEFAULT_MESSAGE == "Hello"

-----------------------------------------------------------------------------
(* CongestionControl.cpp: what the calls make of the object.  cwnd_ is a   *)
(* float that is only set to, doubled from and increased by whole numbers, *)
(* exact up to 2^24; ssthresh_ is a uint32_t.                              *)

SlowStart == "SLOW_START"   Avoidance == "CONGESTION_AVOIDANCE"   Recovery == "FAST_RECOVERY"

NewControl == [state |-> SlowStart, cwnd |-> 1, ssthresh |-> Ssthresh, dupAcks |-> 0]

EnterFastRecovery(c) ==
  [c EXCEPT !.ssthresh = c.cwnd \div 2, !.cwnd = c.cwnd \div 2 + 3, !.state = Recovery]

(* ssthresh_ - 1 in uint32_t *)
ExitFastRecovery(c) ==
  [c EXCEPT !.cwnd = (c.ssthresh + Wrap - 1) % Wrap, !.state = Avoidance]

OnDuplicate(c) ==
  LET d == [c EXCEPT !.dupAcks = @ + 1] IN
  CASE d.state = Recovery                   -> [d EXCEPT !.cwnd = @ + 1]
    [] d.state # Recovery /\ d.dupAcks = 3  -> EnterFastRecovery(d)
    [] d.state # Recovery /\ d.dupAcks # 3  -> d

(* Mutant: slow start does not end at the threshold. *)
GrowPast(c) ==
  CASE c.state = SlowStart -> [c EXCEPT !.cwnd = 2 * @]
    [] c.state = Avoidance -> [c EXCEPT !.cwnd = @ + 1]
    [] c.state = Recovery  -> c

Grow(c) ==
  CASE c.state = SlowStart -> [c EXCEPT !.cwnd = 2 * @,
                                        !.state = IF 2 * c.cwnd >= c.ssthresh THEN Avoidance ELSE @]
    [] c.state = Avoidance -> [c EXCEPT !.cwnd = @ + 1]
    [] c.state = Recovery  -> c

(* Leaving recovery falls through to the growth of its new state.          *)
OnNewAck(c, lossCount) ==
  LET d == [c EXCEPT !.dupAcks = 0] IN
  Grow(CASE d.state = Recovery /\ lossCount <= 0 -> ExitFastRecovery(d)
         [] d.state = Recovery /\ lossCount > 0  -> [d EXCEPT !.cwnd = @ + 1]
         [] d.state # Recovery                   -> d)

OnPacketAcked(c, isDuplicateAck, lossCount) ==
  IF isDuplicateAck THEN OnDuplicate(c) ELSE OnNewAck(c, lossCount)

OnTimeout(c) == [c EXCEPT !.ssthresh = c.cwnd \div 2, !.cwnd = 1, !.state = SlowStart]

-----------------------------------------------------------------------------
Init ==
  /\ toServer = <<>> /\ toClient = <<>>
  /\ client = "connect" /\ i = 1 /\ packetId = 0 /\ lastAckId = -1
  /\ packetBuffer = {} /\ losses = 0 /\ cc = NewControl
  /\ server = SYN /\ round = 0 /\ lastPacketId = 1 /\ dropped = {}
  /\ garbled = FALSE /\ severed = 0

(* recv: the first n messages of the stream as one string, decoded.  More  *)
(* than one has the id of the first and data that equals no constant.      *)
Received(stream, n) ==
  [id |-> Head(stream).id, data |-> IF n = 1 THEN Head(stream).data ELSE "run together"]

After(stream, n) == SubSeq(stream, n + 1, Len(stream))

(* strcmp(getData(), text): decode returns a pointer into a string it has  *)
(* destroyed, so the comparison may also see something else.               *)
Reads(packet, text, equal) ==
  \/ equal = (packet.data = text) /\ UNCHANGED garbled
  \/ equal = FALSE /\ garbled' = TRUE

Closed == server = "closed"

-----------------------------------------------------------------------------
(* The client. *)

(* Client::sendTo.  After the server has closed, a send draws a reset, and *)
(* one that follows the reset ends the client with SIGPIPE.                *)
SendTo(message, next) ==
  /\ packetBuffer' = packetBuffer \cup {packetId}
  /\ packetId' = packetId + 1
  /\ IF Closed
       THEN /\ severed' = severed + 1
            /\ client' = next \/ (severed > 0 /\ client' = "died")
            /\ UNCHANGED toServer
       ELSE /\ toServer' = Append(toServer, [id |-> packetId, data |-> message])
            /\ client' = next
            /\ UNCHANGED severed

Connect ==
  /\ client = "connect"
  /\ SendTo(SYN, "handshake")
  /\ UNCHANGED <<toClient, i, lastAckId, losses, cc, receiver, garbled>>

(* The second half of perform_handshake. *)
Handshake ==
  /\ client = "handshake"
  /\ toClient # <<>>
  /\ toClient' = Tail(toClient)
  /\ \E equal \in BOOLEAN :
       /\ Reads(Head(toClient), SYN_ACK, equal)
       /\ IF equal THEN SendTo(ACK, "send")
                   ELSE client' = "send" /\ UNCHANGED <<packetBuffer, packetId, toServer, severed>>
  /\ UNCHANGED <<i, lastAckId, losses, cc, receiver>>

(* Nothing but the end of the stream: decode("") throws. *)
HandshakeRefused ==
  /\ client = "handshake"
  /\ toClient = <<>> /\ Closed
  /\ client' = "died"
  /\ UNCHANGED <<toServer, toClient, i, packetId, lastAckId, packetBuffer, losses, cc,
                 receiver, garbled, severed>>

(* The head of send_data's loop. *)
SendData ==
  /\ client = "send"
  /\ i <= PacketsToSend
  /\ SendTo(DEFAULT_MESSAGE, "recv")
  /\ UNCHANGED <<toClient, i, lastAckId, losses, cc, receiver, garbled>>

(* numberOfLossPacket after an answer; the mutants reset it or let it run  *)
(* below zero.                                                             *)
CountReset(n, isDup)     == IF isDup THEN n + 1 ELSE 0
CountUnguarded(n, isDup) == IF isDup THEN n + 1 ELSE n - 1
LossCount(n, isDup)      == IF isDup THEN n + 1 ELSE IF n > 0 THEN n - 1 ELSE n

(* The answer sends the loop back; the mutant's loop never goes back.      *)
GoesBackNever(isDup, c) == FALSE
GoesBack(isDup, c)      == isDup /\ c.state = Recovery

(* The rest of the turn, with an answer.  In recovery every duplicate      *)
(* sends the loop back to the packet after the last acknowledged one; the  *)
(* loop's own i++ follows.                                                 *)
ReceiveAck ==
  LET id    == Head(toClient).id
      isDup == id = lastAckId
      count == LossCount(losses, isDup)
      new   == OnPacketAcked(cc, isDup, count)
      back  == GoesBack(isDup, new)
  IN
  /\ client = "recv"
  /\ toClient # <<>>
  /\ toClient' = Tail(toClient)
  /\ lastAckId' = id
  /\ losses' = count
  /\ cc' = new
  /\ packetId' = IF back THEN id + 1 ELSE packetId
  /\ i' = (IF back THEN id + 1 ELSE i) + 1
  /\ client' = "send"
  /\ UNCHANGED <<toServer, packetBuffer, receiver, garbled, severed>>

(* recv returns 0 or -1 once the server has closed the connection. *)
Timeout ==
  /\ client = "recv"
  /\ toClient = <<>> /\ Closed
  /\ cc' = OnTimeout(cc)
  /\ i' = i + 1
  /\ client' = "send"
  /\ UNCHANGED <<toServer, toClient, packetId, lastAckId, packetBuffer, losses,
                 receiver, garbled, severed>>

Finish ==
  /\ client = "send"
  /\ i > PacketsToSend
  /\ client' = "done"
  /\ UNCHANGED <<toServer, toClient, i, packetId, lastAckId, packetBuffer, losses, cc,
                 receiver, garbled, severed>>

-----------------------------------------------------------------------------
(* The server: handle_client. *)

Answer(id, message) == toClient' = Append(toClient, [id |-> id, data |-> message])

ReceiveSYN ==
  /\ server = SYN
  /\ toServer # <<>>
  /\ toServer' = Tail(toServer)
  /\ \E equal \in BOOLEAN :
       /\ Reads(Head(toServer), SYN, equal)
       /\ IF equal THEN server' = ACK /\ Answer(0, SYN_ACK)
                   ELSE server' = "closed" /\ UNCHANGED toClient
  /\ UNCHANGED <<sender, round, lastPacketId, dropped, severed>>

(* The ACK may come run together with the first packet. *)
ReceiveACK ==
  /\ server = ACK
  /\ \E n \in DOMAIN toServer : \E equal \in BOOLEAN :
       /\ toServer' = After(toServer, n)
       /\ Reads(Received(toServer, n), ACK, equal)
       /\ server' = IF equal THEN "loop" ELSE "closed"
  /\ UNCHANGED <<toClient, sender, round, lastPacketId, dropped, severed>>

(* A packet the server takes no notice of, once; the mutant never does.    *)
IgnoredForGood(id) == id \in Dropped
Ignored(id)        == id \in Dropped \ dropped

(* Only the next packet is accepted; the mutant takes any newer one.       *)
Newer(id)   == id > lastPacketId
InOrder(id) == id = lastPacketId + 1

(* One turn of the loop. *)
ReceiveData ==
  /\ server = "loop"
  /\ round < Rounds
  /\ round' = round + 1
  /\ \E n \in DOMAIN toServer : \E equal \in BOOLEAN :
       LET packet == Received(toServer, n)
           next   == InOrder(packet.id)
           ignore == next /\ Ignored(packet.id)
       IN
       /\ toServer' = After(toServer, n)
       /\ Reads(packet, DEFAULT_MESSAGE, equal)
       /\ dropped' = IF equal /\ ignore THEN dropped \cup {packet.id} ELSE dropped
       /\ lastPacketId' = IF equal /\ next /\ ~ignore THEN packet.id ELSE lastPacketId
       /\ IF equal THEN Answer(lastPacketId', ACK) ELSE UNCHANGED toClient
  /\ UNCHANGED <<sender, server, severed>>

(* The client's close: decode("") throws in the handler's thread and ends  *)
(* the program.  (No handler gets past its loop, see RoundsSuffice.)       *)
EndOfStream ==
  /\ server \in {SYN, ACK, "loop"}
  /\ client \in {"done", "died"} /\ toServer = <<>>
  /\ server' = "down"
  /\ UNCHANGED <<toServer, toClient, sender, round, lastPacketId, dropped, garbled, severed>>

-----------------------------------------------------------------------------
Client == \/ Connect \/ Handshake \/ HandshakeRefused \/ SendData
          \/ ReceiveAck \/ Timeout \/ Finish

Server == ReceiveSYN \/ ReceiveACK \/ ReceiveData \/ EndOfStream

Next == Client \/ Server

Spec == Init /\ [][Next]_vars

FairSpec == Spec /\ WF_vars(Client) /\ WF_vars(Server)

-----------------------------------------------------------------------------
(* Properties. *)

Message == [id : Nat, data : {SYN, SYN_ACK, ACK, DEFAULT_MESSAGE}]

(* The type invariant: counters never go below zero, the streams hold     *)
(* packets, the server counts at most Rounds turns.                        *)
TypeOK ==
  /\ toServer \in Seq(Message) /\ toClient \in Seq(Message)
  /\ client \in {"connect", "handshake", "send", "recv", "done", "died"}
  /\ server \in {SYN, ACK, "loop", "closed", "down"}
  /\ {i, packetId, losses, lastPacketId, severed} \subseteq Nat
  /\ lastAckId \in Nat \cup {-1}
  /\ packetBuffer \subseteq Nat /\ dropped \subseteq Dropped
  /\ round \in 0..Rounds
  /\ cc \in [state : {SlowStart, Avoidance, Recovery}, cwnd : Nat, ssthresh : Nat, dupAcks : Nat]
  /\ garbled \in BOOLEAN

(* The transfer has gone as planned: every comparison saw the data, and    *)
(* the ACK did not come run together with the first packet.                *)
Undisturbed == ~garbled /\ ~Closed

Answered == client = "send" /\ packetBuffer \cap (2..PacketsToSend + 1) # {}

(* numberOfLossPacket is the hole: how many packets sent so far the last   *)
(* acknowledgement does not cover.                                         *)
LossesAreTheHole ==
  Undisturbed /\ Answered => losses = Max(packetBuffer) - lastAckId /\ lastAckId = lastPacketId

(* The window stays between one packet and what slow start up to the       *)
(* threshold and one packet for every packet acknowledged explain, through *)
(* every loss: uint32_t never wraps in exitFastRecovery's ssthresh_ - 1.   *)
WindowSane == cc.cwnd \in 1..(2 * Ssthresh + lastAckId + 1)

(* The server keeps the promises of Transfer, through every cut of the     *)
(* stream, feigned loss and garbled comparison.                            *)
Promise == INSTANCE Transfer WITH sent <- packetBuffer, accepted <- lastPacketId,
                                  acknowledged <- lastAckId

InOrderAndAcknowledged == Promise!Spec

(* The loop of handle_client always has turns left for the client.  So no  *)
(* handler that has accepted a packet closes and lets another client have  *)
(* its lastPacketId: the server ends with the client's close before.       *)
RoundsSuffice == round < Rounds

(* An undisturbed transfer ends, with every packet that was sent accepted. *)
Transfers == <>(~Undisturbed \/ (client = "done" /\ lastPacketId = Max(packetBuffer)))
=============================================================================
