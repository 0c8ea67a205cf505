-------------------------- MODULE HandshakeProofs ---------------------------
(***************************************************************************)
(* For any number of client programs and clients, interruptions and stops: *)
(* the server of src/A4/Part1 keeps the promises of Conversations, and     *)
(* goes down only if a client program was interrupted.  The first follows  *)
(* from the mutex having the handler in conversation as its owner.  The    *)
(* second needs a count of the replies on their way, which tells that a    *)
(* client that is done was answered, and the order of a program's clients: *)
(* where no program was interrupted, one that has ended leaves nobody in   *)
(* the middle of a conversation.                                           *)
(***************************************************************************)
EXTENDS Handshake, TLAPS, SequenceTheorems

(* Whoever is in conversation has the mutex. *)
Owned == \A c \in Client : handler[c] \in {"ACK", "Hello"} => holder = c

(* The replies each client was sent: those it has received and those on    *)
(* their way.                                                              *)
Received(c) == CASE client[c] \in {"new", "connected", "handshake"} -> 0
                 [] client[c] \in {"send", "recv"}                  -> 1
                 [] client[c] = "done"                              -> 2

Replied ==
  \A c \in Client :
    /\ handler[c] \in {"none", "SYN", "lock"} => Received(c) + Len(toClient[c]) = 0
    /\ handler[c] \in {"ACK", "Hello"}        => Received(c) + Len(toClient[c]) = 1
    /\ handler[c] = "refused"                 => Received(c) + Len(toClient[c]) <= 1

(* A program's clients come one after the other, and the server knows of   *)
(* none that has not connected.                                            *)
InTurn ==
  /\ \A p \in Process : \A n, k \in DOMAIN Program[p] :
       n < k /\ client[Program[p][k]] # "new" => client[Program[p][n]] = "done"
  /\ \A c \in Client : client[c] = "new" => handler[c] = "none"

(* Where nothing was interrupted no handler meets the end of a stream.     *)
Through(c) == client[c] = "new" \/ handler[c] \in {"answered", "refused"}

NoneCutOff ==
  kills = 0 =>
    /\ up
    /\ \A c \in Client : handler[c] = "lock" => got[c] # Empty
    /\ \A c \in Client : process[Home(c)] = "ended" => Through(c)

Inv == TypeOK /\ Owned /\ Replied /\ InTurn /\ NoneCutOff

-----------------------------------------------------------------------------
(* Every client has a program of its own. *)
LEMMA HomeOf ==
  /\ \A c \in Client : /\ Home(c) \in Process
                       /\ \E n \in DOMAIN Program[Home(c)] : Program[Home(c)][n] = c
  /\ \A p \in Process : \A n \in DOMAIN Program[p] :
       Program[p][n] \in Client /\ Home(Program[p][n]) = p
<1>1. \A c \in Client : \E p \in Process : \E n \in DOMAIN Program[p] : Program[p][n] = c
  BY DEF Client
<1>2. \A c \in Client : /\ Home(c) \in Process
                       /\ \E n \in DOMAIN Program[Home(c)] : Program[Home(c)][n] = c
  BY <1>1 DEF Home
<1>3. \A p \in Process : \A n \in DOMAIN Program[p] : Program[p][n] \in Client
  BY DEF Client
<1> QED
  BY <1>2, <1>3, HandshakeAssumption

LEMMA Bounds == Nobody \notin Client /\ MaxKills \in Nat /\ MaxStalls \in Nat
BY HandshakeAssumption

(* What a send and a recv do to the streams.                               *)
LEMMA Sent ==
  ASSUME NEW s \in Stream, NEW c \in Client, NEW m \in Message
  PROVE  /\ [s EXCEPT ![c] = Append(@, m)] \in Stream
         /\ Len(Append(s[c], m)) = Len(s[c]) + 1 /\ Len(s[c]) \in Nat
         /\ Append(s[c], m) # <<>>
<1>1. s[c] \in Seq(Message)
  BY DEF Stream
<1>2. Append(s[c], m) \in Seq(Message)
  BY <1>1
<1> QED
  BY <1>1, <1>2, AppendProperties DEF Stream

LEMMA Taken ==
  ASSUME NEW s \in Stream, NEW c \in Client, s[c] # <<>>
  PROVE  /\ Head(s[c]) \in Message
         /\ [s EXCEPT ![c] = Tail(@)] \in Stream
         /\ Len(Tail(s[c])) = Len(s[c]) - 1 /\ Len(s[c]) \in Nat \ {0}
<1>1. s[c] \in Seq(Message)
  BY DEF Stream
<1>2. Tail(s[c]) \in Seq(Message) /\ Head(s[c]) \in Message
  BY <1>1
<1> QED
  BY <1>1, <1>2, HeadTailProperties, EmptySeq DEF Stream

LEMMA Cut ==
  ASSUME NEW s \in Stream, NEW c \in Client, NEW n \in DOMAIN s[c]
  PROVE  [s EXCEPT ![c] = SubSeq(@, n + 1, Len(@))] \in Stream
<1>1. s[c] \in Seq(Message) /\ n \in 1..Len(s[c]) /\ Len(s[c]) \in Nat
  BY DEF Stream
<1>2. \A k \in (n + 1)..Len(s[c]) : s[c][k] \in Message
  BY <1>1, ElementOfSeq
<1>3. SubSeq(s[c], n + 1, Len(s[c])) \in Seq(Message)
  BY <1>1, <1>2, SubSeqProperties
<1> QED
  BY <1>3 DEF Stream

LEMMA Texts == {SYN, SYN_ACK, ACK, DEFAULT_MESSAGE} \subseteq Message /\ Empty \notin Message
BY DEF Message, SYN, SYN_ACK, ACK, DEFAULT_MESSAGE, Empty

LEMMA TypeInv == TypeOK /\ Owned /\ [Next]_vars => TypeOK'
<1> SUFFICES ASSUME TypeOK, Owned, [Next]_vars PROVE TypeOK'
  OBVIOUS
<1> USE DEF TypeOK, streams, server, accident, fate

<1>1. CASE UNCHANGED vars
  BY <1>1 DEF vars
<1>2. ASSUME NEW c \in Client, Connect(c) PROVE TypeOK'
  BY <1>2, HomeOf DEF Connect, Goes, Exit
<1>3. ASSUME NEW c \in Client, SendSYN(c) PROVE TypeOK'
  BY <1>3, Sent, Texts DEF SendSYN, Goes, Send
<1>4. ASSUME NEW c \in Client, ReceiveSYNACK(c) PROVE TypeOK'
  <2>1. toClient' \in Stream /\ toServer' \in Stream
    <3>1. [toServer EXCEPT ![c] = Append(@, ACK)] \in Stream
      BY Sent, Texts
    <3>2. toClient[c] # <<>> /\ toClient' = [toClient EXCEPT ![c] = Tail(@)]
      BY <1>4 DEF ReceiveSYNACK
    <3>3. toServer' = [toServer EXCEPT ![c] = Append(@, ACK)] \/ toServer' = toServer
      BY <1>4 DEF ReceiveSYNACK, Send
    <3> QED
      BY <3>1, <3>2, <3>3, Taken
  <2>2. client' = [client EXCEPT ![c] = "send"] /\ UNCHANGED <<server, bunched, fate>>
    BY <1>4 DEF ReceiveSYNACK, Goes
  <2>3. garbled' \in BOOLEAN
    BY <1>4 DEF ReceiveSYNACK, Reads
  <2> QED
    BY <2>1, <2>2, <2>3
<1>5. ASSUME NEW c \in Client, SendData(c) PROVE TypeOK'
  BY <1>5, Sent, Texts DEF SendData, Goes, Send
<1>6. ASSUME NEW c \in Client, ReceiveEcho(c) PROVE TypeOK'
  BY <1>6, Taken DEF ReceiveEcho, Goes
<1>7. ASSUME NEW c \in Client, Die(c) PROVE TypeOK'
  BY <1>7, HomeOf DEF Die, Exit
<1>8. ASSUME NEW c \in Client, Accept(c) PROVE TypeOK'
  BY <1>8 DEF Accept, At, Moves
<1>9. ASSUME NEW c \in Client, ReceiveSYN(c) PROVE TypeOK'
  <2>1. got' \in [Client -> Message \cup {Empty}] /\ toServer' \in Stream
    <3>1. CASE toServer[c] # <<>> /\ got' = [got EXCEPT ![c] = Head(toServer[c])]
                /\ toServer' = [toServer EXCEPT ![c] = Tail(@)]
      <4>1. Head(toServer[c]) \in Message /\ [toServer EXCEPT ![c] = Tail(@)] \in Stream
        BY <3>1, Taken
      <4> QED
        BY <3>1, <4>1
    <3>2. CASE UNCHANGED <<got, toServer>>
      BY <3>2
    <3> QED
      BY <1>9, <3>1, <3>2 DEF ReceiveSYN
  <2>2. /\ handler[c] = "SYN" /\ handler' = [handler EXCEPT ![c] = "lock"]
        /\ UNCHANGED <<client, toClient, holder, up, accident, fate>>
    BY <1>9 DEF ReceiveSYN, At, Moves
  <2>3. holder' \in {d \in Client : handler'[d] \in {"ACK", "Hello"}} \cup {Nobody}
    BY <2>2
  <2> QED
    BY <2>1, <2>2, <2>3
<1>10. ASSUME NEW c \in Client, Greet(c) PROVE TypeOK'
  <2>1. CASE GoDown
    BY <1>10, <2>1 DEF Greet, GoDown
  <2>2. CASE ~GoDown
    <3>1. toClient' \in Stream /\ garbled' \in BOOLEAN
      <4>1. [toClient EXCEPT ![c] = Append(@, SYN_ACK)] \in Stream
        BY Sent, Texts
      <4> QED
        BY <1>10, <2>2, <4>1 DEF Greet, Reply, Reads
    <3>2. UNCHANGED <<client, got, toServer, up, bunched, fate>>
      BY <1>10, <2>2 DEF Greet
    <3>3. \/ handler' = [handler EXCEPT ![c] = "ACK"] /\ holder' = c
          \/ handler' = [handler EXCEPT ![c] = "refused"] /\ holder' = Nobody
      BY <1>10, <2>2 DEF Greet, Moves
    <3> QED
      BY <3>1, <3>2, <3>3
  <2> QED
    BY <2>1, <2>2
<1>11. ASSUME NEW c \in Client, ReceiveACK(c) PROVE TypeOK'
  <2>1. CASE GoDown
    BY <1>11, <2>1 DEF ReceiveACK, GoDown
  <2>2. CASE ~GoDown
    <3>1. /\ toServer' \in Stream /\ toClient' \in Stream
          /\ garbled' \in BOOLEAN /\ bunched' \in BOOLEAN
      BY <1>11, <2>2, Cut DEF ReceiveACK, Reply, Reads
    <3>2. handler[c] = "ACK" /\ UNCHANGED <<client, got, up, fate>>
      BY <1>11, <2>2 DEF ReceiveACK, At
    <3>3. \/ handler' = [handler EXCEPT ![c] = "Hello"] /\ holder' = holder
          \/ handler' = [handler EXCEPT ![c] = "refused"] /\ holder' = Nobody
      BY <1>11, <2>2 DEF ReceiveACK, Moves
    <3> QED
      BY <3>1, <3>2, <3>3
  <2> QED
    BY <2>1, <2>2
<1>12. ASSUME NEW c \in Client, ReceiveData(c) PROVE TypeOK'
  <2>1. CASE GoDown
    BY <1>12, <2>1 DEF ReceiveData, GoDown
  <2>2. CASE ~GoDown
    <3>1. /\ toServer' \in Stream /\ toClient' \in Stream
          /\ garbled' \in BOOLEAN /\ bunched' \in BOOLEAN
      <4>1. [toClient EXCEPT ![c] = Append(@, DEFAULT_MESSAGE)] \in Stream
        BY Sent, Texts
      <4>2. toServer[c] # <<>> /\ toServer' = [toServer EXCEPT ![c] = Tail(@)]
        BY <1>12, <2>2 DEF ReceiveData
      <4>3. toServer' \in Stream
        BY <4>2, Taken
      <4> QED
        BY <1>12, <2>2, <4>1, <4>3 DEF ReceiveData, Reply, Reads
    <3>2. handler[c] = "Hello" /\ UNCHANGED <<client, got, up, fate>>
      BY <1>12, <2>2 DEF ReceiveData, At
    <3>3. \/ handler' = [handler EXCEPT ![c] = "answered"] /\ holder' = Nobody
          \/ handler' = [handler EXCEPT ![c] = "refused"] /\ holder' = Nobody
      BY <1>12, <2>2 DEF ReceiveData, Moves
    <3> QED
      BY <3>1, <3>2, <3>3
  <2> QED
    BY <2>1, <2>2
<1>13. ASSUME NEW p \in Process, Kill(p) PROVE TypeOK'
  <2>1. process' \in [Process -> {"runs", "stalled", "ended"}] 
    BY <1>13, Bounds DEF Kill
  <2>2. kills' \in 0..MaxKills
    BY <1>13, Bounds DEF Kill
  <2>3. UNCHANGED <<client, toServer, toClient, handler, got, holder, up, garbled, bunched, stalls>>
    BY <1>13, Bounds DEF Kill
  <2>4. holder' \in {c \in Client : handler'[c] \in {"ACK", "Hello"}} \cup {Nobody}
    BY <2>3
  <2>5. stalls' \in 0..MaxStalls
    BY <2>3
  <2> QED
    BY <2>1, <2>2, <2>3, <2>4, <2>5
<1>14. ASSUME NEW p \in Process, Stall(p) PROVE TypeOK'
  BY <1>14, Bounds DEF Stall
<1> QED
  BY <1>1, <1>2, <1>3, <1>4, <1>5, <1>6, <1>7, <1>8, <1>9, <1>10, <1>11, <1>12, <1>13, <1>14
  DEF Next, ClientStep, HandlerStep
-----------------------------------------------------------------------------
(* What the steps do to the handlers: the rest of the proof asks for       *)
(* little more.                                                            *)
LEMMA ClientSteps ==
  ASSUME NEW c \in Client, ClientStep(c)
  PROVE  UNCHANGED server /\ kills' = kills /\ Turn(c)
BY DEF ClientStep, Connect, Goes, Exit, SendSYN, ReceiveSYNACK, SendData, ReceiveEcho, Die,
       server, fate

LEMMA UserSteps ==
  ASSUME NEW p \in Process, Kill(p) \/ Stall(p)
  PROVE  UNCHANGED <<client, streams, server, accident>>
BY DEF Kill, Stall

Moved(c, from, to) == handler[c] = from /\ handler' = [handler EXCEPT ![c] = to]

LEMMA HandlerSteps ==
  ASSUME TypeOK, NEW c \in Client, HandlerStep(c)
  PROVE  /\ up /\ UNCHANGED <<client, fate>>
         /\ \/ /\ Moved(c, "none", "SYN") /\ client[c] # "new"
               /\ UNCHANGED <<streams, got, holder, up>>
            \/ /\ Moved(c, "SYN", "lock") /\ UNCHANGED <<toClient, holder, up>>
               /\ AtEnd(c) \/ got'[c] \in Message
               /\ got' = [got EXCEPT ![c] = got'[c]]
            \/ /\ Moved(c, "lock", "ACK") /\ holder = Nobody /\ holder' = c
               /\ Reply(c, SYN_ACK) /\ UNCHANGED <<got, up>>
            \/ /\ Moved(c, "lock", "refused") /\ holder = Nobody /\ holder' = Nobody
               /\ UNCHANGED <<toClient, got, up>>
            \/ /\ Moved(c, "ACK", "Hello") /\ UNCHANGED <<toClient, got, holder, up>>
            \/ /\ Moved(c, "ACK", "refused") /\ holder' = Nobody /\ UNCHANGED <<toClient, got, up>>
            \/ /\ Moved(c, "Hello", "answered") /\ holder' = Nobody
               /\ Reply(c, DEFAULT_MESSAGE) /\ UNCHANGED <<got, up>>
            \/ /\ Moved(c, "Hello", "refused") /\ holder' = Nobody
               /\ UNCHANGED <<toClient, got, up>>
            \/ /\ GoDown /\ UNCHANGED got
               /\ \/ handler[c] = "lock" /\ got[c] = Empty
                  \/ handler[c] \in {"ACK", "Hello"} /\ AtEnd(c)
<1> USE DEF Moved, Moves, At, streams
<1>1. CASE Accept(c)
  BY <1>1 DEF Accept
<1>2. CASE ReceiveSYN(c)
  <2>1. CASE toServer[c] # <<>> /\ got' = [got EXCEPT ![c] = Head(toServer[c])]
    <3>1. Head(toServer[c]) \in Message
      BY <2>1, Taken DEF TypeOK
    <3> QED
      BY <1>2, <2>1, <3>1 DEF ReceiveSYN, TypeOK
  <2>2. CASE AtEnd(c) /\ UNCHANGED got
    BY <1>2, <2>2 DEF ReceiveSYN, TypeOK
  <2> QED
    BY <1>2, <2>1, <2>2 DEF ReceiveSYN
<1>3. CASE Greet(c)
  BY <1>3 DEF Greet
<1>4. CASE ReceiveACK(c)
  BY <1>4 DEF ReceiveACK
<1>5. CASE ReceiveData(c)
  BY <1>5 DEF ReceiveData
<1> QED
  BY <1>1, <1>2, <1>3, <1>4, <1>5 DEF HandlerStep

LEMMA OwnedInv == TypeOK /\ Owned /\ [Next]_vars => Owned'
<1> SUFFICES ASSUME TypeOK, Owned, [Next]_vars PROVE Owned'
  OBVIOUS
<1>1. CASE UNCHANGED <<handler, holder>>
  BY <1>1 DEF Owned
<1>2. ASSUME NEW c \in Client, HandlerStep(c) PROVE Owned'
  <2>1. DOMAIN handler = Client /\ Nobody \notin Client
    BY Bounds DEF TypeOK
  <2>2. \/ UNCHANGED <<handler, holder>>
        \/ /\ UNCHANGED holder
           /\ \E to \in {"SYN", "lock"} : handler' = [handler EXCEPT ![c] = to]
        \/ Moved(c, "lock", "ACK") /\ holder = Nobody /\ holder' = c
        \/ Moved(c, "ACK", "Hello") /\ UNCHANGED holder
        \/ Moved(c, "lock", "refused") /\ holder = Nobody /\ holder' = Nobody
        \/ \E to \in {"answered", "refused"} :
             /\ handler[c] \in {"ACK", "Hello"}
             /\ handler' = [handler EXCEPT ![c] = to] /\ holder' = Nobody
    BY <1>2, HandlerSteps DEF Moved, GoDown
  <2> QED
    BY <2>1, <2>2 DEF Owned, Moved
<1> QED
  BY <1>1, <1>2, ClientSteps, UserSteps DEF Next, vars, server

(* A client's recv moves a reply from those on their way to those it has   *)
(* received.                                                               *)
Replies(c) == Received(c) + Len(toClient[c])

LEMMA RepliesKept ==
  ASSUME TypeOK, NEW c \in Client, ClientStep(c), NEW d \in Client
  PROVE  Replies(d)' = Replies(d)
<1>1. Len(toClient[d]) \in Nat
  BY DEF TypeOK, Stream
<1>2. CASE UNCHANGED <<client, toClient>>
  BY <1>2 DEF Replies, Received
<1>3. CASE /\ toClient' = toClient
           /\ \/ Goes(c, "new", "connected")
              \/ Goes(c, "connected", "handshake")
              \/ Goes(c, "send", "recv")
  <2>0. toClient'[d] = toClient[d]
    BY <1>3
  <2>1. CASE d = c
    <3>1. \/ client[c] = "new" /\ client'[c] = "connected"
          \/ client[c] = "connected" /\ client'[c] = "handshake"
          \/ client[c] = "send" /\ client'[c] = "recv"
      BY <1>3 DEF Goes, TypeOK
    <3> QED
      BY <2>0, <2>1, <3>1 DEF Replies, Received
  <2>2. CASE d # c
    <3>1. client'[d] = client[d]
      BY <1>3, <2>2 DEF Goes, TypeOK
    <3> QED
      BY <2>0, <3>1 DEF Replies, Received
  <2> QED
    BY <2>1, <2>2
<1>4. CASE /\ Goes(c, "handshake", "send") \/ Goes(c, "recv", "done")
           /\ toClient[c] # <<>> /\ toClient' = [toClient EXCEPT ![c] = Tail(@)]
  <2>1. CASE d = c
    <3>1. toClient \in Stream /\ toClient'[c] = Tail(toClient[c])
      BY <1>4 DEF TypeOK, Stream
    <3>2. Len(toClient'[c]) = Len(toClient[c]) - 1
      BY <1>4, <3>1, Taken
    <3>3. Received(c)' = Received(c) + 1 /\ Received(c) \in Nat
      BY <1>4 DEF Received, Goes, TypeOK
    <3> QED
      BY <1>1, <2>1, <3>2, <3>3 DEF Replies
  <2>2. CASE d # c
    <3>1. client'[d] = client[d] /\ toClient'[d] = toClient[d]
      BY <1>4, <2>2 DEF Goes, TypeOK, Stream
    <3> QED
      BY <3>1 DEF Replies, Received
  <2> QED
    BY <2>1, <2>2
<1>5. CASE Connect(c) \/ SendSYN(c) \/ SendData(c) \/ Die(c)
  BY <1>2, <1>3, <1>5 DEF Connect, SendSYN, SendData, Die, streams
<1>6. CASE ReceiveSYNACK(c)
  BY <1>4, <1>6 DEF ReceiveSYNACK
<1>7. CASE ReceiveEcho(c)
  BY <1>4, <1>7 DEF ReceiveEcho
<1> QED
  BY <1>5, <1>6, <1>7 DEF ClientStep

LEMMA RepliedInv == TypeOK /\ Replied /\ [Next]_vars => Replied'
<1> SUFFICES ASSUME TypeOK, Replied, [Next]_vars, NEW d \in Client
             PROVE  /\ handler'[d] \in {"none", "SYN", "lock"} => Replies(d)' = 0
                    /\ handler'[d] \in {"ACK", "Hello"}        => Replies(d)' = 1
                    /\ handler'[d] = "refused"                 => Replies(d)' <= 1
  BY DEF Replied, Replies
<1>1. /\ handler[d] \in {"none", "SYN", "lock"} => Replies(d) = 0
      /\ handler[d] \in {"ACK", "Hello"}        => Replies(d) = 1
      /\ handler[d] = "refused"                 => Replies(d) <= 1
  BY DEF Replied, Replies
<1>2. CASE UNCHANGED <<client, toClient, handler>>
  BY <1>1, <1>2 DEF Replies, Received
<1>3. ASSUME NEW c \in Client, ClientStep(c)
      PROVE  handler' = handler /\ Replies(d)' = Replies(d)
  BY <1>3, ClientSteps, RepliesKept DEF server
<1>4. ASSUME NEW c \in Client, HandlerStep(c)
      PROVE  /\ handler'[d] \in {"none", "SYN", "lock"} => Replies(d)' = 0
             /\ handler'[d] \in {"ACK", "Hello"}        => Replies(d)' = 1
             /\ handler'[d] = "refused"                 => Replies(d)' <= 1
  <2>0. client' = client /\ Received(d)' = Received(d) /\ DOMAIN handler = Client
    BY <1>4, HandlerSteps DEF Received, TypeOK
  <2>1. CASE d # c
    <3>1. handler'[d] = handler[d] /\ toClient'[d] = toClient[d]
      <4>1. handler' = handler \/ \E to : handler' = [handler EXCEPT ![c] = to]
        BY <1>4, HandlerSteps DEF Moved, GoDown
      <4>2. toClient' = toClient \/ \E m : toClient' = [toClient EXCEPT ![c] = Append(@, m)]
        BY <1>4, HandlerSteps DEF Reply, GoDown, streams
      <4> QED
        BY <2>0, <2>1, <4>1, <4>2 DEF TypeOK, Stream
    <3> QED
      BY <1>1, <2>0, <3>1 DEF Replies
  <2>2. CASE d = c /\ toClient' = toClient
    <3>1. \/ handler'[c] = handler[c]
          \/ handler[c] = "none" /\ handler'[c] = "SYN"
          \/ handler[c] = "SYN" /\ handler'[c] = "lock"
          \/ handler[c] = "ACK" /\ handler'[c] = "Hello"
          \/ handler[c] \in {"lock", "ACK", "Hello"} /\ handler'[c] = "refused"
      <4>1. \A m \in Message : ~Reply(c, m)
        <5>1. ASSUME NEW m \in Message, Reply(c, m) PROVE FALSE
          <6>1. toClient'[c] = Append(toClient[c], m) /\ toClient \in Stream
            BY <5>1 DEF Reply, TypeOK, Stream
          <6>2. Len(toClient'[c]) = Len(toClient[c]) + 1 /\ Len(toClient[c]) \in Nat
            BY <6>1, Sent
          <6> QED
            BY <2>2, <6>2
        <5> QED
          BY <5>1
      <4> QED
        BY <1>4, <2>0, <4>1, Texts, HandlerSteps DEF Moved, GoDown
    <3>2. Replies(d)' = Replies(d)
      BY <2>0, <2>2 DEF Replies
    <3> QED
      BY <1>1, <2>2, <3>1, <3>2
  <2>3. CASE d = c /\ toClient' # toClient
    <3>1. PICK m \in Message : /\ Reply(c, m)
                               /\ Moved(c, "lock", "ACK") \/ Moved(c, "Hello", "answered")
      BY <1>4, <2>3, Texts, HandlerSteps DEF GoDown, streams
    <3>2. toClient'[d] = Append(toClient[d], m) /\ toClient \in Stream
      <4>1. toClient' = [toClient EXCEPT ![c] = Append(@, m)]
        BY <3>1 DEF Reply
      <4>2. toClient'[c] = Append(toClient[c], m) /\ toClient \in Stream
        BY <4>1 DEF TypeOK, Stream
      <4> QED
        BY <2>3, <4>2
    <3>3. Len(toClient'[d]) = Len(toClient[d]) + 1 /\ Len(toClient[d]) \in Nat
      BY <3>2, Sent
    <3>4. Received(d) \in Nat
      BY DEF Received, TypeOK
    <3>5. Replies(d)' = Replies(d) + 1
      BY <2>0, <3>3, <3>4 DEF Replies
    <3>6. \/ handler[d] = "lock" /\ handler'[d] = "ACK"
          \/ handler'[d] = "answered"
      BY <2>0, <2>3, <3>1 DEF Moved
    <3> QED
      BY <1>1, <3>5, <3>6
  <2> QED
    BY <2>1, <2>2, <2>3
<1> QED
  BY <1>1, <1>2, <1>3, <1>4, UserSteps DEF Next, vars, streams, server

(* A client that moves was neither done nor is it new, and its program runs. *)
LEMMA ClientMoves ==
  ASSUME TypeOK, NEW c \in Client, ClientStep(c)
  PROVE  /\ process[Home(c)] = "runs"
         /\ \/ client' = client
            \/ /\ client[c] # "done" /\ client'[c] # "new"
               /\ client' = [client EXCEPT ![c] = client'[c]]
               /\ UNCHANGED process
<1> USE DEF Turn, Goes, TypeOK, fate
<1>1. CASE Connect(c) \/ SendSYN(c) \/ SendData(c)
  BY <1>1 DEF Connect, SendSYN, SendData
<1>2. CASE ReceiveSYNACK(c) \/ ReceiveEcho(c) \/ Die(c)
  BY <1>2 DEF ReceiveSYNACK, ReceiveEcho, Die
<1> QED
  BY <1>1, <1>2 DEF ClientStep

LEMMA InTurnInv == TypeOK /\ InTurn /\ [Next]_vars => InTurn'
<1> SUFFICES ASSUME TypeOK, InTurn, [Next]_vars PROVE InTurn'
  OBVIOUS
<1>1. CASE UNCHANGED <<client, handler>>
  BY <1>1 DEF InTurn
<1>2. ASSUME NEW c \in Client, ClientStep(c) PROVE InTurn'
  <2>1. UNCHANGED handler /\ Turn(c) /\ DOMAIN client = Client
    BY <1>2, ClientSteps DEF server, TypeOK
  <2>2. CASE client' = client
    BY <2>1, <2>2 DEF InTurn
  <2>3. CASE /\ client[c] # "done" /\ client'[c] # "new"
             /\ client' = [client EXCEPT ![c] = client'[c]]
    <3>1. ASSUME NEW p \in Process, NEW n \in DOMAIN Program[p], NEW k \in DOMAIN Program[p],
                 n < k, client'[Program[p][k]] # "new"
          PROVE  client'[Program[p][n]] = "done"
      <4>1. Program[p][n] \in Client /\ Program[p][k] \in Client /\ n \in Nat \ {0} /\ k \in Nat
        BY HomeOf, HandshakeAssumption
      <4>2. CASE Program[p][k] = c
        <5>1. client[Program[p][n]] = "done"
          BY <2>1, <3>1, <4>1, <4>2, HomeOf DEF Turn
        <5> QED
          BY <2>1, <2>3, <4>1, <5>1
      <4>3. CASE Program[p][k] # c
        <5>1. client[Program[p][k]] # "new"
          BY <2>1, <2>3, <3>1, <4>1, <4>3
        <5>2. client[Program[p][n]] = "done"
          BY <3>1, <5>1 DEF InTurn
        <5> QED
          BY <2>1, <2>3, <4>1, <5>2
      <4> QED
        BY <4>2, <4>3
    <3>2. \A d \in Client : client'[d] = "new" => handler'[d] = "none"
      BY <2>1, <2>3 DEF InTurn
    <3> QED
      BY <3>1, <3>2 DEF InTurn
  <2> QED
    BY <1>2, <2>2, <2>3, ClientMoves
<1>3. ASSUME NEW c \in Client, HandlerStep(c) PROVE InTurn'
  <2>1. client' = client
    BY <1>3, HandlerSteps
  <2>2. handler' = handler \/ (client[c] # "new" /\ \E to : handler' = [handler EXCEPT ![c] = to])
    BY <1>3, HandlerSteps DEF Moved, GoDown, InTurn
  <2>3. \A d \in Client : client'[d] = "new" => handler'[d] = "none"
    BY <2>1, <2>2 DEF InTurn, TypeOK
  <2> QED
    BY <2>1, <2>3 DEF InTurn
<1> QED
  BY <1>1, <1>2, <1>3, UserSteps DEF Next, vars, server

(* A client that is done was answered: it has had two replies.             *)
LEMMA DoneAnswered ==
  ASSUME TypeOK, Replied, NEW c \in Client, client[c] = "done"
  PROVE  handler[c] = "answered"
<1>1. Len(toClient[c]) \in Nat /\ Received(c) = 2
  BY DEF TypeOK, Stream, Received
<1> QED
  BY <1>1 DEF Replied, TypeOK

LEMMA NoneCutOffInv ==
  TypeOK /\ Replied /\ InTurn /\ NoneCutOff /\ [Next]_vars => NoneCutOff'
<1> SUFFICES ASSUME TypeOK, Replied, InTurn, NoneCutOff, [Next]_vars, kills' = 0
             PROVE  /\ up'
                    /\ \A c \in Client : handler'[c] = "lock" => got'[c] # Empty
                    /\ \A c \in Client : process'[Home(c)] = "ended" => Through(c)'
  BY DEF NoneCutOff
<1> DEFINE Goal == /\ up'
                   /\ \A c \in Client : handler'[c] = "lock" => got'[c] # Empty
                   /\ \A c \in Client : process'[Home(c)] = "ended" => Through(c)'
<1>1. CASE kills # 0
  BY <1>1, ClientSteps, HandlerSteps, Bounds
  DEF Next, Kill, Stall, vars, fate, TypeOK
<1>2. CASE kills = 0
  <2>0. /\ up /\ DOMAIN handler = Client /\ DOMAIN client = Client
        /\ \A c \in Client : handler[c] = "lock" => got[c] # Empty
        /\ \A c \in Client : process[Home(c)] = "ended" => Through(c)
    BY <1>2 DEF NoneCutOff, TypeOK
  <2>1. CASE UNCHANGED vars
    BY <2>0, <2>1 DEF vars, server, fate, Through
  <2>2. ASSUME NEW c \in Client, ClientStep(c) PROVE Goal
    <3>1. UNCHANGED <<handler, got, up>>
      BY <2>2, ClientSteps DEF server
    <3>2. CASE UNCHANGED process
      <4>1. \A d \in Client : process'[Home(d)] = "ended" => client'[d] = client[d]
        BY <2>0, <2>2, <3>2, ClientMoves
      <4> QED
        BY <2>0, <3>1, <3>2, <4>1 DEF Through
    <3>3. CASE Die(c) /\ process' = [process EXCEPT ![Home(c)] = "ended"]
      <4>1. client' = client /\ client[c] # "done" /\ Through(c)
        BY <2>0, <3>3 DEF Die, HungUp, Through
      <4>2. ASSUME NEW d \in Client, Home(d) = Home(c) PROVE Through(d)
        <5>1. PICK n \in DOMAIN Program[Home(c)], k \in DOMAIN Program[Home(c)] :
                Program[Home(c)][n] = c /\ Program[Home(c)][k] = d
          BY <4>2, HomeOf
        <5>2. Home(c) \in Process /\ n \in Nat /\ k \in Nat \ {0}
          BY <5>1, HomeOf, HandshakeAssumption
        <5>3. CASE n < k
          BY <4>1, <5>1, <5>2, <5>3 DEF InTurn, Through
        <5>4. CASE k < n
          <6>1. client[d] = "done"
            <7>1. Turn(c) /\ k \in 1..(n - 1)
              BY <2>2, <5>2, <5>4, ClientSteps
            <7> QED
              BY <5>1, <7>1 DEF Turn
          <6> QED
            BY <6>1, DoneAnswered DEF Through
        <5>5. CASE k = n
          BY <4>1, <5>1, <5>5
        <5> QED
          BY <5>2, <5>3, <5>4, <5>5
      <4>3. ASSUME NEW d \in Client, Home(d) # Home(c), process'[Home(d)] = "ended"
            PROVE  Through(d)
        BY <2>0, <3>3, <4>3, HomeOf DEF TypeOK
      <4> QED
        BY <2>0, <3>1, <4>1, <4>2, <4>3 DEF Through
    <3>4. UNCHANGED process \/ (Die(c) /\ process' = [process EXCEPT ![Home(c)] = "ended"])
      BY <2>0, <2>2 DEF ClientStep, Connect, SendSYN, ReceiveSYNACK, SendData, ReceiveEcho, Die,
                        fate, Exit
    <3> QED
      BY <3>2, <3>3, <3>4
  <2>3. ASSUME NEW c \in Client, HandlerStep(c) PROVE Goal
    <3>1. UNCHANGED <<client, process>>
      BY <2>3, HandlerSteps DEF fate
    <3>2. handler[c] \in {"SYN", "ACK", "Hello"} => ~AtEnd(c)
      BY <2>0 DEF AtEnd, Through, InTurn
    <3>3. ~GoDown
      BY <2>0, <2>3, <3>2, HandlerSteps DEF GoDown
    <3>4. UNCHANGED up
      BY <2>3, <3>3, HandlerSteps
    <3>5. handler[c] \notin {"answered", "refused"} /\ \E to : handler' = [handler EXCEPT ![c] = to]
      BY <2>3, <3>3, HandlerSteps DEF Moved
    <3>6. \A d \in Client : handler'[d] = "lock" => got'[d] # Empty
      <4>1. CASE Moved(c, "SYN", "lock") /\ got'[c] \in Message /\ got' = [got EXCEPT ![c] = got'[c]]
        BY <2>0, <4>1, Texts DEF Moved, TypeOK
      <4>2. CASE got' = got /\ \E to \in {"SYN", "ACK", "Hello", "answered", "refused"} :
                                 handler' = [handler EXCEPT ![c] = to]
        BY <2>0, <4>2
      <4> QED
        BY <2>3, <3>2, <3>3, <4>1, <4>2, HandlerSteps DEF Moved
    <3>7. \A d \in Client : process'[Home(d)] = "ended" => Through(d)'
      BY <2>0, <3>1, <3>5 DEF Through
    <3> QED
      BY <2>0, <3>4, <3>6, <3>7
  <2>4. ASSUME NEW p \in Process, Stall(p) PROVE Goal
    <3>1. \A q \in Process : process'[q] = "ended" => process[q] = "ended"
      BY <2>4 DEF Stall, TypeOK
    <3> QED
      BY <2>0, <2>4, <3>1, UserSteps, HomeOf DEF server, Through
  <2>5. ASSUME NEW p \in Process, Kill(p) PROVE FALSE
    BY <1>2, <2>5 DEF Kill
  <2> QED
    BY <2>1, <2>2, <2>3, <2>4, <2>5 DEF Next
<1> QED
  BY <1>1, <1>2 DEF TypeOK

LEMMA InitInv == Init => Inv
<1> SUFFICES ASSUME Init PROVE Inv
  OBVIOUS
<1>1. [c \in Client |-> <<>>] \in Stream
  BY DEF Stream
<1>2. TypeOK
  <2>1. toServer \in Stream /\ toClient \in Stream
    BY <1>1 DEF Init
  <2>2. holder = Nobody /\ kills \in 0..MaxKills /\ stalls \in 0..MaxStalls
    BY Bounds DEF Init
  <2>3. process \in [Process -> {"runs", "stalled", "ended"}]
    BY DEF Init
  <2>4. /\ client \in [Client -> {"new", "connected", "handshake", "send", "recv", "done"}]
        /\ handler \in [Client -> {"none", "SYN", "lock", "ACK", "Hello", "answered", "refused"}]
    BY DEF Init
  <2>5. /\ got \in [Client -> Message \cup {Empty}]
        /\ up \in BOOLEAN /\ garbled \in BOOLEAN /\ bunched \in BOOLEAN
    BY DEF Init
  <2> QED
    BY <2>1, <2>2, <2>3, <2>4, <2>5 DEF TypeOK
<1>3. Owned /\ NoneCutOff
  BY DEF Init, Owned, NoneCutOff, Through
<1>4. Replied
  BY DEF Init, Replied, Received
<1>5. InTurn
  <2>1. \A p \in Process : \A k \in DOMAIN Program[p] : client[Program[p][k]] = "new"
    BY HomeOf DEF Init
  <2> QED
    BY <2>1 DEF Init, InTurn
<1> QED
  BY <1>2, <1>3, <1>4, <1>5 DEF Inv

LEMMA Invariance == Spec => []Inv
<1>1. Inv /\ [Next]_vars => Inv'
  BY TypeInv, OwnedInv, RepliedInv, InTurnInv, NoneCutOffInv DEF Inv
<1> QED
  BY InitInv, <1>1, PTL DEF Spec

(* The mutex always has the handler in conversation as its owner, or none, *)
(* and every variable its type (handle_client of src/A4/Part1/Server.cpp). *)
THEOREM TypeCorrect == Spec => []TypeOK
<1>1. Inv => TypeOK
  BY DEF Inv
<1> QED
  BY Invariance, <1>1, PTL

(* However many clients there are, the end of stream decode throws at is   *)
(* met, and the server goes down, only after a client program was          *)
(* interrupted (recv and decode in src/A4/Part1/Server.cpp).               *)
THEOREM GoesDownOnlyByKill == Spec => []DownOnlyByKill
<1>1. Inv => DownOnlyByKill
  BY DEF Inv, TypeOK, NoneCutOff, DownOnlyByKill
<1> QED
  BY Invariance, <1>1, PTL

(* The server of src/A4/Part1 implements Conversations: it greets nobody   *)
(* while another conversation is open, refuses only the client it talks    *)
(* to, and takes no conversation up again.                                 *)
THEOREM Refinement == Spec => OneAtATime
<1> DEFINE place == {"none", "SYN", "lock", "ACK", "Hello", "answered", "refused"}
           talk == [c \in Client |->
                      CASE handler[c] \in {"none", "SYN", "lock"}  -> "away"
                        [] handler[c] = "ACK"                      -> "greeted"
                        [] handler[c] = "Hello"                    -> "accepted"
                        [] handler[c] \in {"answered", "refused"}  -> handler[c]]
           open == {c \in Client : talk[c] \in {"greeted", "accepted"}}
<1>1. Init => Talks!Init
  BY DEF Init, Talks!Init
<1>2. TypeOK /\ Owned /\ [Next]_vars => [Talks!Next]_Talks!vars
  <2> SUFFICES ASSUME TypeOK, Owned, [Next]_vars PROVE [Talks!Next]_Talks!vars
    OBVIOUS
  <2>1. CASE UNCHANGED <<handler, up>>
    BY <2>1 DEF Talks!vars
  <2>2. ASSUME NEW c \in Client, HandlerStep(c) PROVE [Talks!Next]_Talks!vars
    <3>1. up /\ handler \in [Client -> place]
      BY <2>2, HandlerSteps DEF TypeOK
    <3>2. \A d \in Client : d \in open <=> handler[d] \in {"ACK", "Hello"}
      BY <3>1
    <3>3. \A d \in Client : d \in open => holder = d
      BY <3>2 DEF Owned
    <3> HIDE DEF talk, open
    <3>4. talk' = talk /\ up' = up => [Talks!Next]_Talks!vars
      BY DEF Talks!vars, talk
    <3>5. ASSUME NEW t, NEW u, talk[c] = t, talk' = [talk EXCEPT ![c] = u], up' = up
          PROVE  Talks!Turns(c, t, u)
      BY <3>1, <3>5 DEF Talks!Turns, talk
    <3>6. Talks!Between = open
      BY DEF Talks!Between, open, talk
    <3>7. CASE Moved(c, "none", "SYN") \/ Moved(c, "SYN", "lock")
      <4>1. talk' = talk
        BY <3>1, <3>7 DEF Moved, talk
      <4>2. up' = up
        BY <2>2, <3>7, HandlerSteps DEF GoDown, Moved
      <4> QED
        BY <3>4, <4>1, <4>2
    <3>8. CASE Moved(c, "lock", "ACK") /\ holder = Nobody /\ up' = up
      <4>1. talk[c] = "away" /\ talk' = [talk EXCEPT ![c] = "greeted"]
        BY <3>1, <3>8 DEF Moved, talk
      <4>2. Talks!Between = {}
        BY <3>3, <3>6, <3>8, Bounds DEF open
      <4>3. Talks!Greet(c)
        BY <3>5, <3>8, <4>1, <4>2 DEF Talks!Greet
      <4> QED
        BY <4>3 DEF Talks!Next
    <3>9. CASE Moved(c, "ACK", "Hello") /\ up' = up
      <4>1. talk[c] = "greeted" /\ talk' = [talk EXCEPT ![c] = "accepted"]
        BY <3>1, <3>9 DEF Moved, talk
      <4>2. Talks!Accept(c)
        BY <3>5, <3>9, <4>1 DEF Talks!Accept
      <4> QED
        BY <4>2 DEF Talks!Next
    <3>10. CASE Moved(c, "Hello", "answered") /\ up' = up
      <4>1. talk[c] = "accepted" /\ talk' = [talk EXCEPT ![c] = "answered"]
        BY <3>1, <3>10 DEF Moved, talk
      <4>2. Talks!Answer(c)
        BY <3>5, <3>10, <4>1 DEF Talks!Answer
      <4> QED
        BY <4>2 DEF Talks!Next
    <3>11. ASSUME NEW h \in {"lock", "ACK", "Hello"}, Moved(c, h, "refused"),
                  h = "lock" => holder = Nobody, up' = up
           PROVE  [Talks!Next]_Talks!vars
      <4>1. /\ talk[c] \in {"away", "greeted", "accepted"}
            /\ talk' = [talk EXCEPT ![c] = "refused"]
        BY <3>1, <3>11 DEF Moved, talk
      <4>2. Talks!Between \subseteq {c}
        <5>1. h # "lock" => holder = c
          BY <3>11 DEF Moved, Owned
        <5> QED
          BY <3>3, <3>6, <3>11, <5>1, Bounds DEF open
      <4>3. Talks!Refuse(c)
        BY <3>5, <3>11, <4>1, <4>2 DEF Talks!Refuse
      <4> QED
        BY <4>3 DEF Talks!Next
    <3>12. CASE GoDown
      <4>1. handler' = handler /\ up' = FALSE
        BY <3>12 DEF GoDown
      <4>2. Talks!GoDown
        BY <3>1, <4>1 DEF Talks!GoDown
      <4> QED
        BY <4>2 DEF Talks!Next
    <3> QED
      BY <2>2, <3>7, <3>8, <3>9, <3>10, <3>11, <3>12, HandlerSteps
  <2> QED
    BY <2>1, <2>2, ClientSteps, UserSteps DEF Next, vars, server
<1> QED
  BY Invariance, <1>1, <1>2, PTL DEF Inv, Spec, OneAtATime, Talks!Spec
=============================================================================
