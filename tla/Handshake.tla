----------------------------- MODULE Handshake ------------------------------
(***************************************************************************)
(* src/A4/Part1: clients shake hands with a server, SYN, SYN_ACK, ACK, and *)
(* have one message echoed.  A client program runs its clients one after   *)
(* the other; the server has a thread per connection, which takes          *)
(* cout_mutex after its first recv and keeps it to the end, over two more  *)
(* recvs.  Wherever a recv finds the end of the stream, decode("") throws  *)
(* and ends the whole program, client or server.                           *)
(***************************************************************************)
EXTENDS Naturals, Sequences, FiniteSets

CONSTANTS Process,    \* the client programs
          Program,    \* Program[p]: the clients p starts, in order
          Nobody,
          MaxKills,   \* bound: programs interrupted by their user
          MaxStalls   \* bound: programs stopped for good without ending

Client == UNION {{Program[p][n] : n \in DOMAIN Program[p]} : p \in Process}

ASSUME HandshakeAssumption ==
  /\ \A p \in Process : Program[p] \in Seq(Client)
  /\ \A p, q \in Process : \A n \in DOMAIN Program[p], k \in DOMAIN Program[q] :
       Program[p][n] = Program[q][k] => p = q /\ n = k
  /\ Nobody \notin Client
  /\ MaxKills \in Nat /\ MaxStalls \in Nat

VARIABLES
  process,             \* is each client program running, stalled or ended
  client,              \* how far each client is
  toServer, toClient,  \* the two directions of its connection
  handler,             \* where the server's thread for it stands
  got,                 \* what that thread's first recv returned
  holder,              \* who has cout_mutex
  up,                  \* the server program runs
  garbled,             \* a getData() pointer no longer led to the data
  bunched,             \* ACK and the message were read as one
  kills, stalls

streams  == <<toServer, toClient>>
server   == <<handler, got, holder, up>>
accident == <<garbled, bunched>>
fate     == <<process, kills, stalls>>
vars     == <<client, streams, server, accident, fate>>

SYN == "SYN"   SYN_ACK == "SYN_ACK"   ACK == "ACK"   DEFAULT_MESSAGE == "Hello"
Message == {SYN, SYN_ACK, ACK, DEFAULT_MESSAGE}
Empty == "nothing"

Init ==
  /\ process = [p \in Process |-> "runs"]
  /\ client = [c \in Client |-> "new"]
  /\ toServer = [c \in Client |-> <<>>] /\ toClient = [c \in Client |-> <<>>]
  /\ handler = [c \in Client |-> "none"]
  /\ got = [c \in Client |-> Empty]
  /\ holder = Nobody /\ up = TRUE
  /\ garbled = FALSE /\ bunched = FALSE /\ kills = 0 /\ stalls = 0

Home(c) == CHOOSE p \in Process : \E n \in DOMAIN Program[p] : Program[p][n] = c

(* main() starts a client when the one before it is done. *)
Turn(c) ==
  LET p == Home(c) IN
  /\ process[p] = "runs"
  /\ \A n \in DOMAIN Program[p] :
       Program[p][n] = c => \A k \in 1..(n - 1) : client[Program[p][k]] = "done"

(* decode returns a pointer into a string it has destroyed: a comparison   *)
(* of equal strings may also fail.                                         *)
Reads(data, text, equal) ==
  \/ equal = (data = text) /\ UNCHANGED garbled
  \/ equal = FALSE /\ garbled' = TRUE

-----------------------------------------------------------------------------
(* A client. *)

Goes(c, from, to) == /\ Turn(c)
                     /\ client[c] = from
                     /\ client' = [client EXCEPT ![c] = to]

Send(c, message) == toServer' = [toServer EXCEPT ![c] = Append(@, message)]

Exit(p) == process' = [process EXCEPT ![p] = "ended"] /\ UNCHANGED <<kills, stalls>>

(* Client::start.  A server that is down refuses, and the program exits.   *)
Connect(c) ==
  /\ IF up THEN Goes(c, "new", "connected") /\ UNCHANGED fate
           ELSE Turn(c) /\ client[c] = "new" /\ Exit(Home(c)) /\ UNCHANGED client
  /\ UNCHANGED <<streams, server, accident>>

(* perform_handshake, up to its recv and after it. *)
SendSYN(c) ==
  /\ Goes(c, "connected", "handshake")
  /\ Send(c, SYN)
  /\ UNCHANGED <<toClient, server, accident, fate>>

(* Mutant: a client that misses the SYN_ACK leaves instead of going on. *)
ReceiveSYNACKStrict(c) ==
  /\ Turn(c) /\ client[c] = "handshake"
  /\ toClient[c] # <<>>
  /\ toClient' = [toClient EXCEPT ![c] = Tail(@)]
  /\ \E equal \in BOOLEAN :
       /\ Reads(Head(toClient[c]), SYN_ACK, equal)
       /\ IF equal
            THEN Goes(c, "handshake", "send") /\ Send(c, ACK) /\ UNCHANGED fate
            ELSE Exit(Home(c)) /\ UNCHANGED <<client, toServer>>
  /\ UNCHANGED <<server, bunched>>

(* A client that misses the SYN_ACK sends no ACK and goes on all the same. *)
ReceiveSYNACK(c) ==
  /\ Goes(c, "handshake", "send")
  /\ toClient[c] # <<>>
  /\ toClient' = [toClient EXCEPT ![c] = Tail(@)]
  /\ \E equal \in BOOLEAN :
       /\ Reads(Head(toClient[c]), SYN_ACK, equal)
       /\ IF equal THEN Send(c, ACK) ELSE UNCHANGED toServer
  /\ UNCHANGED <<server, bunched, fate>>

(* send_data, up to its recv and after it. *)
SendData(c) ==
  /\ Goes(c, "send", "recv")
  /\ Send(c, DEFAULT_MESSAGE)
  /\ UNCHANGED <<toClient, server, accident, fate>>

ReceiveEcho(c) ==
  /\ Goes(c, "recv", "done")
  /\ toClient[c] # <<>>
  /\ toClient' = [toClient EXCEPT ![c] = Tail(@)]
  /\ UNCHANGED <<toServer, server, accident, fate>>

HungUp(c) == ~up \/ handler[c] \in {"answered", "refused"}

(* The server has closed the connection: decode("") throws, or a send to a *)
(* server that is down kills the program by SIGPIPE.  The clients after    *)
(* this one never start.                                                   *)
Die(c) ==
  /\ Turn(c)
  /\ \/ client[c] \in {"handshake", "recv"} /\ HungUp(c)
     \/ client[c] \in {"connected", "send"} /\ ~up
  /\ toClient[c] = <<>>
  /\ Exit(Home(c))
  /\ UNCHANGED <<client, streams, server, accident>>

(* The user interrupts a client program, or stops it for good. *)
Kill(p) ==
  /\ process[p] # "ended" /\ kills < MaxKills
  /\ process' = [process EXCEPT ![p] = "ended"]
  /\ kills' = kills + 1
  /\ UNCHANGED <<client, streams, server, accident, stalls>>

Stall(p) ==
  /\ process[p] = "runs" /\ stalls < MaxStalls
  /\ process' = [process EXCEPT ![p] = "stalled"]
  /\ stalls' = stalls + 1
  /\ UNCHANGED <<client, streams, server, accident, kills>>

-----------------------------------------------------------------------------
(* The server: start, and handle_client in a thread for each connection.   *)

At(c, place) == up /\ handler[c] = place

Moves(c, place) == handler' = [handler EXCEPT ![c] = place]

Reply(c, message) == toClient' = [toClient EXCEPT ![c] = Append(@, message)]

(* The client's program has ended and nothing of its data is left.         *)
AtEnd(c) == toServer[c] = <<>> /\ process[Home(c)] = "ended"

Accept(c) ==
  /\ At(c, "none") /\ client[c] # "new"
  /\ Moves(c, "SYN")
  /\ UNCHANGED <<client, streams, got, holder, up, accident, fate>>

(* Mutant: the mutex is taken before the first recv. *)
ReceiveSYNLocked(c) ==
  \/ /\ At(c, "SYN") /\ holder = Nobody
     /\ holder' = c
     /\ UNCHANGED <<client, streams, handler, got, up, accident, fate>>
  \/ /\ At(c, "SYN") /\ holder = c
     /\ \/ /\ toServer[c] # <<>>
           /\ got' = [got EXCEPT ![c] = Head(toServer[c])]
           /\ toServer' = [toServer EXCEPT ![c] = Tail(@)]
        \/ AtEnd(c) /\ UNCHANGED <<got, toServer>>
     /\ Moves(c, "lock")
     /\ holder' = Nobody
     /\ UNCHANGED <<client, toClient, up, accident, fate>>

(* The first recv, before the mutex. *)
ReceiveSYN(c) ==
  /\ At(c, "SYN")
  /\ \/ /\ toServer[c] # <<>>
        /\ got' = [got EXCEPT ![c] = Head(toServer[c])]
        /\ toServer' = [toServer EXCEPT ![c] = Tail(@)]
     \/ AtEnd(c) /\ UNCHANGED <<got, toServer>>
  /\ Moves(c, "lock")
  /\ UNCHANGED <<client, toClient, holder, up, accident, fate>>

(* decode("") throws in the handler's thread and ends the server. *)
GoDown == up' = FALSE /\ UNCHANGED <<streams, handler, holder, accident>>

(* Mutant: nobody waits for the mutex. *)
GreetUnlocked(c) ==
  /\ At(c, "lock")
  /\ IF got[c] = Empty
       THEN GoDown
       ELSE /\ \E equal \in BOOLEAN :
                 /\ Reads(got[c], SYN, equal)
                 /\ IF equal
                      THEN Moves(c, "ACK") /\ Reply(c, SYN_ACK)
                      ELSE Moves(c, "refused") /\ UNCHANGED toClient
            /\ UNCHANGED <<toServer, holder, up, bunched>>
  /\ UNCHANGED <<client, got, fate>>

(* The mutex, then the comparison with SYN. *)
Greet(c) ==
  /\ At(c, "lock") /\ holder = Nobody
  /\ IF got[c] = Empty
       THEN GoDown
       ELSE /\ \E equal \in BOOLEAN :
                 /\ Reads(got[c], SYN, equal)
                 /\ IF equal
                      THEN Moves(c, "ACK") /\ Reply(c, SYN_ACK) /\ holder' = c
                      ELSE Moves(c, "refused") /\ UNCHANGED <<toClient, holder>>
            /\ UNCHANGED <<toServer, up, bunched>>
  /\ UNCHANGED <<client, got, fate>>

(* The second recv, which may return the message along with the ACK.       *)
ReceiveACK(c) ==
  /\ At(c, "ACK")
  /\ \/ AtEnd(c) /\ GoDown
     \/ \E n \in DOMAIN toServer[c] : \E equal \in BOOLEAN :
          /\ Reads(IF n = 1 THEN toServer[c][1] ELSE "run together", ACK, equal)
          /\ bunched' = (bunched \/ n > 1)
          /\ toServer' = [toServer EXCEPT ![c] = SubSeq(@, n + 1, Len(@))]
          /\ IF equal THEN Moves(c, "Hello") /\ UNCHANGED holder
                      ELSE Moves(c, "refused") /\ holder' = Nobody
          /\ UNCHANGED <<toClient, up>>
  /\ UNCHANGED <<client, got, fate>>

(* Mutant: the mutex is not given back. *)
ReceiveDataLocked(c) ==
  /\ At(c, "Hello")
  /\ \/ AtEnd(c) /\ GoDown
     \/ /\ toServer[c] # <<>>
        /\ toServer' = [toServer EXCEPT ![c] = Tail(@)]
        /\ \E equal \in BOOLEAN :
             /\ Reads(Head(toServer[c]), DEFAULT_MESSAGE, equal)
             /\ IF equal THEN Moves(c, "answered") /\ Reply(c, DEFAULT_MESSAGE)
                         ELSE Moves(c, "refused") /\ UNCHANGED toClient
        /\ UNCHANGED <<holder, up, bunched>>
  /\ UNCHANGED <<client, got, fate>>

(* The third recv, the echo, close, and the end of the mutex's scope. *)
ReceiveData(c) ==
  /\ At(c, "Hello")
  /\ \/ AtEnd(c) /\ GoDown
     \/ /\ toServer[c] # <<>>
        /\ toServer' = [toServer EXCEPT ![c] = Tail(@)]
        /\ \E equal \in BOOLEAN :
             /\ Reads(Head(toServer[c]), DEFAULT_MESSAGE, equal)
             /\ IF equal THEN Moves(c, "answered") /\ Reply(c, DEFAULT_MESSAGE)
                         ELSE Moves(c, "refused") /\ UNCHANGED toClient
        /\ holder' = Nobody
        /\ UNCHANGED <<up, bunched>>
  /\ UNCHANGED <<client, got, fate>>

-----------------------------------------------------------------------------
ClientStep(c) == \/ Connect(c) \/ SendSYN(c) \/ ReceiveSYNACK(c)
                 \/ SendData(c) \/ ReceiveEcho(c) \/ Die(c)

HandlerStep(c) == \/ Accept(c) \/ ReceiveSYN(c) \/ Greet(c)
                  \/ ReceiveACK(c) \/ ReceiveData(c)

Next == \/ \E c \in Client : ClientStep(c) \/ HandlerStep(c)
        \/ \E p \in Process : Kill(p) \/ Stall(p)

Spec == Init /\ [][Next]_vars

(* Threads and programs that run are scheduled; a user need do nothing.    *)
FairSpec == Spec /\ \A c \in Client : WF_vars(ClientStep(c)) /\ WF_vars(HandlerStep(c))

-----------------------------------------------------------------------------
(* Properties. *)

Stream == [Client -> Seq(Message)]

(* The type invariant: the mutex has one owner, in the middle of its talk. *)
TypeOK ==
  /\ process \in [Process -> {"runs", "stalled", "ended"}]
  /\ client \in [Client -> {"new", "connected", "handshake", "send", "recv", "done"}]
  /\ handler \in [Client -> {"none", "SYN", "lock", "ACK", "Hello", "answered", "refused"}]
  /\ toServer \in Stream /\ toClient \in Stream
  /\ got \in [Client -> Message \cup {Empty}]
  /\ holder \in {c \in Client : handler[c] \in {"ACK", "Hello"}} \cup {Nobody}
  /\ up \in BOOLEAN /\ garbled \in BOOLEAN /\ bunched \in BOOLEAN
  /\ kills \in 0..MaxKills /\ stalls \in 0..MaxStalls

(* The server keeps the promises of Conversations: one client at a time,   *)
(* in order, and never again (handle_client under cout_mutex).             *)
Talks == INSTANCE Conversations WITH
           Clients <- Client,
           up <- up,
           talk <- [c \in Client |->
                      CASE handler[c] \in {"none", "SYN", "lock"}  -> "away"
                        [] handler[c] = "ACK"                      -> "greeted"
                        [] handler[c] = "Hello"                    -> "accepted"
                        [] handler[c] \in {"answered", "refused"}  -> handler[c]]

OneAtATime == Talks!Spec

(* Only an interrupted client brings the server down, by the end of stream *)
(* decode throws at: a client that is refused, or misses a message, goes   *)
(* on sending, and ends only when the handler reads no more of it.         *)
DownOnlyByKill == ~up => kills > 0

Over(p) == \/ process[p] = "ended"
           \/ \A n \in DOMAIN Program[p] : client[Program[p][n]] = "done"

(* A stopped client holds up the others only if the server has greeted it: *)
(* one that has not sent its SYN keeps no one waiting (the first recv is   *)
(* before the mutex, the other two are under it).                          *)
HeldUpOnlyByGreeted ==
  <>[](\/ \A p \in Process : process[p] = "stalled" \/ Over(p)
       \/ \E c \in Client : /\ holder = c /\ process[Home(c)] = "stalled"
                           /\ handler[c] \in {"ACK", "Hello"})

(* Without accidents every client gets its echo. *)
AllServed ==
  <>[](garbled \/ bunched \/ kills + stalls > 0 \/ \A c \in Client : client[c] = "done")

(* Every client is served, but for accidents, and then only those are not  *)
(* that an accident explains.                                              *)
Served == HeldUpOnlyByGreeted /\ AllServed
=============================================================================
