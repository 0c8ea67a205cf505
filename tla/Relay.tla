------------------------------- MODULE Relay --------------------------------
(***************************************************************************)
(* src/A4/Part3: HostA sends the packets of a file through Router to HostB *)
(* over UDP and moves its window by one for every answer.  Each of the     *)
(* three programs has a sending and a receiving thread that share the      *)
(* member `buffer` with no lock: a datagram is written there and read from *)
(* there in two steps, and the other thread may write in between.          *)
(***************************************************************************)
EXTENDS Naturals, Sequences, FiniteSets, SequencesExt

CONSTANTS N,             \* the window
          TotalPackets,  \* packets the file makes
          MaxLost,       \* bound: datagrams the sockets drop
          MaxRaces       \* bound: writes to a buffer another thread is using

ASSUME RelayAssumption ==
  /\ N \in Nat \ {0} /\ TotalPackets \in Nat
  /\ MaxLost \in Nat /\ MaxRaces \in Nat

A == 1    \* the sourceId of each program
R == 2
B == 3
Program == {A, R, B}
Nobody == 0

VARIABLES
  socket,      \* socket[p]: datagrams waiting for p, oldest first
  buffer,      \* Node::buffer of each program: the datagram it holds
  sending,     \* sendMessages: Nobody, or where its sendto goes
  receiving,   \* receiveMessages: between recvfrom and deserializePacket
  queue,       \* buffer_message of R and B
  send_base, nextseqnum,
  seen,        \* seq_nums HostB has answered
  lost,        \* datagrams dropped so far
  races        \* writes to a buffer in use so far

window == <<send_base, nextseqnum>>
vars   == <<socket, buffer, sending, receiving, queue, window, seen, lost, races>>

Datagram == [sourceId : Program, seq_num : 0..TotalPackets]

Init ==
  /\ socket = [p \in Program |-> <<>>]
  /\ buffer = [p \in Program |-> [sourceId |-> p, seq_num |-> 0]]
  /\ sending = [p \in Program |-> Nobody]
  /\ receiving = [p \in Program |-> FALSE]
  /\ queue = [p \in {R, B} |-> <<>>]
  /\ send_base = 0 /\ nextseqnum = 0
  /\ seen = <<>> /\ lost = 0 /\ races = 0

-----------------------------------------------------------------------------
(* The shared buffer. *)

(* A thread writes d to p's buffer; if the other thread is between its own *)
(* write and read, that is a race.                                         *)
Write(p, d, inUse) ==
  /\ buffer' = [buffer EXCEPT ![p] = d]
  /\ IF inUse THEN races < MaxRaces /\ races' = races + 1 ELSE UNCHANGED races

(* sendto of what p's buffer holds by now; the datagram may be dropped.    *)
SendTo(p) ==
  LET to == sending[p] IN
  /\ to \in Program
  /\ sending' = [sending EXCEPT ![p] = Nobody]
  /\ \/ socket' = [socket EXCEPT ![to] = Append(@, buffer[p])] /\ UNCHANGED lost
     \/ lost < MaxLost /\ lost' = lost + 1 /\ UNCHANGED socket

(* recvfrom *)
RecvFrom(p) ==
  /\ ~receiving[p] /\ socket[p] # <<>>
  /\ receiving' = [receiving EXCEPT ![p] = TRUE]
  /\ socket' = [socket EXCEPT ![p] = Tail(@)]
  /\ Write(p, Head(socket[p]), sending[p] # Nobody)
  /\ UNCHANGED <<sending, queue, window, seen, lost>>

(* deserializePacket ends a turn of receiveMessages. *)
Deserialize(p) ==
  /\ receiving[p]
  /\ receiving' = [receiving EXCEPT ![p] = FALSE]

-----------------------------------------------------------------------------
(* HostA *)

(* Mutants: the end of the file or the window is not minded.               *)
ASerializePastEnd ==
  /\ sending[A] = Nobody
  /\ nextseqnum < send_base + N
  /\ Write(A, [sourceId |-> A, seq_num |-> nextseqnum], receiving[A])
  /\ sending' = [sending EXCEPT ![A] = R]
  /\ UNCHANGED <<socket, receiving, queue, window, seen, lost>>
ASerializeInStep ==
  /\ sending[A] = Nobody
  /\ nextseqnum < send_base /\ nextseqnum < TotalPackets
  /\ Write(A, [sourceId |-> A, seq_num |-> nextseqnum], receiving[A])
  /\ sending' = [sending EXCEPT ![A] = R]
  /\ UNCHANGED <<socket, receiving, queue, window, seen, lost>>

ASerialize ==
  /\ sending[A] = Nobody
  /\ nextseqnum < send_base + N /\ nextseqnum < TotalPackets
  /\ Write(A, [sourceId |-> A, seq_num |-> nextseqnum], receiving[A])
  /\ sending' = [sending EXCEPT ![A] = R]
  /\ UNCHANGED <<socket, receiving, queue, window, seen, lost>>

ASend ==
  /\ SendTo(A)
  /\ nextseqnum' = nextseqnum + 1
  /\ UNCHANGED <<buffer, receiving, queue, send_base, seen, races>>

(* Mutant: only HostB's own mark counts, which Router has replaced.        *)
AReceiveFromB ==
  /\ Deserialize(A)
  /\ send_base' = IF buffer[A].sourceId = B THEN send_base + 1 ELSE send_base
  /\ UNCHANGED <<socket, buffer, sending, queue, nextseqnum, seen, lost, races>>

(* Any datagram but one of its own moves the window, whatever its seq_num. *)
AReceive ==
  /\ Deserialize(A)
  /\ send_base' = IF buffer[A].sourceId = A THEN send_base ELSE send_base + 1
  /\ UNCHANGED <<socket, buffer, sending, queue, nextseqnum, seen, lost, races>>

(* Mutants: front() without pop_front(), and the newest first.             *)
RSerializeKeep ==
  LET d == Head(queue[R]) IN
  /\ sending[R] = Nobody /\ queue[R] # <<>>
  /\ Write(R, [d EXCEPT !.sourceId = R], receiving[R])
  /\ sending' = [sending EXCEPT ![R] = IF d.sourceId = A THEN B ELSE A]
  /\ UNCHANGED <<socket, receiving, queue, window, seen, lost>>
RSerializeNewest ==
  LET d == Last(queue[R]) IN
  /\ sending[R] = Nobody /\ queue[R] # <<>>
  /\ queue' = [queue EXCEPT ![R] = Front(@)]
  /\ Write(R, [d EXCEPT !.sourceId = R], receiving[R])
  /\ sending' = [sending EXCEPT ![R] = IF d.sourceId = A THEN B ELSE A]
  /\ UNCHANGED <<socket, receiving, window, seen, lost>>

(* Router: to the other host, marked as its own. *)
RSerialize ==
  LET d == Head(queue[R]) IN
  /\ sending[R] = Nobody /\ queue[R] # <<>>
  /\ queue' = [queue EXCEPT ![R] = Tail(@)]
  /\ Write(R, [d EXCEPT !.sourceId = R], receiving[R])
  /\ sending' = [sending EXCEPT ![R] = IF d.sourceId = A THEN B ELSE A]
  /\ UNCHANGED <<socket, receiving, window, seen, lost>>

RSend == SendTo(R) /\ UNCHANGED <<buffer, receiving, queue, window, seen, races>>

(* A datagram with Router's own mark is dropped. *)
RReceive ==
  /\ Deserialize(R)
  /\ queue' = IF buffer[R].sourceId = R THEN queue ELSE [queue EXCEPT ![R] = Append(@, buffer[R])]
  /\ UNCHANGED <<socket, buffer, sending, window, seen, lost, races>>

(* HostB: an answer with the same seq_num to all but its own. *)
BReceive ==
  /\ Deserialize(B)
  /\ IF buffer[B].sourceId = B
       THEN UNCHANGED <<queue, seen>>
       ELSE /\ queue' = [queue EXCEPT ![B] = Append(@, [sourceId |-> B, seq_num |-> buffer[B].seq_num])]
            /\ seen' = Append(seen, buffer[B].seq_num)
  /\ UNCHANGED <<socket, buffer, sending, window, lost, races>>

BSerialize ==
  /\ sending[B] = Nobody /\ queue[B] # <<>>
  /\ queue' = [queue EXCEPT ![B] = Tail(@)]
  /\ Write(B, Head(queue[B]), receiving[B])
  /\ sending' = [sending EXCEPT ![B] = R]
  /\ UNCHANGED <<socket, receiving, window, seen, lost>>

BSend == SendTo(B) /\ UNCHANGED <<buffer, receiving, queue, window, seen, races>>

-----------------------------------------------------------------------------
SendThread(p) == \/ p = A /\ (ASerialize \/ ASend)
                 \/ p = R /\ (RSerialize \/ RSend)
                 \/ p = B /\ (BSerialize \/ BSend)

ReceiveThread(p) == \/ RecvFrom(p)
                    \/ p = A /\ AReceive
                    \/ p = R /\ RReceive
                    \/ p = B /\ BReceive

Next == \E p \in Program : SendThread(p) \/ ReceiveThread(p)

Spec == Init /\ [][Next]_vars

FairSpec == Spec /\ \A p \in Program : WF_vars(SendThread(p)) /\ WF_vars(ReceiveThread(p))

-----------------------------------------------------------------------------
(* Properties. *)

Datagrams == Seq(Datagram)

(* The type invariant: datagrams everywhere, and HostA never numbers a     *)
(* packet past the end of the file.                                        *)
TypeOK ==
  /\ socket \in [Program -> Datagrams]
  /\ buffer \in [Program -> Datagram]
  /\ sending \in [Program -> Program \cup {Nobody}]
  /\ receiving \in [Program -> BOOLEAN]
  /\ queue \in [{R, B} -> Datagrams]
  /\ send_base \in Nat /\ nextseqnum \in 0..TotalPackets
  /\ seen \in Seq(Nat) /\ lost \in 0..MaxLost /\ races \in 0..MaxRaces

Sum3(f) == f[A] + f[R] + f[B]

Sent == nextseqnum + IF sending[A] = Nobody THEN 0 ELSE 1

(* Datagrams in sockets, in queues and in the hands of a thread. *)
InTransit ==
  Sum3([p \in Program |-> Len(socket[p]) + (IF sending[p] = Nobody THEN 0 ELSE 1)
                                         + (IF receiving[p] THEN 1 ELSE 0)
                                         + (IF p = A THEN 0 ELSE Len(queue[p]))])

(* Every packet sent moves the window once, is still on its way, or was    *)
(* lost to a socket or to one race: a write over a buffer in use costs one *)
(* datagram at most, and adds none.  With HostA's window this bounds the   *)
(* queues of Router and HostB, which check no size of their own.           *)
Accounted ==
  LET known == send_base + InTransit + lost IN known <= Sent /\ Sent <= known + races

(* A race may also repeat a datagram (a raw one overtakes its own copy in  *)
(* Router), and then HostB answers, and the window moves, more often than  *)
(* packets were sent, but only once for every race.                        *)
RepeatsOnlyByRaces ==
  /\ Len(seen) <= nextseqnum + races
  /\ send_base <= Len(seen) + races

(* As long as nothing was lost, HostB sees the packets in order, and has   *)
(* seen every packet below send_base.                                      *)
InOrderUnlessLost ==
  lost + races = 0 => /\ send_base <= Len(seen)
                      /\ \A j \in DOMAIN seen : seen[j] = j - 1

(* send_base is a count of answers: each datagram gone shrinks the window  *)
(* by one for good, and with fewer gone than the window is wide the rest   *)
(* of the file still comes through.                                        *)
ComesThrough ==
  <>[](send_base + lost + races >= TotalPackets \/ lost + races >= N)
=============================================================================
