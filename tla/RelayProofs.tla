---------------------------- MODULE RelayProofs -----------------------------
(***************************************************************************)
(* For every window, file, and number of losses and races: the accounts    *)
(* and the order the programs of src/A4/Part3 keep.  The proofs count the  *)
(* datagrams on their way by what becomes of them: those that the program  *)
(* they reach will drop as its own (each the work of one race), those that *)
(* HostB will still see, and those that will still move the window.        *)
(***************************************************************************)
EXTENDS Relay, TLAPS, SequenceTheorems, FiniteSetTheorems, FunctionTheorems

(* Who sends to whom, and what HostB answers with.                         *)
Routed ==
  /\ sending[A] \in {Nobody, R} /\ sending[B] \in {Nobody, R} /\ sending[R] \in {Nobody, A, B}
  /\ sending[A] = R => nextseqnum < TotalPackets
  /\ \A i \in DOMAIN queue[B] : queue[B][i].sourceId = B

One(b) == IF b THEN 1 ELSE 0

(* How many of the first n datagrams of s, or of all of s, have p's mark.  *)
Upto(s, p, n) == Cardinality({i \in 1..n : s[i].sourceId = p})
Of(s, p) == Upto(s, p, Len(s))
Size(s) == Len(s)

(* Datagrams in the hands of a thread: one that was received and not yet   *)
(* looked at, or written and not yet sent, and those with q's mark.        *)
In(p)         == One(receiving[p])
InFrom(p, q)  == One(receiving[p] /\ buffer[p].sourceId = q)
Out(p)        == One(sending[p] # Nobody)
OutFrom(p, q) == One(sending[p] # Nobody /\ buffer[p].sourceId = q)
To(q)         == One(sending[R] = q)

(* A program drops what reaches it with its own mark.                      *)
ROwn == One(sending[R] # Nobody /\ buffer[R].sourceId = sending[R])

Doomed ==
  (Of(socket[A], A) + InFrom(A, A) + OutFrom(A, R))
  + (Of(socket[R], R) + InFrom(R, R) + ROwn)
  + (Of(socket[B], B) + InFrom(B, B) + OutFrom(B, R))

OnTheWay ==
  (Size(socket[A]) + Size(socket[R]) + Size(socket[B])) + (Size(queue[R]) + Size(queue[B]))
  + (In(A) + In(R) + In(B)) + (Out(A) + Out(R) + Out(B))

Balance ==
  /\ send_base + OnTheWay + lost <= nextseqnum + Out(A)
  /\ nextseqnum + Out(A) + Doomed <= send_base + OnTheWay + lost + races

(* What HostB will see, and what it has seen.                              *)
ToSee ==
  (Size(socket[B]) + (In(B) - InFrom(B, B))) + (To(B) + Of(queue[R], A))
  + (InFrom(R, A) + Of(socket[R], A)) + OutFrom(B, A)

Onward == Size(seen) + ToSee <= nextseqnum + races

(* What will move the window, and what has moved it.                       *)
ToCount ==
  (Size(socket[A]) + (In(A) - InFrom(A, A))) + (To(A) + (Size(queue[R]) - Of(queue[R], A)))
  + (InFrom(R, B) + Of(socket[R], B)) + (Out(B) + Size(queue[B])) + OutFrom(A, B)

Back == send_base + ToCount <= Size(seen) + races

(* Without races a buffer has one user at a time, and marks are what the   *)
(* senders made them.                                                      *)
AloneAt(p) ==
  /\ ~(receiving[p] /\ sending[p] # Nobody)
  /\ sending[p] # Nobody => buffer[p].sourceId = p
  /\ receiving[p] => buffer[p].sourceId # p
  /\ \A i \in DOMAIN socket[p] : socket[p][i].sourceId # p

Alone == races = 0 => \A p \in Program : AloneAt(p)

(* The places of a packet on its way to HostB, the foremost first: without *)
(* losses and races each holds the packets that follow those ahead of it.  *)
B1 == Size(seen)
B2 == B1 + In(B)
R3 == B2 + Size(socket[B])
R4 == R3 + To(B)
R5 == R4 + Of(queue[R], A)
R6 == R5 + InFrom(R, A)
A7 == R6 + Of(socket[R], A)

(* The datagrams of s, or those with p's mark, are numbered from k on.     *)
Numbered(s, k)  == \A i \in DOMAIN s : s[i].seq_num = k + i - 1
Follow(s, p, k) == \A i \in DOMAIN s : s[i].sourceId = p => s[i].seq_num = k + Upto(s, p, i) - 1

InPlace ==
  /\ \A j \in DOMAIN seen : seen[j] = j - 1
  /\ receiving[B] => buffer[B].seq_num = B1
  /\ Numbered(socket[B], B2)
  /\ sending[R] = B => buffer[R].seq_num = R3
  /\ Follow(queue[R], A, R4)
  /\ receiving[R] /\ buffer[R].sourceId = A => buffer[R].seq_num = R5
  /\ Follow(socket[R], A, R6)
  /\ A7 = nextseqnum
  /\ sending[A] # Nobody => buffer[A].seq_num = nextseqnum

InStep == lost + races = 0 => InPlace

Counts == Balance /\ Onward /\ Back

Inv == TypeOK /\ Routed /\ Counts /\ Alone /\ InStep

-----------------------------------------------------------------------------
(* Counting.                                                               *)
LEMMA UptoNat ==
  ASSUME NEW s, NEW p, NEW n \in Nat
  PROVE  /\ IsFiniteSet({i \in 1..n : s[i].sourceId = p})
         /\ Upto(s, p, n) \in 0..n
<1>1. IsFiniteSet(1..n) /\ Cardinality(1..n) = n
  BY FS_Interval
<1>2. /\ IsFiniteSet({i \in 1..n : s[i].sourceId = p})
      /\ Cardinality({i \in 1..n : s[i].sourceId = p}) <= n
  BY <1>1, FS_Subset
<1> QED
  BY <1>2, FS_CardinalityType DEF Upto

LEMMA UptoNext ==
  ASSUME NEW s, NEW p, NEW n \in Nat
  PROVE  Upto(s, p, n + 1) = Upto(s, p, n) + One(s[n + 1].sourceId = p)
<1> DEFINE S(m) == {i \in 1..m : s[i].sourceId = p}
<1>1. IsFiniteSet(S(n)) /\ n + 1 \notin S(n)
  <2>1. n + 1 \notin S(n)
    OBVIOUS
  <2> QED
    BY <2>1, UptoNat
<1>2. S(n + 1) = IF s[n + 1].sourceId = p THEN S(n) \cup {n + 1} ELSE S(n)
  OBVIOUS
<1>3. Cardinality(S(n) \cup {n + 1}) = Cardinality(S(n)) + 1
  BY <1>1, FS_AddElement
<1>4. Cardinality(S(n)) \in Nat
  BY <1>1, FS_CardinalityType
<1> HIDE DEF S
<1>5. Cardinality(S(n + 1)) = Cardinality(S(n)) + One(s[n + 1].sourceId = p)
  BY <1>2, <1>3, <1>4 DEF One
<1> QED
  BY <1>5 DEF Upto, S

(* Appending adds one if the mark is p's, and leaves what is before.       *)
LEMMA Appended ==
  ASSUME NEW s \in Datagrams, NEW d \in Datagram
  PROVE  /\ Append(s, d) \in Datagrams
         /\ Len(s) \in Nat /\ Len(Append(s, d)) = Len(s) + 1
         /\ DOMAIN s = 1..Len(s) /\ DOMAIN Append(s, d) = 1..(Len(s) + 1)
         /\ \A i \in 1..Len(s) : Append(s, d)[i] = s[i]
         /\ Append(s, d)[Len(s) + 1] = d
BY AppendProperties, LenProperties DEF Datagrams

LEMMA UptoAppend ==
  ASSUME NEW s \in Datagrams, NEW d \in Datagram, NEW p, NEW n \in 0..Len(s)
  PROVE  Upto(Append(s, d), p, n) = Upto(s, p, n)
<1>1. {i \in 1..n : Append(s, d)[i].sourceId = p} = {i \in 1..n : s[i].sourceId = p}
  BY Appended
<1> QED
  BY <1>1 DEF Upto

LEMMA CountAppend ==
  ASSUME NEW s \in Datagrams, NEW d \in Datagram, NEW p
  PROVE  /\ Append(s, d) \in Datagrams
         /\ Len(s) \in Nat /\ Len(Append(s, d)) = Len(s) + 1
         /\ Of(s, p) \in 0..Len(s)
         /\ Of(Append(s, d), p) = Of(s, p) + One(d.sourceId = p)
<1> DEFINE t == Append(s, d)
<1>1. /\ t \in Datagrams /\ Len(s) \in Nat /\ Len(t) = Len(s) + 1
      /\ t[Len(s) + 1] = d
  BY Appended
<1>2. Upto(t, p, Len(s)) = Upto(s, p, Len(s))
  <2>1. Len(s) \in 0..Len(s)
    BY <1>1
  <2> QED
    BY <2>1, UptoAppend
<1>3. Upto(s, p, Len(s)) \in 0..Len(s)
  BY <1>1, UptoNat
<1> HIDE DEF t
<1>4. Upto(t, p, Len(s) + 1) = Upto(t, p, Len(s)) + One(t[Len(s) + 1].sourceId = p)
  BY <1>1, UptoNext
<1>5. Of(t, p) = Of(s, p) + One(d.sourceId = p)
  BY <1>1, <1>2, <1>4 DEF Of
<1> QED
  BY <1>1, <1>3, <1>5 DEF Of, t

(* Taking the head off subtracts one if its mark is p's.                   *)
LEMMA Removed ==
  ASSUME NEW s \in Datagrams, s # <<>>
  PROVE  /\ Head(s) \in Datagram /\ Tail(s) \in Datagrams
         /\ Head(s) = s[1] /\ 1 \in DOMAIN s
         /\ Len(s) \in Nat \ {0} /\ Len(Tail(s)) = Len(s) - 1
         /\ DOMAIN s = 1..Len(s) /\ DOMAIN Tail(s) = 1..(Len(s) - 1)
         /\ \A i \in 1..(Len(s) - 1) : Tail(s)[i] = s[i + 1]
BY HeadTailProperties, LenProperties, EmptySeq DEF Datagrams

LEMMA UptoTail ==
  ASSUME NEW s \in Datagrams, s # <<>>, NEW p, NEW n \in 0..(Len(s) - 1)
  PROVE  Upto(Tail(s), p, n) + One(Head(s).sourceId = p) = Upto(s, p, n + 1)
<1> DEFINE T == {i \in 1..n : Tail(s)[i].sourceId = p}
           S == {i \in 2..(n + 1) : s[i].sourceId = p}
           U == {i \in 1..(n + 1) : s[i].sourceId = p}
           f == [i \in T |-> i + 1]
<1>1. n \in Nat /\ \A i \in 1..n : Tail(s)[i] = s[i + 1]
  BY Removed
<1>2. f \in [T -> S]
  BY <1>1
<1>3. \A a, b \in T : f[a] = f[b] => a = b
  OBVIOUS
<1>4. \A t \in S : \E i \in T : f[i] = t
  <2> SUFFICES ASSUME NEW t \in S PROVE \E i \in T : f[i] = t
    OBVIOUS
  <2>1. t - 1 \in 1..n /\ s[t].sourceId = p /\ (t - 1) + 1 = t
    BY <1>1
  <2>2. t - 1 \in T
    BY <1>1, <2>1
  <2> QED
    BY <2>1, <2>2
<1>5. IsFiniteSet(T) /\ IsFiniteSet(U)
  <2>1. n \in Nat /\ n + 1 \in Nat
    BY <1>1
  <2> QED
    BY <2>1, UptoNat
<1> HIDE DEF T, S, f
<1>6. f \in Bijection(T, S)
  BY <1>2, <1>3, <1>4, Fun_IsBij
<1>7. Cardinality(S) = Cardinality(T) /\ IsFiniteSet(S)
  BY <1>5, <1>6, FS_Bijection, Fun_ExistsBij
<1>8. U = (IF s[1].sourceId = p THEN S \cup {1} ELSE S) /\ 1 \notin S
  BY <1>1 DEF S
<1>9. Cardinality(S) \in Nat /\ Cardinality(S \cup {1}) = Cardinality(S) + 1
  BY <1>7, <1>8, FS_CardinalityType, FS_AddElement
<1> HIDE DEF U
<1>10. Cardinality(T) + One(s[1].sourceId = p) = Cardinality(U)
  BY <1>7, <1>8, <1>9 DEF One
<1> QED
  BY Removed, <1>10 DEF Upto, T, U

LEMMA CountTail ==
  ASSUME NEW s \in Datagrams, s # <<>>, NEW p
  PROVE  /\ Head(s) \in Datagram /\ Tail(s) \in Datagrams
         /\ Len(s) \in Nat \ {0} /\ Len(Tail(s)) = Len(s) - 1
         /\ Of(Tail(s), p) \in 0..Len(Tail(s))
         /\ Of(Tail(s), p) + One(Head(s).sourceId = p) = Of(s, p)
<1>1. /\ Head(s) \in Datagram /\ Tail(s) \in Datagrams
      /\ Len(s) \in Nat \ {0} /\ Len(Tail(s)) = Len(s) - 1
  BY Removed
<1>2. Len(Tail(s)) \in Nat /\ Len(Tail(s)) \in 0..(Len(s) - 1) /\ Len(Tail(s)) + 1 = Len(s)
  BY <1>1
<1>3. Upto(Tail(s), p, Len(Tail(s))) \in 0..Len(Tail(s))
  BY <1>2, UptoNat
<1>4. Upto(Tail(s), p, Len(Tail(s))) + One(Head(s).sourceId = p) = Upto(s, p, Len(s))
  BY <1>2, UptoTail
<1> QED
  BY <1>1, <1>3, <1>4 DEF Of

-----------------------------------------------------------------------------
(* The type invariant.                                                     *)
LEMMA Programs ==
  Program = {A, R, B} /\ A # R /\ A # B /\ R # B /\ Nobody \notin {A, R, B}
BY DEF Program, A, R, B, Nobody

LEMMA Marked ==
  ASSUME NEW p \in Program, NEW d \in Datagram
  PROVE  /\ [d EXCEPT !.sourceId = p] \in Datagram
         /\ [d EXCEPT !.sourceId = p].sourceId = p
         /\ [d EXCEPT !.sourceId = p].seq_num = d.seq_num
         /\ d.sourceId \in Program /\ d.seq_num \in 0..TotalPackets
BY DEF Datagram

LEMMA Bounds == N \in Nat \ {0} /\ TotalPackets \in Nat /\ MaxLost \in Nat /\ MaxRaces \in Nat
BY RelayAssumption

(* What a write to a buffer and a sendto do.                               *)
LEMMA Writes ==
  ASSUME TypeOK, NEW p \in Program, NEW d \in Datagram, NEW inUse \in BOOLEAN, Write(p, d, inUse)
  PROVE  /\ buffer' \in [Program -> Datagram] /\ buffer'[p] = d
         /\ \A q \in Program \ {p} : buffer'[q] = buffer[q]
         /\ races' \in 0..MaxRaces /\ races' = races + One(inUse)
BY Bounds DEF Write, TypeOK, One

LEMMA Sends ==
  ASSUME TypeOK, NEW p \in Program, SendTo(p)
  PROVE  /\ sending[p] \in Program /\ sending'[p] = Nobody
         /\ sending' \in [Program -> Program \cup {Nobody}]
         /\ \A q \in Program \ {p} : sending'[q] = sending[q]
         /\ socket' \in [Program -> Datagrams] /\ lost' \in 0..MaxLost
         /\ \/ /\ lost' = lost
               /\ socket'[sending[p]] = Append(socket[sending[p]], buffer[p])
               /\ \A q \in Program \ {sending[p]} : socket'[q] = socket[q]
            \/ lost' = lost + 1 /\ socket' = socket
<1>1. /\ sending[p] \in Program
      /\ sending' = [sending EXCEPT ![p] = Nobody]
      /\ \/ /\ socket' = [socket EXCEPT ![sending[p]] = Append(@, buffer[p])]
            /\ lost' = lost
         \/ lost < MaxLost /\ lost' = lost + 1 /\ socket' = socket
  BY DEF SendTo
<1>2. Append(socket[sending[p]], buffer[p]) \in Datagrams
  BY <1>1, CountAppend DEF TypeOK
<1>3. lost' \in 0..MaxLost
  BY <1>1, Bounds DEF TypeOK
<1>4. CASE /\ socket' = [socket EXCEPT ![sending[p]] = Append(@, buffer[p])]
           /\ lost' = lost
  BY <1>1, <1>2, <1>3, <1>4 DEF TypeOK
<1>5. CASE lost' = lost + 1 /\ socket' = socket
  BY <1>1, <1>3, <1>5 DEF TypeOK
<1> QED
  BY <1>1, <1>4, <1>5

LEMMA Receives ==
  ASSUME TypeOK, NEW p \in Program, RecvFrom(p)
  PROVE  /\ receiving[p] = FALSE /\ receiving'[p] = TRUE
         /\ receiving' \in [Program -> BOOLEAN]
         /\ \A q \in Program \ {p} : receiving'[q] = receiving[q]
         /\ socket[p] # <<>> /\ socket'[p] = Tail(socket[p])
         /\ socket' \in [Program -> Datagrams]
         /\ \A q \in Program \ {p} : socket'[q] = socket[q]
         /\ buffer'[p] = Head(socket[p]) /\ buffer' \in [Program -> Datagram]
         /\ \A q \in Program \ {p} : buffer'[q] = buffer[q]
         /\ races' \in 0..MaxRaces /\ races' = races + One(sending[p] # Nobody)
         /\ UNCHANGED <<sending, queue, send_base, nextseqnum, seen, lost>>
<1>1. socket[p] \in Datagrams /\ socket[p] # <<>>
  BY DEF RecvFrom, TypeOK
<1>2. Head(socket[p]) \in Datagram /\ Tail(socket[p]) \in Datagrams
  BY <1>1, CountTail
<1>3. /\ buffer' \in [Program -> Datagram] /\ buffer'[p] = Head(socket[p])
      /\ \A q \in Program \ {p} : buffer'[q] = buffer[q]
      /\ races' \in 0..MaxRaces /\ races' = races + One(sending[p] # Nobody)
  <2>1. Write(p, Head(socket[p]), sending[p] # Nobody)
    BY DEF RecvFrom
  <2> QED
    BY <1>2, <2>1, Writes
<1>4. socket' = [socket EXCEPT ![p] = Tail(@)] /\ receiving' = [receiving EXCEPT ![p] = TRUE]
  BY DEF RecvFrom
<1>5. socket' \in [Program -> Datagrams] /\ socket'[p] = Tail(socket[p])
  BY <1>2, <1>4 DEF TypeOK
<1> QED
  BY <1>1, <1>3, <1>4, <1>5 DEF RecvFrom, TypeOK, window

(* What a serializePacket and a turn of receiveMessages do.                *)
Handed(p, to) == /\ sending[p] = Nobody /\ sending'[p] = to
                 /\ sending' \in [Program -> Program \cup {Nobody}]
                 /\ \A q \in Program \ {p} : sending'[q] = sending[q]
                 /\ buffer' \in [Program -> Datagram]
                 /\ \A q \in Program \ {p} : buffer'[q] = buffer[q]
                 /\ races' \in 0..MaxRaces /\ races' = races + One(receiving[p])

Turned(p) == /\ receiving[p] /\ receiving' \in [Program -> BOOLEAN] /\ receiving'[p] = FALSE
             /\ \A q \in Program \ {p} : receiving'[q] = receiving[q]
             /\ UNCHANGED <<socket, buffer, sending, nextseqnum, lost, races>>

LEMMA Hands ==
  ASSUME TypeOK, NEW p \in Program, NEW to \in Program, NEW d \in Datagram,
         sending[p] = Nobody, sending' = [sending EXCEPT ![p] = to], Write(p, d, receiving[p])
  PROVE  Handed(p, to) /\ buffer'[p] = d
<1>1. receiving[p] \in BOOLEAN
  BY DEF TypeOK
<1>2. /\ buffer' \in [Program -> Datagram] /\ buffer'[p] = d
      /\ \A q \in Program \ {p} : buffer'[q] = buffer[q]
      /\ races' \in 0..MaxRaces /\ races' = races + One(receiving[p])
  BY <1>1, Writes
<1>3. /\ sending'[p] = to /\ sending' \in [Program -> Program \cup {Nobody}]
      /\ \A q \in Program \ {p} : sending'[q] = sending[q]
  BY DEF TypeOK
<1> QED
  BY <1>2, <1>3 DEF Handed

LEMMA ASerializes ==
  ASSUME TypeOK, ASerialize
  PROVE  /\ Handed(A, R) /\ buffer'[A] = [sourceId |-> A, seq_num |-> nextseqnum]
         /\ nextseqnum < TotalPackets
         /\ UNCHANGED <<socket, receiving, queue, send_base, nextseqnum, seen, lost>>
<1>1. nextseqnum \in 0..TotalPackets /\ A \in Program /\ R \in Program
  BY Programs DEF TypeOK
<1>2. [sourceId |-> A, seq_num |-> nextseqnum] \in Datagram
  BY <1>1 DEF Datagram
<1> QED
  BY <1>1, <1>2, Hands DEF ASerialize, window

LEMMA RSerializes ==
  ASSUME TypeOK, RSerialize
  PROVE  /\ queue[R] # <<>> /\ queue[R] \in Datagrams
         /\ Handed(R, IF Head(queue[R]).sourceId = A THEN B ELSE A)
         /\ buffer'[R].sourceId = R /\ buffer'[R].seq_num = Head(queue[R]).seq_num
         /\ queue' \in [{R, B} -> Datagrams]
         /\ queue'[R] = Tail(queue[R]) /\ queue'[B] = queue[B]
         /\ UNCHANGED <<socket, receiving, send_base, nextseqnum, seen, lost>>
<1> DEFINE d == Head(queue[R])
<1>1. queue[R] \in Datagrams /\ queue[R] # <<>>
  BY DEF RSerialize, TypeOK
<1>2. d \in Datagram /\ Tail(queue[R]) \in Datagrams
  BY <1>1, CountTail
<1>3. /\ [d EXCEPT !.sourceId = R] \in Datagram
      /\ [d EXCEPT !.sourceId = R].sourceId = R
      /\ [d EXCEPT !.sourceId = R].seq_num = d.seq_num
  BY <1>2, Marked, Programs
<1>4. /\ sending[R] = Nobody
      /\ sending' = [sending EXCEPT ![R] = IF d.sourceId = A THEN B ELSE A]
      /\ Write(R, [d EXCEPT !.sourceId = R], receiving[R])
      /\ queue' = [queue EXCEPT ![R] = Tail(@)]
      /\ UNCHANGED <<socket, receiving, send_base, nextseqnum, seen, lost>>
  BY DEF RSerialize, window
<1> HIDE DEF d
<1>5. /\ Handed(R, IF d.sourceId = A THEN B ELSE A)
      /\ buffer'[R] = [d EXCEPT !.sourceId = R]
  BY <1>3, <1>4, Hands, Programs
<1>6. /\ queue' \in [{R, B} -> Datagrams]
      /\ queue'[R] = Tail(queue[R]) /\ queue'[B] = queue[B]
  BY <1>2, <1>4, Programs DEF TypeOK
<1> QED
  BY <1>1, <1>3, <1>4, <1>5, <1>6 DEF d

LEMMA BSerializes ==
  ASSUME TypeOK, BSerialize
  PROVE  /\ queue[B] # <<>> /\ queue[B] \in Datagrams
         /\ Handed(B, R) /\ buffer'[B] = Head(queue[B])
         /\ queue' \in [{R, B} -> Datagrams]
         /\ queue'[B] = Tail(queue[B]) /\ queue'[R] = queue[R]
         /\ UNCHANGED <<socket, receiving, send_base, nextseqnum, seen, lost>>
<1>1. queue[B] \in Datagrams /\ queue[B] # <<>>
  BY DEF BSerialize, TypeOK
<1>2. Head(queue[B]) \in Datagram /\ Tail(queue[B]) \in Datagrams
  BY <1>1, CountTail
<1>3. Handed(B, R) /\ buffer'[B] = Head(queue[B])
  BY <1>2, Hands, Programs DEF BSerialize
<1>4. /\ queue' \in [{R, B} -> Datagrams]
      /\ queue'[B] = Tail(queue[B]) /\ queue'[R] = queue[R]
  BY <1>2, Programs DEF BSerialize, TypeOK
<1> QED
  BY <1>1, <1>3, <1>4 DEF BSerialize, window

LEMMA AReceives ==
  ASSUME TypeOK, AReceive
  PROVE  /\ Turned(A) /\ UNCHANGED <<queue, seen>>
         /\ send_base' = send_base + One(buffer[A].sourceId # A)
BY Programs DEF AReceive, Deserialize, Turned, TypeOK, One

LEMMA RReceives ==
  ASSUME TypeOK, RReceive
  PROVE  /\ Turned(R) /\ UNCHANGED <<send_base, seen>>
         /\ queue' \in [{R, B} -> Datagrams] /\ queue'[B] = queue[B]
         /\ queue'[R] = IF buffer[R].sourceId = R THEN queue[R] ELSE Append(queue[R], buffer[R])
<1>1. Turned(R) /\ UNCHANGED <<send_base, seen>>
  BY Programs DEF RReceive, Deserialize, Turned, TypeOK, window
<1>2. Append(queue[R], buffer[R]) \in Datagrams
  BY CountAppend, Programs DEF TypeOK
<1>3. queue' = IF buffer[R].sourceId = R THEN queue ELSE [queue EXCEPT ![R] = Append(@, buffer[R])]
  BY DEF RReceive
<1> QED
  BY <1>1, <1>2, <1>3, Programs DEF TypeOK

LEMMA BReceives ==
  ASSUME TypeOK, BReceive
  PROVE  /\ Turned(B) /\ UNCHANGED send_base
         /\ queue' \in [{R, B} -> Datagrams] /\ queue'[R] = queue[R]
         /\ queue'[B] = IF buffer[B].sourceId = B THEN queue[B]
                        ELSE Append(queue[B], [sourceId |-> B, seq_num |-> buffer[B].seq_num])
         /\ [sourceId |-> B, seq_num |-> buffer[B].seq_num] \in Datagram
         /\ seen' = IF buffer[B].sourceId = B THEN seen ELSE Append(seen, buffer[B].seq_num)
         /\ buffer[B].seq_num \in 0..TotalPackets
<1>1. Turned(B) /\ UNCHANGED send_base
  BY Programs DEF BReceive, Deserialize, Turned, TypeOK, window
<1>2. buffer[B].seq_num \in 0..TotalPackets
  BY Programs, Marked DEF TypeOK
<1>3. [sourceId |-> B, seq_num |-> buffer[B].seq_num] \in Datagram
  BY <1>2, Programs DEF Datagram
<1>4. Append(queue[B], [sourceId |-> B, seq_num |-> buffer[B].seq_num]) \in Datagrams
  BY <1>3, CountAppend DEF TypeOK
<1>5. /\ queue' = IF buffer[B].sourceId = B THEN queue
                  ELSE [queue EXCEPT ![B] = Append(@, [sourceId |-> B, seq_num |-> buffer[B].seq_num])]
      /\ seen' = IF buffer[B].sourceId = B THEN seen ELSE Append(seen, buffer[B].seq_num)
  BY DEF BReceive
<1> QED
  BY <1>1, <1>2, <1>3, <1>4, <1>5, Programs DEF TypeOK

LEMMA TypeInv == TypeOK /\ Routed /\ [Next]_vars => TypeOK'
<1> SUFFICES ASSUME TypeOK, Routed, [Next]_vars PROVE TypeOK'
  OBVIOUS
<1>0. /\ send_base \in Nat /\ nextseqnum \in 0..TotalPackets /\ TotalPackets \in Nat
      /\ seen \in Seq(Nat) /\ lost \in 0..MaxLost /\ races \in 0..MaxRaces
      /\ A \in Program /\ R \in Program /\ B \in Program
  BY Bounds, Programs DEF TypeOK
<1>1. CASE UNCHANGED vars
  BY <1>1 DEF vars, window, TypeOK
<1>2. ASSUME NEW p \in Program, RecvFrom(p) PROVE TypeOK'
  BY <1>0, <1>2, Receives DEF TypeOK
<1>3. CASE ASerialize
  BY <1>0, <1>3, ASerializes DEF TypeOK, Handed
<1>4. CASE ASend
  <2>1. SendTo(A) /\ UNCHANGED <<buffer, receiving, queue, send_base, seen, races>>
        /\ nextseqnum' = nextseqnum + 1
    BY <1>4 DEF ASend
  <2>2. sending[A] = R
    BY <1>0, <2>1, Sends, Programs DEF Routed
  <2>3. nextseqnum' \in 0..TotalPackets
    BY <1>0, <2>1, <2>2 DEF Routed
  <2> QED
    BY <1>0, <2>1, <2>3, Sends DEF TypeOK
<1>5. CASE RSend \/ BSend
  BY <1>0, <1>5, Sends DEF TypeOK, RSend, BSend, window
<1>6. CASE AReceive
  <2>1. send_base' \in Nat
    BY <1>0, <1>6, AReceives DEF One
  <2> QED
    BY <1>0, <1>6, <2>1, AReceives DEF TypeOK, Turned
<1>7. CASE RSerialize
  BY <1>0, <1>7, RSerializes DEF TypeOK, Handed
<1>8. CASE RReceive
  BY <1>0, <1>8, RReceives DEF TypeOK, Turned
<1>9. CASE BSerialize
  BY <1>0, <1>9, BSerializes DEF TypeOK, Handed
<1>10. CASE BReceive
  <2>1. seen' \in Seq(Nat)
    <3>1. buffer[B].seq_num \in Nat
      BY <1>0, <1>10, BReceives
    <3>2. Append(seen, buffer[B].seq_num) \in Seq(Nat)
      BY <1>0, <3>1, AppendProperties
    <3>3. seen' = seen \/ seen' = Append(seen, buffer[B].seq_num)
      BY <1>10, BReceives
    <3> QED
      BY <1>0, <3>2, <3>3
  <2> QED
    BY <1>0, <1>10, <2>1, BReceives DEF TypeOK, Turned
<1> QED
  BY <1>1, <1>2, <1>3, <1>4, <1>5, <1>6, <1>7, <1>8, <1>9, <1>10
  DEF Next, SendThread, ReceiveThread

LEMMA RoutedInv == TypeOK /\ Routed /\ [Next]_vars => Routed'
<1> SUFFICES ASSUME TypeOK, Routed, [Next]_vars PROVE Routed'
  OBVIOUS
<1>0. A \in Program /\ R \in Program /\ B \in Program /\ A # R /\ A # B /\ R # B
      /\ A # Nobody /\ R # Nobody /\ B # Nobody
  BY Programs
<1>1. CASE UNCHANGED <<sending, nextseqnum, queue>>
  BY <1>1 DEF Routed
<1>2. CASE ASerialize
  BY <1>0, <1>2, ASerializes DEF Routed, Handed
<1>3. CASE ASend \/ RSend \/ BSend
  <2>1. /\ UNCHANGED queue
        /\ \A q \in Program : sending'[q] = sending[q] \/ sending'[q] = Nobody
        /\ UNCHANGED nextseqnum \/ sending'[A] = Nobody
    BY <1>0, <1>3, Sends DEF ASend, RSend, BSend, window
  <2> QED
    BY <1>0, <2>1 DEF Routed
<1>4. CASE RSerialize
  BY <1>0, <1>4, RSerializes DEF Routed, Handed
<1>5. CASE RReceive
  BY <1>0, <1>5, RReceives DEF Routed, Turned
<1>6. CASE BSerialize
  <2>1. \A i \in DOMAIN Tail(queue[B]) : Tail(queue[B])[i].sourceId = B
    <3>1. queue[B] # <<>> /\ queue[B] \in Datagrams
      BY <1>6, BSerializes
    <3>2. /\ DOMAIN queue[B] = 1..Len(queue[B]) /\ DOMAIN Tail(queue[B]) = 1..(Len(queue[B]) - 1)
          /\ \A i \in 1..(Len(queue[B]) - 1) : Tail(queue[B])[i] = queue[B][i + 1]
          /\ Len(queue[B]) \in Nat \ {0}
      BY <3>1, Removed
    <3> QED
      BY <3>2 DEF Routed
  <2> QED
    BY <1>0, <1>6, <2>1, BSerializes DEF Routed, Handed
<1>7. CASE BReceive
  <2> DEFINE d == [sourceId |-> B, seq_num |-> buffer[B].seq_num]
             q == Append(queue[B], d)
  <2>1. \A i \in DOMAIN q : q[i].sourceId = B
    <3>1. queue[B] \in Datagrams /\ d \in Datagram /\ d.sourceId = B
      BY <1>0, <1>7, BReceives DEF TypeOK
    <3> HIDE DEF d
    <3>2. /\ Len(queue[B]) \in Nat
          /\ DOMAIN queue[B] = 1..Len(queue[B]) /\ DOMAIN q = 1..(Len(queue[B]) + 1)
          /\ (\A i \in 1..Len(queue[B]) : q[i] = queue[B][i]) /\ q[Len(queue[B]) + 1] = d
      BY <3>1, Appended
    <3> HIDE DEF q
    <3> QED
      BY <3>1, <3>2 DEF Routed
  <2>2. queue'[B] = queue[B] \/ queue'[B] = q
    BY <1>7, BReceives
  <2> HIDE DEF q, d
  <2> QED
    BY <1>0, <1>7, <2>1, <2>2, BReceives DEF Routed, Turned
<1>8. ASSUME NEW p \in Program, RecvFrom(p) PROVE Routed'
  BY <1>1, <1>8, Receives
<1>9. CASE AReceive
  BY <1>1, <1>9, AReceives DEF Turned
<1> QED
  BY <1>1, <1>2, <1>3, <1>4, <1>5, <1>6, <1>7, <1>8, <1>9
  DEF Next, vars, window, SendThread, ReceiveThread

-----------------------------------------------------------------------------
(* The accounts.  First what each step does to the numbers in them.        *)
LEMMA Nats ==
  ASSUME TypeOK
  PROVE  /\ \A p \in Program : Len(socket[p]) \in Nat /\ Size(socket[p]) \in Nat /\ \A q : Of(socket[p], q) \in Nat
         /\ Len(queue[R]) \in Nat /\ Len(queue[B]) \in Nat /\ Of(queue[R], A) \in Nat
         /\ send_base \in Nat /\ nextseqnum \in Nat /\ lost \in Nat /\ races \in Nat
         /\ Len(seen) \in Nat /\ Size(seen) \in Nat
         /\ Size(queue[R]) \in Nat /\ Size(queue[B]) \in Nat
<1>1. \A s \in Datagrams : Len(s) \in Nat
  BY LenProperties DEF Datagrams
<1>2. \A s \in Datagrams : \A q : Of(s, q) \in Nat
  <2> SUFFICES ASSUME NEW s \in Datagrams, NEW q PROVE Of(s, q) \in Nat
    OBVIOUS
  <2>1. Upto(s, q, Len(s)) \in 0..Len(s) /\ Len(s) \in Nat
    BY <1>1, UptoNat
  <2> QED
    BY <2>1 DEF Of
<1>3. lost \in Nat /\ races \in Nat /\ nextseqnum \in Nat
  BY Bounds DEF TypeOK
<1>4. Len(seen) \in Nat
  BY LenProperties DEF TypeOK
<1> QED
  BY <1>1, <1>2, <1>3, <1>4, Programs DEF TypeOK, Size

LEMMA SendCounts ==
  ASSUME TypeOK, NEW p \in Program, SendTo(p)
  PROVE  \/ /\ lost' = lost
            /\ \A r \in Program : Len(socket'[r]) = Len(socket[r]) + One(r = sending[p])
            /\ \A r \in Program : \A q :
                 Of(socket'[r], q)
                   = Of(socket[r], q) + One(r = sending[p] /\ buffer[p].sourceId = q)
         \/ lost' = lost + 1 /\ socket' = socket
<1>1. CASE /\ lost' = lost
           /\ socket'[sending[p]] = Append(socket[sending[p]], buffer[p])
           /\ \A q \in Program \ {sending[p]} : socket'[q] = socket[q]
  <2>1. sending[p] \in Program /\ buffer[p] \in Datagram
    BY Sends DEF TypeOK
  <2>2. /\ Len(socket'[sending[p]]) = Len(socket[sending[p]]) + 1
        /\ \A q : Of(socket'[sending[p]], q)
                    = Of(socket[sending[p]], q) + One(buffer[p].sourceId = q)
    BY <1>1, <2>1, CountAppend DEF TypeOK
  <2>3. ASSUME NEW r \in Program
        PROVE  Len(socket'[r]) = Len(socket[r]) + One(r = sending[p])
    <3>1. Len(socket[r]) \in Nat
      BY Nats
    <3>2. CASE r = sending[p]
      BY <2>2, <3>2 DEF One
    <3>3. CASE r # sending[p]
      BY <1>1, <3>1, <3>3 DEF One
    <3> QED
      BY <3>2, <3>3
  <2>4. ASSUME NEW r \in Program, NEW q
        PROVE  Of(socket'[r], q)
                 = Of(socket[r], q) + One(r = sending[p] /\ buffer[p].sourceId = q)
    <3>1. Of(socket[r], q) \in Nat
      BY Nats
    <3>2. CASE r = sending[p]
      BY <2>2, <3>2 DEF One
    <3>3. CASE r # sending[p]
      BY <1>1, <3>1, <3>3 DEF One
    <3> QED
      BY <3>2, <3>3
  <2> QED
    BY <1>1, <2>3, <2>4
<1> QED
  BY <1>1, Sends

LEMMA ReceiveCounts ==
  ASSUME TypeOK, NEW p \in Program, RecvFrom(p)
  PROVE  /\ \A r \in Program : Len(socket[r]) = Len(socket'[r]) + One(r = p)
         /\ \A r \in Program : \A q :
              Of(socket[r], q) = Of(socket'[r], q) + One(r = p /\ buffer'[p].sourceId = q)
<1>1. /\ socket[p] \in Datagrams /\ socket[p] # <<>> /\ socket'[p] = Tail(socket[p])
      /\ buffer'[p] = Head(socket[p])
      /\ \A r \in Program \ {p} : socket'[r] = socket[r]
  BY Receives DEF TypeOK
<1>2. /\ Len(socket[p]) = Len(socket'[p]) + 1
      /\ \A q : Of(socket[p], q) = Of(socket'[p], q) + One(buffer'[p].sourceId = q)
  <2>1. Len(socket[p]) \in Nat /\ Len(Tail(socket[p])) = Len(socket[p]) - 1
    BY <1>1, CountTail
  <2>2. \A q : Of(Tail(socket[p]), q) + One(Head(socket[p]).sourceId = q) = Of(socket[p], q)
    BY <1>1, CountTail
  <2> QED
    BY <1>1, <2>1, <2>2
<1>3. ASSUME NEW r \in Program PROVE Len(socket[r]) = Len(socket'[r]) + One(r = p)
  <2>1. Len(socket[r]) \in Nat
    BY Nats
  <2>2. CASE r = p
    BY <1>2, <2>2 DEF One
  <2>3. CASE r # p
    BY <1>1, <2>1, <2>3 DEF One
  <2> QED
    BY <2>2, <2>3
<1>4. ASSUME NEW r \in Program, NEW q
      PROVE  Of(socket[r], q) = Of(socket'[r], q) + One(r = p /\ buffer'[p].sourceId = q)
  <2>1. Of(socket[r], q) \in Nat
    BY Nats
  <2> QED
    BY <1>1, <1>2, <2>1 DEF One
<1> QED
  BY <1>3, <1>4

LEMMA QueueCounts ==
  ASSUME TypeOK
  PROVE  /\ RSerialize => /\ Size(queue[R]) = Size(queue'[R]) + 1
                          /\ Of(queue[R], A) = Of(queue'[R], A) + One(sending'[R] = B)
                          /\ sending'[R] \in {A, B}
         /\ BSerialize => Size(queue[B]) = Size(queue'[B]) + 1
         /\ RReceive => /\ Size(queue'[R]) = Size(queue[R]) + One(buffer[R].sourceId # R)
                        /\ Of(queue'[R], A) = Of(queue[R], A) + One(buffer[R].sourceId = A)
         /\ BReceive => /\ Size(queue'[B]) = Size(queue[B]) + One(buffer[B].sourceId # B)
                        /\ Size(seen') = Size(seen) + One(buffer[B].sourceId # B)
<1> USE Programs
<1>1. ASSUME RSerialize
      PROVE  /\ Len(queue[R]) = Len(queue'[R]) + 1
             /\ Of(queue[R], A) = Of(queue'[R], A) + One(sending'[R] = B)
             /\ sending'[R] \in {A, B}
  <2>1. /\ queue[R] # <<>> /\ queue[R] \in Datagrams /\ queue'[R] = Tail(queue[R])
        /\ sending'[R] = IF Head(queue[R]).sourceId = A THEN B ELSE A
    BY <1>1, RSerializes DEF Handed
  <2>2. Len(queue[R]) \in Nat /\ Len(Tail(queue[R])) = Len(queue[R]) - 1
    BY <2>1, CountTail
  <2>3. Of(Tail(queue[R]), A) + One(Head(queue[R]).sourceId = A) = Of(queue[R], A)
    BY <2>1, CountTail
  <2> QED
    BY <2>1, <2>2, <2>3 DEF One
<1>2. ASSUME BSerialize PROVE Len(queue[B]) = Len(queue'[B]) + 1
  <2>1. queue[B] # <<>> /\ queue[B] \in Datagrams /\ queue'[B] = Tail(queue[B])
    BY <1>2, BSerializes
  <2>2. Len(queue[B]) \in Nat /\ Len(Tail(queue[B])) = Len(queue[B]) - 1
    BY <2>1, CountTail
  <2> QED
    BY <2>1, <2>2
<1>3. ASSUME RReceive
      PROVE  /\ Len(queue'[R]) = Len(queue[R]) + One(buffer[R].sourceId # R)
             /\ Of(queue'[R], A) = Of(queue[R], A) + One(buffer[R].sourceId = A)
  <2>1. queue[R] \in Datagrams /\ buffer[R] \in Datagram
    BY DEF TypeOK
  <2>2. /\ Len(Append(queue[R], buffer[R])) = Len(queue[R]) + 1
        /\ Of(Append(queue[R], buffer[R]), A) = Of(queue[R], A) + One(buffer[R].sourceId = A)
    BY <2>1, CountAppend
  <2>3. queue'[R] = IF buffer[R].sourceId = R THEN queue[R] ELSE Append(queue[R], buffer[R])
    BY <1>3, RReceives
  <2>4. Len(queue[R]) \in Nat /\ Of(queue[R], A) \in Nat /\ A # R
    BY Nats
  <2>5. CASE buffer[R].sourceId = R
    BY <2>3, <2>4, <2>5 DEF One
  <2>6. CASE buffer[R].sourceId # R
    BY <2>2, <2>3, <2>6 DEF One
  <2> QED
    BY <2>5, <2>6
<1>4. ASSUME BReceive
      PROVE  /\ Len(queue'[B]) = Len(queue[B]) + One(buffer[B].sourceId # B)
             /\ Len(seen') = Len(seen) + One(buffer[B].sourceId # B)
  <2> DEFINE d == [sourceId |-> B, seq_num |-> buffer[B].seq_num]
  <2>1. /\ queue[B] \in Datagrams /\ d \in Datagram
        /\ queue'[B] = IF buffer[B].sourceId = B THEN queue[B] ELSE Append(queue[B], d)
        /\ seen \in Seq(Nat) /\ buffer[B].seq_num \in Nat
        /\ seen' = IF buffer[B].sourceId = B THEN seen ELSE Append(seen, buffer[B].seq_num)
    BY <1>4, BReceives, Bounds DEF TypeOK
  <2> HIDE DEF d
  <2>2. Len(Append(queue[B], d)) = Len(queue[B]) + 1
    BY <2>1, CountAppend
  <2>3. Len(Append(seen, buffer[B].seq_num)) = Len(seen) + 1
    BY <2>1, AppendProperties
  <2>4. Len(queue[B]) \in Nat /\ Len(seen) \in Nat
    BY Nats
  <2>5. CASE buffer[B].sourceId = B
    BY <2>1, <2>4, <2>5 DEF One
  <2>6. CASE buffer[B].sourceId # B
    BY <2>1, <2>2, <2>3, <2>6 DEF One
  <2> QED
    BY <2>5, <2>6
<1> QED
  BY <1>1, <1>2, <1>3, <1>4 DEF Size

ShareBounds ==
  /\ \A p : In(p) \in {0, 1} /\ Out(p) \in {0, 1}
  /\ \A p, q : InFrom(p, q) \in 0..In(p) /\ OutFrom(p, q) \in 0..Out(p)
  /\ To(A) + To(B) \in 0..Out(R) /\ To(A) \in {0, 1} /\ To(B) \in {0, 1} /\ ROwn \in 0..Out(R)

LEMMA Shares == ShareBounds /\ ShareBounds'
<1>1. \A b : One(b) \in {0, 1}
  BY DEF One
<1>2. \A p, q : /\ InFrom(p, q) \in 0..In(p) /\ OutFrom(p, q) \in 0..Out(p)
                /\ InFrom(p, q)' \in 0..In(p)' /\ OutFrom(p, q)' \in 0..Out(p)'
  BY DEF One, InFrom, In, OutFrom, Out
<1>3. To(A) + To(B) \in 0..Out(R) /\ To(A)' + To(B)' \in 0..Out(R)'
  BY Programs DEF One, To, Out
<1>4. ROwn \in 0..Out(R) /\ ROwn' \in 0..Out(R)'
  BY DEF One, ROwn, Out
<1>5. /\ \A p : In(p) \in {0, 1} /\ Out(p) \in {0, 1} /\ In(p)' \in {0, 1} /\ Out(p)' \in {0, 1}
      /\ To(A) \in {0, 1} /\ To(B) \in {0, 1} /\ To(A)' \in {0, 1} /\ To(B)' \in {0, 1}
  BY <1>1 DEF In, Out, To
<1> QED
  BY <1>2, <1>3, <1>4, <1>5 DEF ShareBounds

(* A program that is not concerned keeps its shares.                       *)
Idle(r) == /\ In(r)' = In(r) /\ Out(r)' = Out(r)
           /\ \A q : InFrom(r, q)' = InFrom(r, q) /\ OutFrom(r, q)' = OutFrom(r, q)
           /\ r = R => To(A)' = To(A) /\ To(B)' = To(B) /\ ROwn' = ROwn

LEMMA Idles ==
  ASSUME NEW r, receiving'[r] = receiving[r], sending'[r] = sending[r], buffer'[r] = buffer[r]
  PROVE  Idle(r)
BY DEF Idle, In, Out, InFrom, OutFrom, To, ROwn

LEMMA RecvShares ==
  ASSUME TypeOK, NEW p \in Program, RecvFrom(p)
  PROVE  /\ \A r \in Program \ {p} : Idle(r) /\ socket'[r] = socket[r]
         /\ In(p) = 0 /\ In(p)' = 1 /\ Size(socket[p]) = Size(socket'[p]) + 1
         /\ \A q : InFrom(p, q) = 0 /\ Of(socket[p], q) = Of(socket'[p], q) + InFrom(p, q)'
         /\ Out(p)' = Out(p) /\ (p = R => To(A)' = To(A) /\ To(B)' = To(B))
         /\ races' = races + Out(p)
         /\ UNCHANGED <<queue, send_base, nextseqnum, seen, lost>>
<1>1. \A r \in Program \ {p} : Idle(r) /\ socket'[r] = socket[r]
  BY Idles, Receives
<1>2. In(p) = 0 /\ In(p)' = 1 /\ \A q : InFrom(p, q) = 0
  BY Receives DEF In, InFrom, One
<1>3. \A q : InFrom(p, q)' = One(buffer'[p].sourceId = q)
  BY Receives DEF InFrom, One
<1>4. \A q : Of(socket[p], q) = Of(socket'[p], q) + InFrom(p, q)'
  <2> SUFFICES ASSUME NEW q PROVE Of(socket[p], q) = Of(socket'[p], q) + InFrom(p, q)'
    OBVIOUS
  <2>1. Of(socket[p], q) = Of(socket'[p], q) + One(p = p /\ buffer'[p].sourceId = q)
    BY ReceiveCounts
  <2> QED
    BY <1>3, <2>1 DEF One
<1>5. Size(socket[p]) = Size(socket'[p]) + 1
  BY ReceiveCounts DEF One, Size
<1>6. /\ Out(p)' = Out(p) /\ (p = R => To(A)' = To(A) /\ To(B)' = To(B))
      /\ races' = races + Out(p)
  BY Receives DEF Out, To
<1> QED
  BY <1>1, <1>2, <1>4, <1>5, <1>6, Receives

LEMMA SendShares ==
  ASSUME TypeOK, NEW p \in Program, SendTo(p), UNCHANGED <<buffer, receiving, races>>
  PROVE  /\ \A r \in Program \ {p} : Idle(r)
         /\ In(p)' = In(p) /\ Out(p) = 1 /\ Out(p)' = 0
         /\ \A q : InFrom(p, q)' = InFrom(p, q) /\ OutFrom(p, q)' = 0
         /\ p = R => /\ To(A)' = 0 /\ To(B)' = 0 /\ ROwn' = 0
                     /\ ROwn = OutFrom(R, sending[R]) /\ \A q : To(q) = One(sending[R] = q)
         /\ \/ /\ lost' = lost
               /\ \A r \in Program \ {sending[p]} : socket'[r] = socket[r]
               /\ Size(socket'[sending[p]]) = Size(socket[sending[p]]) + 1
               /\ \A q : Of(socket'[sending[p]], q) = Of(socket[sending[p]], q) + OutFrom(p, q)
            \/ lost' = lost + 1 /\ socket' = socket
<1>1. \A r \in Program \ {p} : Idle(r)
  BY Idles, Sends
<1>2. /\ In(p)' = In(p) /\ Out(p) = 1 /\ Out(p)' = 0
      /\ \A q : InFrom(p, q)' = InFrom(p, q) /\ OutFrom(p, q)' = 0
  BY Programs, Sends DEF In, Out, InFrom, OutFrom, One
<1>3. \A q : OutFrom(p, q) = One(buffer[p].sourceId = q)
  BY Programs, Sends DEF OutFrom, One
<1>4. ASSUME p = R
      PROVE  /\ To(A)' = 0 /\ To(B)' = 0 /\ ROwn' = 0
             /\ ROwn = OutFrom(R, sending[R]) /\ \A q : To(q) = One(sending[R] = q)
  BY <1>4, Programs, Sends DEF To, ROwn, OutFrom, One
<1>5. CASE lost' = lost + 1 /\ socket' = socket
  BY <1>1, <1>2, <1>4, <1>5
<1>6. CASE /\ lost' = lost
           /\ \A r \in Program : Len(socket'[r]) = Len(socket[r]) + One(r = sending[p])
           /\ \A r \in Program : \A q :
                Of(socket'[r], q)
                  = Of(socket[r], q) + One(r = sending[p] /\ buffer[p].sourceId = q)
  <2>1. sending[p] \in Program
    BY Sends
  <2>2. \A r \in Program \ {sending[p]} : socket'[r] = socket[r]
    BY <1>6, Nats, Sends
  <2>3. Size(socket'[sending[p]]) = Size(socket[sending[p]]) + 1
    BY <1>6, <2>1 DEF One, Size
  <2>4. \A q : Of(socket'[sending[p]], q) = Of(socket[sending[p]], q) + OutFrom(p, q)
    <3> SUFFICES ASSUME NEW q
                 PROVE  Of(socket'[sending[p]], q) = Of(socket[sending[p]], q) + OutFrom(p, q)
      OBVIOUS
    <3>1. Of(socket'[sending[p]], q) = Of(socket[sending[p]], q)
            + One(sending[p] = sending[p] /\ buffer[p].sourceId = q)
      BY <1>6, <2>1
    <3> QED
      BY <1>3, <3>1 DEF One
  <2> QED
    BY <1>1, <1>2, <1>4, <1>6, <2>2, <2>3, <2>4
<1> QED
  BY <1>5, <1>6, SendCounts

LEMMA HandShares ==
  ASSUME TypeOK, NEW p \in Program, NEW to \in Program, Handed(p, to), UNCHANGED receiving,
         buffer'[p].sourceId = p
  PROVE  /\ \A r \in Program \ {p} : Idle(r)
         /\ In(p)' = In(p) /\ Out(p) = 0 /\ Out(p)' = 1 /\ races' = races + In(p)
         /\ \A q : OutFrom(p, q) = 0
         /\ \A q \in Program \ {p} : InFrom(p, q)' = 0 /\ OutFrom(p, q)' = 0
         /\ p = R => /\ To(A) = 0 /\ To(B) = 0 /\ ROwn = 0
                     /\ \A q : To(q)' = One(to = q)
                     /\ to # R => ROwn' = 0
<1>1. \A r \in Program \ {p} : Idle(r)
  BY Idles DEF Handed
<1>2. In(p)' = In(p) /\ Out(p) = 0 /\ Out(p)' = 1 /\ races' = races + In(p)
  BY Programs DEF In, Out, One, Handed
<1>3. \A q : OutFrom(p, q) = 0
  BY DEF OutFrom, One, Handed
<1>4. \A q \in Program \ {p} : InFrom(p, q)' = 0 /\ OutFrom(p, q)' = 0
  BY DEF InFrom, OutFrom, One
<1>5. ASSUME p = R
      PROVE  /\ To(A) = 0 /\ To(B) = 0 /\ ROwn = 0
             /\ \A q : To(q)' = One(to = q)
             /\ to # R => ROwn' = 0
  BY <1>5, Programs DEF To, ROwn, One, Handed
<1> QED
  BY <1>1, <1>2, <1>3, <1>4, <1>5

LEMMA TurnShares ==
  ASSUME TypeOK, NEW p \in Program, Turned(p)
  PROVE  /\ \A r \in Program \ {p} : Idle(r)
         /\ In(p) = 1 /\ In(p)' = 0 /\ Out(p)' = Out(p)
         /\ \A q : /\ InFrom(p, q) = One(buffer[p].sourceId = q) /\ InFrom(p, q)' = 0
                   /\ OutFrom(p, q)' = OutFrom(p, q)
         /\ In(p) - InFrom(p, p) = One(buffer[p].sourceId # p)
         /\ To(A)' = To(A) /\ To(B)' = To(B) /\ ROwn' = ROwn
         /\ UNCHANGED <<socket, nextseqnum, lost, races>>
<1>1. \A r \in Program \ {p} : Idle(r)
  BY Idles DEF Turned
<1>2. receiving[p] = TRUE /\ receiving'[p] = FALSE
  BY DEF Turned, TypeOK
<1>3. In(p) = 1 /\ In(p)' = 0 /\ Out(p)' = Out(p)
  BY <1>2 DEF In, Out, One, Turned
<1>4. \A q : /\ InFrom(p, q) = One(buffer[p].sourceId = q) /\ InFrom(p, q)' = 0
             /\ OutFrom(p, q)' = OutFrom(p, q)
  BY <1>2 DEF InFrom, OutFrom, One, Turned
<1>5. In(p) - InFrom(p, p) = One(buffer[p].sourceId # p)
  BY <1>2 DEF In, InFrom, One
<1> QED
  BY <1>1, <1>3, <1>4, <1>5 DEF Turned, To, ROwn

(* What an idle program's shares are, one by one.                          *)
LEMMA Unconcerned ==
  /\ Idle(A) => /\ In(A)' = In(A) /\ Out(A)' = Out(A) /\ InFrom(A, A)' = InFrom(A, A)
                /\ OutFrom(A, R)' = OutFrom(A, R) /\ OutFrom(A, B)' = OutFrom(A, B)
  /\ Idle(R) => /\ In(R)' = In(R) /\ Out(R)' = Out(R) /\ InFrom(R, R)' = InFrom(R, R)
                /\ InFrom(R, A)' = InFrom(R, A) /\ InFrom(R, B)' = InFrom(R, B)
                /\ To(A)' = To(A) /\ To(B)' = To(B) /\ ROwn' = ROwn
  /\ Idle(B) => /\ In(B)' = In(B) /\ Out(B)' = Out(B) /\ InFrom(B, B)' = InFrom(B, B)
                /\ OutFrom(B, R)' = OutFrom(B, R) /\ OutFrom(B, A)' = OutFrom(B, A)
BY DEF Idle

Numbers ==
  /\ Size(socket[A]) \in Nat /\ Size(socket[R]) \in Nat /\ Size(socket[B]) \in Nat
  /\ Of(socket[A], A) \in Nat /\ Of(socket[R], R) \in Nat /\ Of(socket[B], B) \in Nat
  /\ Of(socket[R], A) \in Nat /\ Of(socket[R], B) \in Nat
  /\ Size(queue[R]) \in Nat /\ Size(queue[B]) \in Nat /\ Of(queue[R], A) \in Nat
  /\ send_base \in Nat /\ nextseqnum \in Nat /\ lost \in Nat /\ races \in Nat
  /\ Size(seen) \in Nat
  /\ In(A) \in Nat /\ In(R) \in Nat /\ In(B) \in Nat
  /\ Out(A) \in Nat /\ Out(R) \in Nat /\ Out(B) \in Nat
  /\ InFrom(A, A) \in 0..In(A) /\ InFrom(R, R) \in 0..In(R) /\ InFrom(B, B) \in 0..In(B)
  /\ InFrom(R, A) \in 0..In(R) /\ InFrom(R, B) \in 0..In(R)
  /\ OutFrom(A, R) \in 0..Out(A) /\ OutFrom(A, B) \in 0..Out(A)
  /\ OutFrom(B, R) \in 0..Out(B) /\ OutFrom(B, A) \in 0..Out(B)
  /\ To(A) \in Nat /\ To(B) \in Nat /\ To(A) + To(B) \in 0..Out(R) /\ ROwn \in 0..Out(R)

LEMMA AllNumbers == TypeOK => Numbers
<1> SUFFICES ASSUME TypeOK PROVE Numbers
  OBVIOUS
<1>1. /\ Size(socket[A]) \in Nat /\ Size(socket[R]) \in Nat /\ Size(socket[B]) \in Nat
      /\ Of(socket[A], A) \in Nat /\ Of(socket[R], R) \in Nat /\ Of(socket[B], B) \in Nat
      /\ Of(socket[R], A) \in Nat /\ Of(socket[R], B) \in Nat
      /\ Size(queue[R]) \in Nat /\ Size(queue[B]) \in Nat /\ Of(queue[R], A) \in Nat
      /\ send_base \in Nat /\ nextseqnum \in Nat /\ lost \in Nat /\ races \in Nat
      /\ Size(seen) \in Nat
  BY Programs, Nats
<1>2. /\ In(A) \in Nat /\ In(R) \in Nat /\ In(B) \in Nat
      /\ Out(A) \in Nat /\ Out(R) \in Nat /\ Out(B) \in Nat
      /\ InFrom(A, A) \in 0..In(A) /\ InFrom(R, R) \in 0..In(R) /\ InFrom(B, B) \in 0..In(B)
      /\ InFrom(R, A) \in 0..In(R) /\ InFrom(R, B) \in 0..In(R)
      /\ OutFrom(A, R) \in 0..Out(A) /\ OutFrom(A, B) \in 0..Out(A)
      /\ OutFrom(B, R) \in 0..Out(B) /\ OutFrom(B, A) \in 0..Out(B)
      /\ To(A) \in Nat /\ To(B) \in Nat /\ To(A) + To(B) \in 0..Out(R) /\ ROwn \in 0..Out(R)
  BY Shares DEF ShareBounds
<1> QED
  BY <1>1, <1>2 DEF Numbers

LEMMA AllNumbersNext == TypeOK' => Numbers'
BY AllNumbers, PTL

LEMMA CountsInv == TypeOK /\ Routed /\ Counts /\ [Next]_vars => Counts'
<1> SUFFICES ASSUME TypeOK, Routed, Counts, [Next]_vars PROVE Counts'
  OBVIOUS
<1> USE DEF Counts
<1>0. /\ A \in Program /\ R \in Program /\ B \in Program /\ A # R /\ A # B /\ R # B
      /\ A # Nobody /\ R # Nobody /\ B # Nobody
  BY Programs
<1>1. Numbers /\ Numbers'
  BY TypeInv, AllNumbers, AllNumbersNext
<1>4. CASE RecvFrom(A)
  <2>1. /\ In(R)' = In(R) /\ Out(R)' = Out(R) /\ InFrom(R, R)' = InFrom(R, R)
        /\ InFrom(R, A)' = InFrom(R, A) /\ InFrom(R, B)' = InFrom(R, B)
        /\ To(A)' = To(A) /\ To(B)' = To(B) /\ ROwn' = ROwn
        /\ In(B)' = In(B) /\ Out(B)' = Out(B) /\ InFrom(B, B)' = InFrom(B, B)
        /\ OutFrom(B, R)' = OutFrom(B, R) /\ OutFrom(B, A)' = OutFrom(B, A)
        /\ socket'[R] = socket[R] /\ socket'[B] = socket[B]
        /\ In(A) = 0 /\ In(A)' = 1 /\ Size(socket[A]) = Size(socket'[A]) + 1
        /\ InFrom(A, A) = 0 /\ Of(socket[A], A) = Of(socket'[A], A) + InFrom(A, A)'
        /\ Out(A)' = Out(A) /\ races' = races + Out(A)
        /\ UNCHANGED <<queue, send_base, nextseqnum, seen, lost>>
    BY <1>0, <1>4, RecvShares, Unconcerned
  <2>2. Balance'
    BY <1>1, <2>1 DEF Numbers, Balance, OnTheWay, Doomed
  <2>3. Onward'
    BY <1>1, <2>1 DEF Numbers, Onward, ToSee
  <2>4. Back'
    BY <1>1, <2>1 DEF Numbers, Back, ToCount
  <2> QED
    BY <2>2, <2>3, <2>4
<1>5. CASE RecvFrom(R)
  <2>1. /\ In(A)' = In(A) /\ Out(A)' = Out(A) /\ InFrom(A, A)' = InFrom(A, A)
        /\ OutFrom(A, R)' = OutFrom(A, R) /\ OutFrom(A, B)' = OutFrom(A, B)
        /\ In(B)' = In(B) /\ Out(B)' = Out(B) /\ InFrom(B, B)' = InFrom(B, B)
        /\ OutFrom(B, R)' = OutFrom(B, R) /\ OutFrom(B, A)' = OutFrom(B, A)
        /\ socket'[A] = socket[A] /\ socket'[B] = socket[B]
        /\ In(R) = 0 /\ In(R)' = 1 /\ Size(socket[R]) = Size(socket'[R]) + 1
        /\ InFrom(R, A) = 0 /\ Of(socket[R], A) = Of(socket'[R], A) + InFrom(R, A)'
        /\ InFrom(R, B) = 0 /\ Of(socket[R], B) = Of(socket'[R], B) + InFrom(R, B)'
        /\ InFrom(R, R) = 0 /\ Of(socket[R], R) = Of(socket'[R], R) + InFrom(R, R)'
        /\ Out(R)' = Out(R) /\ races' = races + Out(R)
        /\ To(A)' = To(A) /\ To(B)' = To(B)
        /\ UNCHANGED <<queue, send_base, nextseqnum, seen, lost>>
    BY <1>0, <1>5, RecvShares, Unconcerned
  <2>2. Balance'
    BY <1>1, <2>1 DEF Numbers, Balance, OnTheWay, Doomed
  <2>3. Onward'
    BY <1>1, <2>1 DEF Numbers, Onward, ToSee
  <2>4. Back'
    BY <1>1, <2>1 DEF Numbers, Back, ToCount
  <2> QED
    BY <2>2, <2>3, <2>4
<1>6. CASE RecvFrom(B)
  <2>1. /\ In(A)' = In(A) /\ Out(A)' = Out(A) /\ InFrom(A, A)' = InFrom(A, A)
        /\ OutFrom(A, R)' = OutFrom(A, R) /\ OutFrom(A, B)' = OutFrom(A, B)
        /\ In(R)' = In(R) /\ Out(R)' = Out(R) /\ InFrom(R, R)' = InFrom(R, R)
        /\ InFrom(R, A)' = InFrom(R, A) /\ InFrom(R, B)' = InFrom(R, B)
        /\ To(A)' = To(A) /\ To(B)' = To(B) /\ ROwn' = ROwn
        /\ socket'[A] = socket[A] /\ socket'[R] = socket[R]
        /\ In(B) = 0 /\ In(B)' = 1 /\ Size(socket[B]) = Size(socket'[B]) + 1
        /\ InFrom(B, B) = 0 /\ Of(socket[B], B) = Of(socket'[B], B) + InFrom(B, B)'
        /\ Out(B)' = Out(B) /\ races' = races + Out(B)
        /\ UNCHANGED <<queue, send_base, nextseqnum, seen, lost>>
    BY <1>0, <1>6, RecvShares, Unconcerned
  <2>2. Balance'
    BY <1>1, <2>1 DEF Numbers, Balance, OnTheWay, Doomed
  <2>3. Onward'
    BY <1>1, <2>1 DEF Numbers, Onward, ToSee
  <2>4. Back'
    BY <1>1, <2>1 DEF Numbers, Back, ToCount
  <2> QED
    BY <2>2, <2>3, <2>4
<1>7. CASE ASerialize
  <2>1. Handed(A, R) /\ buffer'[A].sourceId = A
    BY <1>7, ASerializes
  <2>2. UNCHANGED <<socket, receiving, queue, send_base, nextseqnum, seen, lost>>
    BY <1>7, ASerializes
  <2>4. /\ In(R)' = In(R) /\ Out(R)' = Out(R) /\ InFrom(R, R)' = InFrom(R, R)
        /\ InFrom(R, A)' = InFrom(R, A) /\ InFrom(R, B)' = InFrom(R, B)
        /\ To(A)' = To(A) /\ To(B)' = To(B) /\ ROwn' = ROwn
        /\ In(B)' = In(B) /\ Out(B)' = Out(B) /\ InFrom(B, B)' = InFrom(B, B)
        /\ OutFrom(B, R)' = OutFrom(B, R) /\ OutFrom(B, A)' = OutFrom(B, A)
        /\ In(A)' = In(A) /\ Out(A) = 0 /\ Out(A)' = 1 /\ races' = races + In(A)
        /\ OutFrom(A, R) = 0 /\ OutFrom(A, B) = 0 /\ OutFrom(A, R)' = 0 /\ OutFrom(A, B)' = 0
        /\ UNCHANGED <<socket, queue, send_base, nextseqnum, seen, lost>>
    BY <1>0, <2>1, <2>2, HandShares, Unconcerned
  <2>5. Balance'
    BY <1>1, <2>4 DEF Numbers, Balance, OnTheWay, Doomed
  <2>6. Onward'
    BY <1>1, <2>4 DEF Numbers, Onward, ToSee
  <2>7. Back'
    BY <1>1, <2>4 DEF Numbers, Back, ToCount
  <2> QED
    BY <2>5, <2>6, <2>7
<1>8. CASE RSerialize
  <2>1. /\ sending'[R] \in {A, B} /\ Handed(R, sending'[R]) /\ buffer'[R].sourceId = R
        /\ queue'[B] = queue[B]
        /\ UNCHANGED <<socket, receiving, send_base, nextseqnum, seen, lost>>
    BY <1>8, RSerializes, QueueCounts DEF Handed
  <2>2. /\ Size(queue[R]) = Size(queue'[R]) + 1
        /\ Of(queue[R], A) = Of(queue'[R], A) + One(sending'[R] = B)
    BY <1>8, QueueCounts
  <2>3. \A q : To(q)' = One(sending'[R] = q)
    BY DEF To
  <2>4. /\ In(A)' = In(A) /\ Out(A)' = Out(A) /\ InFrom(A, A)' = InFrom(A, A)
        /\ OutFrom(A, R)' = OutFrom(A, R) /\ OutFrom(A, B)' = OutFrom(A, B)
        /\ In(B)' = In(B) /\ Out(B)' = Out(B) /\ InFrom(B, B)' = InFrom(B, B)
        /\ OutFrom(B, R)' = OutFrom(B, R) /\ OutFrom(B, A)' = OutFrom(B, A)
        /\ In(R)' = In(R) /\ Out(R) = 0 /\ Out(R)' = 1 /\ races' = races + In(R)
        /\ InFrom(R, A)' = 0 /\ InFrom(R, B)' = 0 /\ ROwn = 0 /\ ROwn' = 0
        /\ To(A) = 0 /\ To(B) = 0 /\ To(A)' + To(B)' = 1
        /\ Size(queue[R]) = Size(queue'[R]) + 1 /\ Of(queue[R], A) = Of(queue'[R], A) + To(B)'
        /\ UNCHANGED <<socket, send_base, nextseqnum, seen, lost>> /\ queue'[B] = queue[B]
    BY <1>0, <2>1, <2>2, <2>3, HandShares, Unconcerned DEF One
  <2>5. Balance'
    BY <1>1, <2>4 DEF Numbers, Balance, OnTheWay, Doomed
  <2>6. Onward'
    BY <1>1, <2>4 DEF Numbers, Onward, ToSee
  <2>7. Back'
    BY <1>1, <2>4 DEF Numbers, Back, ToCount
  <2> QED
    BY <2>5, <2>6, <2>7
<1>9. CASE BSerialize
  <2>1. /\ queue[B] # <<>> /\ queue[B] \in Datagrams
        /\ Handed(B, R) /\ buffer'[B] = Head(queue[B]) /\ queue'[R] = queue[R]
        /\ UNCHANGED <<socket, receiving, send_base, nextseqnum, seen, lost>>
    BY <1>9, BSerializes
  <2>2. buffer'[B].sourceId = B
    <3>1. Head(queue[B]) = queue[B][1] /\ 1 \in DOMAIN queue[B]
      BY <2>1, CountTail
    <3> QED
      BY <2>1, <3>1 DEF Routed
  <2>3. Size(queue[B]) = Size(queue'[B]) + 1
    BY <1>9, QueueCounts
  <2>4. /\ In(A)' = In(A) /\ Out(A)' = Out(A) /\ InFrom(A, A)' = InFrom(A, A)
        /\ OutFrom(A, R)' = OutFrom(A, R) /\ OutFrom(A, B)' = OutFrom(A, B)
        /\ In(R)' = In(R) /\ Out(R)' = Out(R) /\ InFrom(R, R)' = InFrom(R, R)
        /\ InFrom(R, A)' = InFrom(R, A) /\ InFrom(R, B)' = InFrom(R, B)
        /\ To(A)' = To(A) /\ To(B)' = To(B) /\ ROwn' = ROwn
        /\ In(B)' = In(B) /\ Out(B) = 0 /\ Out(B)' = 1 /\ races' = races + In(B)
        /\ OutFrom(B, R) = 0 /\ OutFrom(B, A) = 0 /\ OutFrom(B, R)' = 0 /\ OutFrom(B, A)' = 0
        /\ Size(queue[B]) = Size(queue'[B]) + 1
        /\ UNCHANGED <<socket, send_base, nextseqnum, seen, lost>> /\ queue'[R] = queue[R]
    BY <1>0, <2>1, <2>2, <2>3, HandShares, Unconcerned
  <2>5. Balance'
    BY <1>1, <2>4 DEF Numbers, Balance, OnTheWay, Doomed
  <2>6. Onward'
    BY <1>1, <2>4 DEF Numbers, Onward, ToSee
  <2>7. Back'
    BY <1>1, <2>4 DEF Numbers, Back, ToCount
  <2> QED
    BY <2>5, <2>6, <2>7
<1>10. CASE ASend
  <2>1. SendTo(A) /\ sending[A] = R
    BY <1>0, <1>10, Sends, Programs DEF ASend, Routed
  <2>2. /\ In(R)' = In(R) /\ Out(R)' = Out(R) /\ InFrom(R, R)' = InFrom(R, R)
        /\ InFrom(R, A)' = InFrom(R, A) /\ InFrom(R, B)' = InFrom(R, B)
        /\ To(A)' = To(A) /\ To(B)' = To(B) /\ ROwn' = ROwn
        /\ In(B)' = In(B) /\ Out(B)' = Out(B) /\ InFrom(B, B)' = InFrom(B, B)
        /\ OutFrom(B, R)' = OutFrom(B, R) /\ OutFrom(B, A)' = OutFrom(B, A)
        /\ In(A)' = In(A) /\ Out(A) = 1 /\ Out(A)' = 0
        /\ InFrom(A, A)' = InFrom(A, A) /\ OutFrom(A, R)' = 0 /\ OutFrom(A, B)' = 0
        /\ OutFrom(A, A) \in 0..1
        /\ UNCHANGED <<queue, send_base, seen, races>> /\ nextseqnum' = nextseqnum + 1
    <3>1. OutFrom(A, A) \in 0..Out(A)
      BY Shares DEF ShareBounds
    <3> QED
      BY <1>0, <1>10, <2>1, <3>1, SendShares, Unconcerned DEF ASend, window
  <2>3. \/ /\ lost' = lost /\ socket'[A] = socket[A] /\ socket'[B] = socket[B]
           /\ Size(socket'[R]) = Size(socket[R]) + 1
           /\ Of(socket'[R], A) = Of(socket[R], A) + OutFrom(A, A)
           /\ Of(socket'[R], R) = Of(socket[R], R) + OutFrom(A, R)
           /\ Of(socket'[R], B) = Of(socket[R], B) + OutFrom(A, B)
        \/ lost' = lost + 1 /\ socket' = socket
    BY <1>0, <1>10, <2>1, SendShares DEF ASend, window
  <2>4. Balance'
    BY <1>1, <2>2, <2>3 DEF Numbers, Balance, OnTheWay, Doomed
  <2>5. Onward'
    BY <1>1, <2>2, <2>3 DEF Numbers, Onward, ToSee
  <2>6. Back'
    BY <1>1, <2>2, <2>3 DEF Numbers, Back, ToCount
  <2> QED
    BY <2>4, <2>5, <2>6
<1>11. CASE BSend
  <2>1. SendTo(B) /\ sending[B] = R
    BY <1>0, <1>11, Sends, Programs DEF BSend, Routed
  <2>2. /\ In(A)' = In(A) /\ Out(A)' = Out(A) /\ InFrom(A, A)' = InFrom(A, A)
        /\ OutFrom(A, R)' = OutFrom(A, R) /\ OutFrom(A, B)' = OutFrom(A, B)
        /\ In(R)' = In(R) /\ Out(R)' = Out(R) /\ InFrom(R, R)' = InFrom(R, R)
        /\ InFrom(R, A)' = InFrom(R, A) /\ InFrom(R, B)' = InFrom(R, B)
        /\ To(A)' = To(A) /\ To(B)' = To(B) /\ ROwn' = ROwn
        /\ In(B)' = In(B) /\ Out(B) = 1 /\ Out(B)' = 0
        /\ InFrom(B, B)' = InFrom(B, B) /\ OutFrom(B, R)' = 0 /\ OutFrom(B, A)' = 0
        /\ OutFrom(B, B) \in 0..1
        /\ UNCHANGED <<queue, send_base, seen, races>> /\ nextseqnum' = nextseqnum
    <3>1. OutFrom(B, B) \in 0..Out(B)
      BY Shares DEF ShareBounds
    <3> QED
      BY <1>0, <1>11, <2>1, <3>1, SendShares, Unconcerned DEF BSend, window
  <2>3. \/ /\ lost' = lost /\ socket'[A] = socket[A] /\ socket'[B] = socket[B]
           /\ Size(socket'[R]) = Size(socket[R]) + 1
           /\ Of(socket'[R], A) = Of(socket[R], A) + OutFrom(B, A)
           /\ Of(socket'[R], R) = Of(socket[R], R) + OutFrom(B, R)
           /\ Of(socket'[R], B) = Of(socket[R], B) + OutFrom(B, B)
        \/ lost' = lost + 1 /\ socket' = socket
    BY <1>0, <1>11, <2>1, SendShares DEF BSend, window
  <2>4. Balance'
    BY <1>1, <2>2, <2>3 DEF Numbers, Balance, OnTheWay, Doomed
  <2>5. Onward'
    BY <1>1, <2>2, <2>3 DEF Numbers, Onward, ToSee
  <2>6. Back'
    BY <1>1, <2>2, <2>3 DEF Numbers, Back, ToCount
  <2> QED
    BY <2>4, <2>5, <2>6
<1>12. CASE RSend
  <2>1. SendTo(R) /\ sending[R] \in {A, B}
    BY <1>0, <1>12, Sends, Programs DEF RSend, Routed
  <2>2. /\ In(A)' = In(A) /\ Out(A)' = Out(A) /\ InFrom(A, A)' = InFrom(A, A)
        /\ OutFrom(A, R)' = OutFrom(A, R) /\ OutFrom(A, B)' = OutFrom(A, B)
        /\ In(B)' = In(B) /\ Out(B)' = Out(B) /\ InFrom(B, B)' = InFrom(B, B)
        /\ OutFrom(B, R)' = OutFrom(B, R) /\ OutFrom(B, A)' = OutFrom(B, A)
        /\ In(R)' = In(R) /\ Out(R) = 1 /\ Out(R)' = 0
        /\ InFrom(R, R)' = InFrom(R, R) /\ InFrom(R, A)' = InFrom(R, A)
        /\ InFrom(R, B)' = InFrom(R, B)
        /\ To(A)' = 0 /\ To(B)' = 0 /\ ROwn' = 0
        /\ UNCHANGED <<queue, send_base, nextseqnum, seen, races>>
    BY <1>0, <1>12, <2>1, SendShares, Unconcerned DEF RSend, window
  <2>3. \/ lost' = lost + 1 /\ socket' = socket
        \/ /\ lost' = lost /\ socket'[R] = socket[R] /\ socket'[B] = socket[B]
           /\ Size(socket'[A]) = Size(socket[A]) + 1 /\ To(A) = 1 /\ To(B) = 0
           /\ Of(socket'[A], A) = Of(socket[A], A) + ROwn
        \/ /\ lost' = lost /\ socket'[R] = socket[R] /\ socket'[A] = socket[A]
           /\ Size(socket'[B]) = Size(socket[B]) + 1 /\ To(B) = 1 /\ To(A) = 0
           /\ Of(socket'[B], B) = Of(socket[B], B) + ROwn
    BY <1>0, <1>12, <2>1, SendShares DEF RSend, window, One
  <2>4. Balance'
    BY <1>1, <2>2, <2>3 DEF Numbers, Balance, OnTheWay, Doomed
  <2>5. Onward'
    BY <1>1, <2>2, <2>3 DEF Numbers, Onward, ToSee
  <2>6. Back'
    BY <1>1, <2>2, <2>3 DEF Numbers, Back, ToCount
  <2> QED
    BY <2>4, <2>5, <2>6
<1>13. CASE AReceive
  <2>1. /\ In(R)' = In(R) /\ Out(R)' = Out(R) /\ InFrom(R, R)' = InFrom(R, R)
        /\ InFrom(R, A)' = InFrom(R, A) /\ InFrom(R, B)' = InFrom(R, B)
        /\ To(A)' = To(A) /\ To(B)' = To(B) /\ ROwn' = ROwn
        /\ In(B)' = In(B) /\ Out(B)' = Out(B) /\ InFrom(B, B)' = InFrom(B, B)
        /\ OutFrom(B, R)' = OutFrom(B, R) /\ OutFrom(B, A)' = OutFrom(B, A)
        /\ In(A) = 1 /\ In(A)' = 0 /\ InFrom(A, A)' = 0 /\ Out(A)' = Out(A)
        /\ OutFrom(A, R)' = OutFrom(A, R) /\ OutFrom(A, B)' = OutFrom(A, B)
        /\ send_base' = send_base + (In(A) - InFrom(A, A))
        /\ UNCHANGED <<socket, queue, nextseqnum, seen, lost, races>>
    BY <1>0, <1>13, AReceives, TurnShares, Unconcerned
  <2>2. Balance'
    BY <1>1, <2>1 DEF Numbers, Balance, OnTheWay, Doomed
  <2>3. Onward'
    BY <1>1, <2>1 DEF Numbers, Onward, ToSee
  <2>4. Back'
    BY <1>1, <2>1 DEF Numbers, Back, ToCount
  <2> QED
    BY <2>2, <2>3, <2>4
<1>14. CASE RReceive
  <2>1. Turned(R) /\ UNCHANGED <<send_base, seen>> /\ queue'[B] = queue[B]
    BY <1>14, RReceives
  <2>2. /\ Size(queue'[R]) = Size(queue[R]) + One(buffer[R].sourceId # R)
        /\ Of(queue'[R], A) = Of(queue[R], A) + One(buffer[R].sourceId = A)
        /\ buffer[R].sourceId \in {A, R, B}
    BY <1>0, <1>14, QueueCounts, Marked, Programs DEF TypeOK
  <2>3. /\ In(A)' = In(A) /\ Out(A)' = Out(A) /\ InFrom(A, A)' = InFrom(A, A)
        /\ OutFrom(A, R)' = OutFrom(A, R) /\ OutFrom(A, B)' = OutFrom(A, B)
        /\ In(B)' = In(B) /\ Out(B)' = Out(B) /\ InFrom(B, B)' = InFrom(B, B)
        /\ OutFrom(B, R)' = OutFrom(B, R) /\ OutFrom(B, A)' = OutFrom(B, A)
        /\ In(R) = 1 /\ In(R)' = 0 /\ Out(R)' = Out(R)
        /\ InFrom(R, A)' = 0 /\ InFrom(R, B)' = 0 /\ InFrom(R, R)' = 0
        /\ To(A)' = To(A) /\ To(B)' = To(B) /\ ROwn' = ROwn
        /\ UNCHANGED <<socket, nextseqnum, lost, races>>
    BY <1>0, <2>1, TurnShares, Unconcerned
  <2>4. /\ InFrom(R, A) + InFrom(R, B) + InFrom(R, R) = 1
        /\ Size(queue'[R]) = Size(queue[R]) + (In(R) - InFrom(R, R))
        /\ Of(queue'[R], A) = Of(queue[R], A) + InFrom(R, A)
    <3>1. /\ InFrom(R, A) = One(buffer[R].sourceId = A)
          /\ InFrom(R, B) = One(buffer[R].sourceId = B)
          /\ InFrom(R, R) = One(buffer[R].sourceId = R)
          /\ In(R) - InFrom(R, R) = One(buffer[R].sourceId # R)
      BY <1>0, <2>1, TurnShares
    <3> QED
      BY <1>0, <2>2, <3>1 DEF One
  <2>5. Balance'
    BY <1>1, <2>1, <2>3, <2>4 DEF Numbers, Balance, OnTheWay, Doomed
  <2>6. Onward'
    BY <1>1, <2>1, <2>3, <2>4 DEF Numbers, Onward, ToSee
  <2>7. Back'
    BY <1>1, <2>1, <2>3, <2>4 DEF Numbers, Back, ToCount
  <2> QED
    BY <2>5, <2>6, <2>7
<1>15. CASE BReceive
  <2>1. Turned(B) /\ UNCHANGED send_base /\ queue'[R] = queue[R]
    BY <1>15, BReceives
  <2>2. /\ In(A)' = In(A) /\ Out(A)' = Out(A) /\ InFrom(A, A)' = InFrom(A, A)
        /\ OutFrom(A, R)' = OutFrom(A, R) /\ OutFrom(A, B)' = OutFrom(A, B)
        /\ In(R)' = In(R) /\ Out(R)' = Out(R) /\ InFrom(R, R)' = InFrom(R, R)
        /\ InFrom(R, A)' = InFrom(R, A) /\ InFrom(R, B)' = InFrom(R, B)
        /\ To(A)' = To(A) /\ To(B)' = To(B) /\ ROwn' = ROwn
        /\ In(B) = 1 /\ In(B)' = 0 /\ InFrom(B, B)' = 0 /\ Out(B)' = Out(B)
        /\ OutFrom(B, R)' = OutFrom(B, R) /\ OutFrom(B, A)' = OutFrom(B, A)
        /\ UNCHANGED <<socket, nextseqnum, lost, races>>
    BY <1>0, <2>1, TurnShares, Unconcerned
  <2>3. /\ Size(queue'[B]) = Size(queue[B]) + (In(B) - InFrom(B, B))
        /\ Size(seen') = Size(seen) + (In(B) - InFrom(B, B))
    BY <1>0, <1>15, <2>1, TurnShares, QueueCounts
  <2>4. Balance'
    BY <1>1, <2>1, <2>2, <2>3 DEF Numbers, Balance, OnTheWay, Doomed
  <2>5. Onward'
    BY <1>1, <2>1, <2>2, <2>3 DEF Numbers, Onward, ToSee
  <2>6. Back'
    BY <1>1, <2>1, <2>2, <2>3 DEF Numbers, Back, ToCount
  <2> QED
    BY <2>4, <2>5, <2>6
<1>16. CASE UNCHANGED vars
  <2>1. /\ In(A)' = In(A) /\ Out(A)' = Out(A) /\ InFrom(A, A)' = InFrom(A, A)
        /\ OutFrom(A, R)' = OutFrom(A, R) /\ OutFrom(A, B)' = OutFrom(A, B)
        /\ In(R)' = In(R) /\ Out(R)' = Out(R) /\ InFrom(R, R)' = InFrom(R, R)
        /\ InFrom(R, A)' = InFrom(R, A) /\ InFrom(R, B)' = InFrom(R, B)
        /\ To(A)' = To(A) /\ To(B)' = To(B) /\ ROwn' = ROwn
        /\ In(B)' = In(B) /\ Out(B)' = Out(B) /\ InFrom(B, B)' = InFrom(B, B)
        /\ OutFrom(B, R)' = OutFrom(B, R) /\ OutFrom(B, A)' = OutFrom(B, A)
        /\ UNCHANGED <<socket, queue, send_base, nextseqnum, seen, lost, races>>
    BY <1>16, Idles, Unconcerned DEF vars, window
  <2>2. Balance'
    BY <1>1, <2>1 DEF Numbers, Balance, OnTheWay, Doomed
  <2>3. Onward'
    BY <1>1, <2>1 DEF Numbers, Onward, ToSee
  <2>4. Back'
    BY <1>1, <2>1 DEF Numbers, Back, ToCount
  <2> QED
    BY <2>2, <2>3, <2>4
<1> QED
  BY <1>4, <1>5, <1>6, <1>7, <1>8, <1>9, <1>10, <1>11, <1>12, <1>13, <1>14, <1>15, <1>16, Programs
  DEF Next, SendThread, ReceiveThread

-----------------------------------------------------------------------------
(* Without races each buffer has one user.                                 *)
LEMMA Disjoint ==
  ASSUME TypeOK, Routed, Alone, [Next]_vars
  PROVE  Alone'
<1>0. /\ races \in Nat /\ socket \in [Program -> Datagrams] /\ buffer \in [Program -> Datagram]
      /\ A \in Program /\ R \in Program /\ B \in Program /\ A # R /\ A # B /\ R # B
      /\ Nobody \notin Program
  BY Nats, Programs DEF TypeOK
<1>1. ASSUME NEW p \in Program, RecvFrom(p) PROVE Alone'
  <2>1. (races = 0 /\ sending[p] = Nobody) \/ races' # 0
    <3>1. races' = races + One(sending[p] # Nobody)
      BY <1>1, Receives
    <3>2. CASE sending[p] = Nobody
      BY <1>0, <3>1, <3>2 DEF One
    <3>3. CASE sending[p] # Nobody
      BY <1>0, <3>1, <3>3 DEF One
    <3> QED
      BY <3>2, <3>3
  <2>2. CASE races = 0 /\ sending[p] = Nobody
    <3>1. socket[p] # <<>> /\ socket[p] \in Datagrams
      BY <1>0, <1>1, Receives
    <3>2. Head(socket[p]).sourceId # p
      <4>1. Head(socket[p]) = socket[p][1] /\ 1 \in DOMAIN socket[p]
        BY <3>1, Removed
      <4> QED
        BY <2>2, <4>1 DEF Alone, AloneAt
    <3>3. \A i \in DOMAIN Tail(socket[p]) : Tail(socket[p])[i].sourceId # p
      <4>1. \A i \in DOMAIN socket[p] : socket[p][i].sourceId # p
        BY <2>2 DEF Alone, AloneAt
      <4> QED
        BY <3>1, <4>1, Removed
    <3>4. AloneAt(p)'
      BY <1>1, <2>2, <3>2, <3>3, Receives DEF AloneAt
    <3>5. ASSUME NEW q \in Program \ {p} PROVE AloneAt(q)'
      <4>1. /\ receiving'[q] = receiving[q] /\ sending' = sending
            /\ buffer'[q] = buffer[q] /\ socket'[q] = socket[q]
        BY <1>1, Receives
      <4> QED
        BY <2>2, <4>1 DEF Alone, AloneAt
    <3> QED
      BY <3>4, <3>5 DEF Alone
  <2> QED
    BY <2>1, <2>2 DEF Alone
<1>2. ASSUME NEW p \in Program, NEW to \in Program, Handed(p, to), buffer'[p].sourceId = p,
             UNCHANGED <<socket, receiving>>
      PROVE  Alone'
  <2>1. (races = 0 /\ ~receiving[p]) \/ races' # 0
    BY <1>0, <1>2 DEF Handed, One
  <2>2. CASE races = 0 /\ ~receiving[p]
    <3>1. AloneAt(p)'
      BY <1>2, <2>2 DEF Alone, AloneAt, Handed
    <3>2. \A q \in Program \ {p} : AloneAt(q)'
      BY <1>2, <2>2 DEF Alone, AloneAt, Handed
    <3> QED
      BY <3>1, <3>2 DEF Alone
  <2> QED
    BY <2>1, <2>2 DEF Alone
<1>3. ASSUME NEW p \in Program, SendTo(p), UNCHANGED <<buffer, receiving, races>>,
             sending[p] # p
      PROVE  Alone'
  <2> SUFFICES ASSUME races = 0, NEW q \in Program PROVE AloneAt(q)'
    BY <1>3 DEF Alone
  <2>1. AloneAt(q) /\ AloneAt(p)
    BY DEF Alone
  <2>2. sending'[q] = sending[q] \/ sending'[q] = Nobody
    BY <1>3, Sends
  <2>3. \A i \in DOMAIN socket'[q] : socket'[q][i].sourceId # q
    <3>1. CASE socket'[q] = socket[q]
      BY <2>1, <3>1 DEF AloneAt
    <3>2. CASE sending[p] = q /\ socket'[q] = Append(socket[q], buffer[p])
      <4>1. buffer[p].sourceId # q
        BY <1>0, <1>3, <2>1, <3>2 DEF AloneAt
      <4>2. socket[q] \in Datagrams /\ buffer[p] \in Datagram
        BY <1>0
      <4>3. /\ Len(socket[q]) \in Nat /\ DOMAIN socket[q] = 1..Len(socket[q])
            /\ DOMAIN Append(socket[q], buffer[p]) = 1..(Len(socket[q]) + 1)
            /\ \A i \in 1..Len(socket[q]) : Append(socket[q], buffer[p])[i] = socket[q][i]
            /\ Append(socket[q], buffer[p])[Len(socket[q]) + 1] = buffer[p]
        BY <4>2, Appended
      <4>5. \A i \in DOMAIN socket[q] : socket[q][i].sourceId # q
        BY <2>1 DEF AloneAt
      <4> QED
        BY <3>2, <4>1, <4>3, <4>5
    <3> QED
      BY <1>3, <3>1, <3>2, Sends
  <2> QED
    BY <1>3, <2>1, <2>2, <2>3 DEF AloneAt
<1>4. ASSUME NEW p \in Program, Turned(p) PROVE Alone'
  <2> SUFFICES ASSUME races = 0, NEW q \in Program PROVE AloneAt(q)'
    BY <1>4 DEF Alone, Turned
  <2>1. receiving'[q] => receiving[q]
    BY <1>4 DEF Turned
  <2> QED
    BY <1>4, <2>1 DEF Alone, AloneAt, Turned
<1>5. CASE ASerialize
  <2>1. Handed(A, R) /\ buffer'[A].sourceId = A /\ UNCHANGED <<socket, receiving>>
    BY <1>5, ASerializes
  <2> QED
    BY <1>0, <1>2, <2>1
<1>6. CASE RSerialize
  <2>1. /\ \E to \in Program : Handed(R, to)
        /\ buffer'[R].sourceId = R /\ UNCHANGED <<socket, receiving>>
    BY <1>0, <1>6, RSerializes
  <2> QED
    BY <1>0, <1>2, <2>1
<1>7. CASE BSerialize
  <2>1. /\ Handed(B, R) /\ UNCHANGED <<socket, receiving>> /\ buffer'[B] = Head(queue[B])
        /\ queue[B] # <<>> /\ queue[B] \in Datagrams
    BY <1>7, BSerializes
  <2>2. buffer'[B].sourceId = B
    BY <2>1, CountTail DEF Routed
  <2> QED
    BY <1>0, <1>2, <2>1, <2>2
<1>8. CASE ASend \/ RSend \/ BSend
  BY <1>0, <1>3, <1>8 DEF ASend, RSend, BSend, Routed
<1>9. CASE AReceive \/ RReceive \/ BReceive
  BY <1>0, <1>4, <1>9, AReceives, RReceives, BReceives
<1>10. CASE UNCHANGED vars
  BY <1>10 DEF vars, window, Alone, AloneAt
<1> QED
  BY <1>1, <1>5, <1>6, <1>7, <1>8, <1>9, <1>10, Programs DEF Next, SendThread, ReceiveThread

-----------------------------------------------------------------------------
(* Without races and losses the packets keep their order.                  *)
LEMMA FollowAppend ==
  ASSUME NEW s \in Datagrams, NEW d \in Datagram, NEW p, NEW k \in Nat, Follow(s, p, k),
         d.sourceId = p => d.seq_num = k + Of(s, p)
  PROVE  Follow(Append(s, d), p, k)
<1> DEFINE t == Append(s, d)
<1>1. /\ t \in Datagrams /\ Len(s) \in Nat
      /\ DOMAIN s = 1..Len(s) /\ DOMAIN t = 1..(Len(s) + 1)
      /\ \A i \in 1..Len(s) : t[i] = s[i]
      /\ t[Len(s) + 1] = d
  BY Appended
<1>2. /\ \A n \in 0..Len(s) : Upto(t, p, n) = Upto(s, p, n)
      /\ Of(s, p) \in 0..Len(s) /\ Upto(t, p, Len(s) + 1) = Of(s, p) + One(d.sourceId = p)
  <2>1. Len(t) = Len(s) + 1 /\ Of(s, p) \in 0..Len(s)
    BY CountAppend
  <2>2. Of(t, p) = Of(s, p) + One(d.sourceId = p)
    BY CountAppend
  <2>3. \A n \in 0..Len(s) : Upto(t, p, n) = Upto(s, p, n)
    BY UptoAppend
  <2> HIDE DEF t
  <2> QED
    BY <2>1, <2>2, <2>3 DEF Of
<1> HIDE DEF t
<1>3. ASSUME NEW i \in DOMAIN t, t[i].sourceId = p PROVE t[i].seq_num = k + Upto(t, p, i) - 1
  <2>1. CASE i \in 1..Len(s)
    BY <1>1, <1>2, <1>3, <2>1 DEF Follow
  <2>2. CASE i = Len(s) + 1
    BY <1>1, <1>2, <1>3, <2>2 DEF One
  <2> QED
    BY <1>1, <2>1, <2>2
<1> QED
  BY <1>3 DEF Follow, t

LEMMA FollowTail ==
  ASSUME NEW s \in Datagrams, s # <<>>, NEW p, NEW k \in Nat, Follow(s, p, k)
  PROVE  /\ Head(s).sourceId = p => Head(s).seq_num = k
         /\ Follow(Tail(s), p, k + One(Head(s).sourceId = p))
<1> DEFINE t == Tail(s)
           b == One(Head(s).sourceId = p)
<1>1. /\ t \in Datagrams /\ Len(s) \in Nat \ {0}
      /\ Head(s) = s[1] /\ 1 \in DOMAIN s
      /\ DOMAIN s = 1..Len(s) /\ DOMAIN t = 1..(Len(s) - 1)
      /\ \A i \in 1..(Len(s) - 1) : t[i] = s[i + 1]
  BY Removed
<1>2. b \in {0, 1}
  BY DEF One
<1>3. ASSUME NEW n \in 0..(Len(s) - 1) PROVE Upto(t, p, n) + b = Upto(s, p, n + 1)
  BY UptoTail
<1>4. ASSUME NEW n \in Nat PROVE Upto(t, p, n) \in Nat
  <2>1. Upto(t, p, n) \in 0..n
    BY UptoNat
  <2> QED
    BY <2>1
<1>5. Head(s).sourceId = p => Head(s).seq_num = k
  <2>1. Upto(t, p, 0) + b = Upto(s, p, 1)
    BY <1>1, <1>3
  <2>2. Upto(t, p, 0) = 0
    <3>1. Upto(t, p, 0) \in 0..0
      BY UptoNat
    <3> QED
      BY <3>1
  <2>3. ASSUME Head(s).sourceId = p PROVE b = 1
    BY <2>3 DEF One
  <2> HIDE DEF b
  <2> QED
    BY <1>1, <2>1, <2>2, <2>3 DEF Follow
<1> HIDE DEF t, b
<1>6. ASSUME NEW i \in DOMAIN t, t[i].sourceId = p PROVE t[i].seq_num = (k + b) + Upto(t, p, i) - 1
  <2>1. i \in Nat /\ i + 1 \in DOMAIN s /\ t[i] = s[i + 1] /\ Upto(t, p, i) + b = Upto(s, p, i + 1)
    BY <1>1, <1>3
  <2>2. s[i + 1].seq_num = k + Upto(s, p, i + 1) - 1
    BY <1>6, <2>1 DEF Follow
  <2>3. Upto(t, p, i) \in Nat /\ b \in Nat
    BY <1>2, <1>4, <2>1
  <2> QED
    BY <2>1, <2>2, <2>3
<1> QED
  BY <1>5, <1>6 DEF Follow, t, b

LEMMA NumberedAppend ==
  ASSUME NEW s \in Datagrams, NEW d \in Datagram, NEW k \in Nat, Numbered(s, k),
         d.seq_num = k + Size(s)
  PROVE  Numbered(Append(s, d), k)
<1>1. /\ Len(s) \in Nat
      /\ DOMAIN s = 1..Len(s) /\ DOMAIN Append(s, d) = 1..(Len(s) + 1)
      /\ \A i \in 1..Len(s) : Append(s, d)[i] = s[i]
      /\ Append(s, d)[Len(s) + 1] = d
  BY Appended
<1> QED
  BY <1>1 DEF Numbered, Size

LEMMA NumberedTail ==
  ASSUME NEW s \in Datagrams, s # <<>>, NEW k \in Nat, Numbered(s, k)
  PROVE  Head(s).seq_num = k /\ Numbered(Tail(s), k + 1)
<1>1. /\ Len(s) \in Nat \ {0} /\ Head(s) = s[1] /\ 1 \in DOMAIN s
      /\ DOMAIN s = 1..Len(s) /\ DOMAIN Tail(s) = 1..(Len(s) - 1)
      /\ \A i \in 1..(Len(s) - 1) : Tail(s)[i] = s[i + 1]
  BY Removed
<1> QED
  BY <1>1 DEF Numbered

LEMMA Raceless ==
  ASSUME TypeOK, NEW p \in Program, races = 0, races' = 0
  PROVE  /\ RecvFrom(p) => sending[p] = Nobody
         /\ \A to : Handed(p, to) => receiving[p] = FALSE
<1>1. ASSUME RecvFrom(p), sending[p] # Nobody PROVE FALSE
  <2>1. races' = races + One(sending[p] # Nobody)
    BY <1>1, Receives
  <2> QED
    BY <1>1, <2>1 DEF One
<1>2. ASSUME NEW to, Handed(p, to), receiving[p] PROVE FALSE
  BY <1>2 DEF Handed, One
<1> QED
  BY <1>1, <1>2 DEF TypeOK

(* The parts of InPlace about each program, and what leaves them alone.    *)
AtB == /\ \A j \in DOMAIN seen : seen[j] = j - 1
       /\ receiving[B] => buffer[B].seq_num = B1
       /\ Numbered(socket[B], B2)
AtR == /\ sending[R] = B => buffer[R].seq_num = R3
       /\ Follow(queue[R], A, R4)
       /\ receiving[R] /\ buffer[R].sourceId = A => buffer[R].seq_num = R5
       /\ Follow(socket[R], A, R6)
AtA == /\ A7 = nextseqnum
       /\ sending[A] # Nobody => buffer[A].seq_num = nextseqnum

KeepB == /\ UNCHANGED seen /\ receiving'[B] = receiving[B]
         /\ receiving[B] => buffer'[B] = buffer[B]
KeepR == /\ sending'[R] = sending[R] /\ receiving'[R] = receiving[R] /\ queue'[R] = queue[R]
         /\ sending[R] # Nobody \/ receiving[R] => buffer'[R] = buffer[R]
KeepA == /\ UNCHANGED nextseqnum /\ sending'[A] = sending[A]
         /\ sending[A] # Nobody => buffer'[A] = buffer[A]

LEMMA Kept ==
  /\ KeepB => B1' = B1 /\ B2' = B2
  /\ KeepR => To(B)' = To(B) /\ InFrom(R, A)' = InFrom(R, A)
  /\ KeepB /\ AtB /\ socket'[B] = socket[B] => AtB' /\ R3' = R3
  /\ KeepR /\ AtR /\ socket'[R] = socket[R] /\ R3' = R3 => AtR' /\ A7' = A7
  /\ KeepA /\ AtA /\ A7' = A7 => AtA'
<1>1. KeepB => B1' = B1 /\ B2' = B2
  BY DEF KeepB, B1, B2, In
<1>2. KeepR => To(B)' = To(B) /\ InFrom(R, A)' = InFrom(R, A)
  BY Programs DEF KeepR, To, InFrom, One
<1>3. KeepB /\ AtB /\ socket'[B] = socket[B] => AtB' /\ R3' = R3
  BY <1>1 DEF KeepB, AtB, R3
<1>4. ASSUME KeepR, AtR, socket'[R] = socket[R], R3' = R3 PROVE AtR' /\ A7' = A7
  <2>1. R4' = R4 /\ R5' = R5 /\ R6' = R6 /\ A7' = A7
    BY <1>2, <1>4 DEF KeepR, R4, R5, R6, A7
  <2> QED
    BY <1>4, <2>1, Programs DEF KeepR, AtR
<1>5. KeepA /\ AtA /\ A7' = A7 => AtA'
  BY DEF KeepA, AtA
<1> QED
  BY <1>1, <1>2, <1>3, <1>4, <1>5

LEMMA InPlaceInv ==
  ASSUME TypeOK, Routed, Alone, InPlace, [Next]_vars,
         lost = 0, races = 0, lost' = 0, races' = 0
  PROVE  InPlace'
<1>0. /\ A \in Program /\ R \in Program /\ B \in Program /\ A # R /\ A # B /\ R # B
      /\ A # Nobody /\ R # Nobody /\ B # Nobody
  BY Programs
<1>1. Numbers /\ Numbers'
  BY TypeInv, AllNumbers, AllNumbersNext
<1>2. /\ AloneAt(A) /\ AloneAt(R) /\ AloneAt(B)
      /\ socket[A] \in Datagrams /\ socket[R] \in Datagrams /\ socket[B] \in Datagrams
      /\ buffer[A] \in Datagram /\ buffer[R] \in Datagram /\ buffer[B] \in Datagram
      /\ queue[R] \in Datagrams
  BY <1>0 DEF Alone, TypeOK
<1>3. /\ B1 \in Nat /\ B2 \in Nat /\ R3 \in Nat /\ R4 \in Nat /\ R5 \in Nat /\ R6 \in Nat
      /\ A7 \in Nat
  BY <1>1 DEF Numbers, B1, B2, R3, R4, R5, R6, A7
<1>4. AtB /\ AtR /\ AtA
  BY DEF InPlace, AtB, AtR, AtA
<1>5. ASSUME AtB', AtR', AtA' PROVE InPlace'
  BY <1>5 DEF InPlace, AtB, AtR, AtA
<1>6. CASE RecvFrom(A)
  <2>1. sending[A] = Nobody
    BY <1>0, <1>6, Raceless
  <2>2. KeepB /\ KeepR /\ KeepA /\ socket'[R] = socket[R] /\ socket'[B] = socket[B]
    BY <1>0, <1>6, <2>1, Receives DEF KeepB, KeepR, KeepA
  <2> QED
    BY <1>4, <1>5, <2>2, Kept
<1>7. CASE RecvFrom(R)
  <2>1. sending[R] = Nobody /\ sending'[R] = Nobody
    BY <1>0, <1>7, Raceless, Receives
  <2>2. /\ KeepB /\ KeepA /\ socket'[B] = socket[B] /\ queue'[R] = queue[R]
        /\ socket[R] # <<>> /\ socket'[R] = Tail(socket[R]) /\ buffer'[R] = Head(socket[R])
        /\ receiving'[R] = TRUE
    BY <1>0, <1>7, Receives DEF KeepB, KeepA
  <2>3. /\ To(B)' = To(B) /\ InFrom(R, A) = 0
        /\ Of(socket[R], A) = Of(socket'[R], A) + InFrom(R, A)'
    BY <1>0, <1>7, RecvShares
  <2>4. InFrom(R, A)' = One(Head(socket[R]).sourceId = A)
    BY <2>2 DEF InFrom, One
  <2>5. AtB' /\ R3' = R3
    BY <1>4, <2>2, Kept
  <2>6. R4' = R4 /\ R5' = R5 /\ R6 = R5 /\ R6' = R6 + InFrom(R, A)' /\ A7' = A7
    <3>1. R4' = R4 /\ R5' = R5
      BY <2>2, <2>3, <2>5 DEF R4, R5
    <3>2. /\ InFrom(R, A)' \in Nat /\ Of(socket'[R], A) \in Nat
          /\ Of(socket[R], A) = Of(socket'[R], A) + InFrom(R, A)'
      BY <1>1, <2>3 DEF Numbers
    <3>3. R6 = R5 /\ R6' = R6 + InFrom(R, A)'
      BY <1>3, <2>3, <3>1, <3>2 DEF R6
    <3>4. A7 = R6 + Of(socket[R], A) /\ A7' = R6' + Of(socket'[R], A)
      BY DEF A7
    <3> QED
      BY <1>3, <3>1, <3>2, <3>3, <3>4
  <2>7. /\ Head(socket[R]).sourceId = A => Head(socket[R]).seq_num = R6
        /\ Follow(Tail(socket[R]), A, R6 + One(Head(socket[R]).sourceId = A))
    BY <1>2, <1>3, <1>4, <2>2, FollowTail DEF AtR
  <2>8. AtR'
    BY <1>0, <1>4, <2>1, <2>2, <2>4, <2>6, <2>7 DEF AtR
  <2> QED
    BY <1>4, <1>5, <2>2, <2>5, <2>6, <2>8, Kept
<1>8. CASE RecvFrom(B)
  <2>1. /\ KeepR /\ KeepA /\ socket'[R] = socket[R] /\ UNCHANGED seen
        /\ socket[B] # <<>> /\ socket'[B] = Tail(socket[B]) /\ buffer'[B] = Head(socket[B])
    BY <1>0, <1>8, Receives DEF KeepR, KeepA
  <2>2. In(B) = 0 /\ In(B)' = 1 /\ Size(socket[B]) = Size(socket'[B]) + 1
    BY <1>0, <1>8, RecvShares
  <2>3. B1' = B1 /\ B2 = B1 /\ B2' = B2 + 1 /\ R3' = R3
    <3>1. Size(socket[B]) \in Nat /\ Size(socket'[B]) \in Nat
      BY <1>1 DEF Numbers
    <3>2. B1' = B1 /\ B2 = B1 /\ B2' = B2 + 1
      BY <1>3, <2>1, <2>2 DEF B1, B2
    <3>3. R3 = B2 + Size(socket[B]) /\ R3' = B2' + Size(socket'[B])
      BY DEF R3
    <3> QED
      BY <1>3, <2>2, <3>1, <3>2, <3>3
  <2>4. Head(socket[B]).seq_num = B2 /\ Numbered(Tail(socket[B]), B2 + 1)
    BY <1>2, <1>3, <1>4, <2>1, NumberedTail DEF AtB
  <2>5. AtB'
    BY <1>4, <2>1, <2>3, <2>4 DEF AtB
  <2> QED
    BY <1>4, <1>5, <2>1, <2>3, <2>5, Kept
<1>9. CASE ASerialize
  <2>1. /\ Handed(A, R) /\ buffer'[A] = [sourceId |-> A, seq_num |-> nextseqnum]
        /\ UNCHANGED <<socket, receiving, queue, nextseqnum, seen>>
    BY <1>9, ASerializes
  <2>2. KeepB /\ KeepR
    BY <1>0, <2>1 DEF KeepB, KeepR, Handed
  <2>3. AtB' /\ AtR' /\ A7' = A7
    BY <1>4, <2>1, <2>2, Kept
  <2>4. AtA'
    BY <1>4, <2>1, <2>3 DEF AtA
  <2> QED
    BY <1>5, <2>3, <2>4
<1>10. CASE RSerialize
  <2>1. /\ queue[R] # <<>> /\ queue'[R] = Tail(queue[R])
        /\ Handed(R, IF Head(queue[R]).sourceId = A THEN B ELSE A)
        /\ buffer'[R].seq_num = Head(queue[R]).seq_num
        /\ UNCHANGED <<socket, receiving, nextseqnum, seen>>
    BY <1>10, RSerializes
  <2>2. KeepB /\ KeepA
    BY <1>0, <2>1 DEF KeepB, KeepA, Handed
  <2>3. AtB' /\ R3' = R3
    BY <1>4, <2>1, <2>2, Kept
  <2>4. receiving[R] = FALSE
    BY <1>0, <2>1, Raceless
  <2>5. To(B) = 0 /\ InFrom(R, A) = 0 /\ InFrom(R, A)' = 0
    BY <1>0, <2>1, <2>4 DEF To, InFrom, One, Handed
  <2>6. /\ sending'[R] = B <=> Head(queue[R]).sourceId = A
        /\ To(B)' = One(Head(queue[R]).sourceId = A)
    BY <1>0, <2>1 DEF To, One, Handed
  <2>7. Of(queue[R], A) = Of(queue'[R], A) + To(B)'
    BY <1>2, <2>1, <2>6, CountTail
  <2>8. R4 = R3 /\ R4' = R4 + To(B)' /\ R5' = R5 /\ R6' = R6 /\ A7' = A7
    <3>1. Of(queue[R], A) \in Nat /\ Of(queue'[R], A) \in Nat /\ To(B)' \in Nat
      BY <1>1 DEF Numbers
    <3>2. R4 = R3 /\ R4' = R4 + To(B)'
      BY <1>3, <2>3, <2>5, <3>1 DEF R4
    <3>3. R5 = R4 + Of(queue[R], A) /\ R5' = R4' + Of(queue'[R], A)
      BY DEF R5
    <3>4. R5' = R5
      BY <1>3, <2>7, <3>1, <3>2, <3>3
    <3>5. R6' = R6 /\ A7' = A7
      BY <2>1, <2>5, <3>4 DEF R6, A7
    <3> QED
      BY <3>2, <3>4, <3>5
  <2>9. /\ Head(queue[R]).sourceId = A => Head(queue[R]).seq_num = R4
        /\ Follow(Tail(queue[R]), A, R4 + One(Head(queue[R]).sourceId = A))
    BY <1>2, <1>3, <1>4, <2>1, FollowTail DEF AtR
  <2>10. AtR'
    BY <1>4, <2>1, <2>3, <2>4, <2>6, <2>8, <2>9 DEF AtR
  <2> QED
    BY <1>4, <1>5, <2>2, <2>3, <2>8, <2>10, Kept
<1>11. CASE BSerialize
  <2>1. /\ Handed(B, R) /\ queue'[R] = queue[R]
        /\ UNCHANGED <<socket, receiving, nextseqnum, seen>>
    BY <1>11, BSerializes
  <2>2. receiving[B] = FALSE
    BY <1>0, <2>1, Raceless
  <2>3. KeepA /\ KeepB /\ KeepR
    BY <1>0, <2>1, <2>2 DEF KeepA, KeepB, KeepR, Handed
  <2> QED
    BY <1>4, <1>5, <2>1, <2>3, Kept
<1>12. CASE ASend
  <2>1. /\ SendTo(A) /\ sending[A] = R /\ nextseqnum' = nextseqnum + 1
        /\ UNCHANGED <<buffer, receiving, queue, seen, races>>
    BY <1>0, <1>12, Sends, Programs DEF ASend, Routed
  <2>2. /\ sending'[A] = Nobody /\ sending'[R] = sending[R] /\ socket'[B] = socket[B]
        /\ socket'[R] = Append(socket[R], buffer[A])
    BY <1>0, <2>1, Sends
  <2>3. KeepB /\ KeepR
    BY <2>1, <2>2 DEF KeepB, KeepR
  <2>4. AtB' /\ R3' = R3 /\ To(B)' = To(B) /\ InFrom(R, A)' = InFrom(R, A)
    BY <1>4, <2>2, <2>3, Kept
  <2>5. buffer[A].sourceId = A /\ buffer[A].seq_num = A7
    BY <1>0, <1>2, <1>4, <2>1 DEF AloneAt, AtA
  <2>6. Of(socket'[R], A) = Of(socket[R], A) + 1
    <3>1. Of(socket'[R], A) = Of(socket[R], A) + One(buffer[A].sourceId = A)
      BY <1>2, <2>2, CountAppend
    <3> QED
      BY <2>5, <3>1 DEF One
  <2>7. R4' = R4 /\ R5' = R5 /\ R6' = R6 /\ A7' = A7 + 1
    BY <1>1, <1>3, <2>1, <2>4, <2>6 DEF Numbers, R4, R5, R6, A7
  <2>8. Follow(Append(socket[R], buffer[A]), A, R6)
    BY <1>2, <1>3, <1>4, <2>5, FollowAppend DEF AtR, A7
  <2>9. AtR'
    BY <1>4, <2>1, <2>2, <2>4, <2>7, <2>8 DEF AtR
  <2>10. AtA'
    BY <1>4, <2>1, <2>2, <2>7 DEF AtA
  <2> QED
    BY <1>5, <2>4, <2>9, <2>10
<1>13. CASE BSend
  <2>1. /\ SendTo(B) /\ sending[B] = R
        /\ UNCHANGED <<buffer, receiving, queue, nextseqnum, seen, races>>
    BY <1>0, <1>13, Sends, Programs DEF BSend, Routed, window
  <2>2. /\ sending'[R] = sending[R] /\ sending'[A] = sending[A] /\ socket'[B] = socket[B]
        /\ socket'[R] = Append(socket[R], buffer[B])
    BY <1>0, <2>1, Sends
  <2>3. KeepA /\ KeepB /\ KeepR
    BY <2>1, <2>2 DEF KeepA, KeepB, KeepR
  <2>4. AtB' /\ R3' = R3 /\ To(B)' = To(B) /\ InFrom(R, A)' = InFrom(R, A)
    BY <1>4, <2>2, <2>3, Kept
  <2>5. buffer[B].sourceId # A
    BY <1>0, <1>2, <2>1 DEF AloneAt
  <2>6. Of(socket'[R], A) = Of(socket[R], A)
    <3>1. Of(socket'[R], A) = Of(socket[R], A) + One(buffer[B].sourceId = A)
      BY <1>2, <2>2, CountAppend
    <3> QED
      BY <1>1, <2>5, <3>1 DEF One, Numbers
  <2>7. R4' = R4 /\ R5' = R5 /\ R6' = R6 /\ A7' = A7
    BY <2>1, <2>4, <2>6 DEF R4, R5, R6, A7
  <2>8. Follow(Append(socket[R], buffer[B]), A, R6)
    BY <1>2, <1>3, <1>4, <2>5, FollowAppend DEF AtR
  <2>9. AtR'
    BY <1>4, <2>1, <2>2, <2>4, <2>7, <2>8 DEF AtR
  <2> QED
    BY <1>4, <1>5, <2>3, <2>4, <2>7, <2>9, Kept
<1>14. CASE RSend
  <2>1. /\ SendTo(R) /\ sending[R] \in {A, B} /\ sending'[R] = Nobody
        /\ UNCHANGED <<buffer, receiving, queue, nextseqnum, seen, races>>
        /\ sending'[A] = sending[A]
    BY <1>0, <1>14, Sends, Programs DEF RSend, Routed, window
  <2>2. socket'[R] = socket[R] /\ KeepA /\ KeepB
    BY <1>0, <2>1, Sends DEF KeepA, KeepB
  <2>3. B1' = B1 /\ B2' = B2
    BY <2>2, Kept
  <2>4. CASE sending[R] = A
    <3>1. socket'[B] = socket[B] /\ To(B) = 0 /\ To(B)' = 0
      BY <1>0, <2>1, <2>4, Sends DEF To, One
    <3>2. InFrom(R, A)' = InFrom(R, A)
      BY <2>1 DEF InFrom
    <3>3. AtB' /\ R3' = R3
      BY <1>4, <2>2, <3>1, Kept
    <3>4. R4' = R4 /\ R5' = R5 /\ R6' = R6 /\ A7' = A7
      BY <2>1, <2>2, <3>1, <3>2, <3>3 DEF R4, R5, R6, A7
    <3>5. AtR'
      BY <1>0, <1>4, <2>1, <2>2, <3>4 DEF AtR
    <3> QED
      BY <1>4, <1>5, <2>2, <3>3, <3>4, <3>5, Kept
  <2>5. CASE sending[R] = B
    <3>1. socket'[B] = Append(socket[B], buffer[R]) /\ To(B) = 1 /\ To(B)' = 0
      BY <1>0, <2>1, <2>5, Sends DEF To, One
    <3>2. InFrom(R, A)' = InFrom(R, A)
      BY <2>1 DEF InFrom
    <3>3. Size(socket'[B]) = Size(socket[B]) + 1
      BY <1>2, <3>1, CountAppend DEF Size
    <3>4. R3' = R3 + 1 /\ R4' = R4 /\ R5' = R5 /\ R6' = R6 /\ A7' = A7
      <4>1. R3 = B2 + Size(socket[B]) /\ R3' = B2' + Size(socket'[B])
        BY DEF R3
      <4>2. Size(socket[B]) \in Nat
        BY <1>1 DEF Numbers
      <4>3. R3' = R3 + 1
        BY <1>3, <2>3, <3>3, <4>1, <4>2
      <4>4. R4' = R4
        BY <1>3, <3>1, <4>3 DEF R4
      <4>5. R5' = R5 /\ R6' = R6 /\ A7' = A7
        BY <2>1, <2>2, <3>2, <4>4 DEF R5, R6, A7
      <4> QED
        BY <4>3, <4>4, <4>5
    <3>5. buffer[R].seq_num = B2 + Size(socket[B])
      BY <1>4, <2>5 DEF AtR, R3
    <3>6. Numbered(Append(socket[B], buffer[R]), B2)
      BY <1>2, <1>3, <1>4, <3>5, NumberedAppend DEF AtB
    <3>7. AtB'
      BY <1>4, <2>1, <2>3, <3>1, <3>6 DEF AtB
    <3>8. AtR'
      BY <1>0, <1>4, <2>1, <2>2, <3>4 DEF AtR
    <3> QED
      BY <1>4, <1>5, <2>2, <3>4, <3>7, <3>8, Kept
  <2> QED
    BY <2>1, <2>4, <2>5
<1>15. CASE AReceive
  <2>1. Turned(A) /\ UNCHANGED <<queue, seen>>
    BY <1>15, AReceives
  <2>2. KeepA /\ KeepB /\ KeepR /\ UNCHANGED socket
    BY <1>0, <2>1 DEF KeepA, KeepB, KeepR, Turned
  <2> QED
    BY <1>4, <1>5, <2>2, Kept
<1>16. CASE RReceive
  <2>1. /\ Turned(R) /\ UNCHANGED seen
        /\ queue'[R] = IF buffer[R].sourceId = R THEN queue[R] ELSE Append(queue[R], buffer[R])
    BY <1>16, RReceives
  <2>2. /\ KeepA /\ KeepB /\ UNCHANGED <<socket, sending, buffer>>
        /\ receiving[R] /\ receiving'[R] = FALSE
    BY <1>0, <2>1 DEF KeepA, KeepB, Turned
  <2>3. queue'[R] = Append(queue[R], buffer[R])
    BY <1>2, <2>1, <2>2 DEF AloneAt
  <2>4. AtB' /\ R3' = R3
    BY <1>4, <2>2, Kept
  <2>5. To(B)' = To(B) /\ InFrom(R, A)' = 0 /\ InFrom(R, A) = One(buffer[R].sourceId = A)
    BY <2>2 DEF To, InFrom, One
  <2>6. Of(queue'[R], A) = Of(queue[R], A) + One(buffer[R].sourceId = A)
    BY <1>2, <2>3, CountAppend
  <2>7. R4' = R4 /\ R6' = R6 /\ A7' = A7
    BY <1>1, <1>3, <2>2, <2>4, <2>5, <2>6 DEF Numbers, R4, R5, R6, A7
  <2>8. Follow(Append(queue[R], buffer[R]), A, R4)
    BY <1>2, <1>3, <1>4, <2>2, FollowAppend DEF AtR, R5
  <2>9. AtR'
    BY <1>4, <2>2, <2>3, <2>4, <2>7, <2>8 DEF AtR
  <2> QED
    BY <1>4, <1>5, <2>2, <2>4, <2>7, <2>9, Kept
<1>17. CASE BReceive
  <2>1. /\ Turned(B) /\ queue'[R] = queue[R] /\ buffer[B].seq_num \in 0..TotalPackets
        /\ seen' = IF buffer[B].sourceId = B THEN seen ELSE Append(seen, buffer[B].seq_num)
    BY <1>17, BReceives
  <2>2. /\ KeepA /\ KeepR /\ UNCHANGED socket
        /\ receiving[B] /\ receiving'[B] = FALSE
    BY <1>0, <2>1 DEF KeepA, KeepR, Turned
  <2>3. seen' = Append(seen, buffer[B].seq_num) /\ buffer[B].seq_num = B1
    BY <1>2, <1>4, <2>1, <2>2 DEF AloneAt, AtB
  <2>4. seen \in Seq(Nat) /\ B1 = Len(seen)
    BY DEF TypeOK, B1, Size
  <2>5. Len(seen') = Len(seen) + 1 /\ \A j \in DOMAIN seen' : seen'[j] = j - 1
    <3>1. /\ Len(seen') = Len(seen) + 1 /\ DOMAIN seen' = 1..(Len(seen) + 1)
          /\ Len(seen) \in Nat /\ DOMAIN seen = 1..Len(seen)
          /\ \A j \in 1..Len(seen) : seen'[j] = seen[j]
          /\ seen'[Len(seen) + 1] = B1
      BY <1>3, <2>3, <2>4, AppendProperties, LenProperties
    <3> QED
      BY <1>4, <2>4, <3>1 DEF AtB
  <2>6. In(B) = 1 /\ In(B)' = 0
    BY <2>2 DEF In, One
  <2>7. B1' = B1 + 1 /\ B2' = B2 /\ R3' = R3
    BY <1>1, <1>3, <2>2, <2>4, <2>5, <2>6 DEF B1, B2, R3, Size, Numbers
  <2>8. AtB'
    BY <1>4, <2>2, <2>5, <2>7 DEF AtB
  <2> QED
    BY <1>4, <1>5, <2>2, <2>7, <2>8, Kept
<1>18. CASE UNCHANGED vars
  <2>1. KeepA /\ KeepB /\ KeepR /\ UNCHANGED socket
    BY <1>18 DEF vars, window, KeepA, KeepB, KeepR
  <2> QED
    BY <1>4, <1>5, <2>1, Kept
<1> QED
  BY <1>6, <1>7, <1>8, <1>9, <1>10, <1>11, <1>12, <1>13, <1>14, <1>15, <1>16, <1>17, <1>18, Programs
  DEF Next, SendThread, ReceiveThread

-----------------------------------------------------------------------------
(* The invariant and what follows from it.                                 *)
LEMMA Grow ==
  ASSUME TypeOK, [Next]_vars
  PROVE  (lost' = lost \/ lost' = lost + 1) /\ (races' = races \/ races' = races + 1)
<1>1. races \in Nat
  BY Nats
<1>2. CASE UNCHANGED <<lost, races>>
  BY <1>2
<1>3. \A b : races + One(b) = races \/ races + One(b) = races + 1
  BY <1>1 DEF One
<1>4. ASSUME NEW p \in Program, RecvFrom(p)
      PROVE  lost' = lost /\ (races' = races \/ races' = races + 1)
  BY <1>3, <1>4, Receives
<1>5. CASE ASend \/ RSend \/ BSend
  BY <1>5, Programs, Sends DEF ASend, RSend, BSend
<1>6. CASE ASerialize \/ RSerialize \/ BSerialize
  <2>1. lost' = lost /\ \E p \in Program : races' = races + One(receiving[p])
    BY <1>6, Programs, ASerializes, RSerializes, BSerializes DEF Handed
  <2> QED
    BY <1>3, <2>1
<1>7. CASE AReceive \/ RReceive \/ BReceive
  BY <1>7, AReceives, RReceives, BReceives DEF Turned
<1> QED
  BY <1>2, <1>4, <1>5, <1>6, <1>7, Programs DEF Next, SendThread, ReceiveThread, vars

LEMMA InStepInv == TypeOK /\ Routed /\ Alone /\ InStep /\ [Next]_vars => InStep'
<1> SUFFICES ASSUME TypeOK, Routed, Alone, InStep, [Next]_vars, lost' + races' = 0
             PROVE  InPlace'
  BY DEF InStep
<1>1. TypeOK'
  BY TypeInv
<1>2. lost \in Nat /\ races \in Nat /\ lost' \in Nat /\ races' \in Nat
  BY <1>1, Bounds DEF TypeOK
<1>3. lost' = 0 /\ races' = 0
  <2>1. \A m, n \in Nat : m + n = 0 => m = 0 /\ n = 0
    OBVIOUS
  <2> QED
    BY <1>2, <2>1
<1>4. lost = 0 /\ races = 0
  <2>1. (lost' = lost \/ lost' = lost + 1) /\ (races' = races \/ races' = races + 1)
    BY Grow
  <2> QED
    BY <1>2, <1>3, <2>1
<1> QED
  BY <1>2, <1>3, <1>4, InPlaceInv DEF InStep

LEMMA InitInv == Init => Inv
<1> SUFFICES ASSUME Init PROVE Inv
  OBVIOUS
<1>1. <<>> \in Datagrams /\ <<>> \in Seq(Nat) /\ Len(<<>>) = 0 /\ DOMAIN <<>> = {}
  BY EmptySeq, LenProperties DEF Datagrams
<1>2. \A q : Of(<<>>, q) = 0
  <2> SUFFICES ASSUME NEW q PROVE Of(<<>>, q) = 0
    OBVIOUS
  <2>1. Upto(<<>>, q, 0) \in 0..0
    BY UptoNat
  <2> QED
    BY <1>1, <2>1 DEF Of
<1>3. TypeOK
  <2>1. \A p \in Program : [sourceId |-> p, seq_num |-> 0] \in Datagram
    BY Bounds DEF Datagram
  <2>2. buffer \in [Program -> Datagram]
    BY <2>1 DEF Init
  <2> QED
    BY <1>1, <2>2, Bounds DEF Init, TypeOK
<1>4. Routed
  BY <1>1, Programs DEF Init, Routed
<1>5. /\ \A p \in Program : In(p) = 0 /\ Out(p) = 0 /\ Size(socket[p]) = 0
      /\ \A p \in Program : \A q : InFrom(p, q) = 0 /\ OutFrom(p, q) = 0 /\ Of(socket[p], q) = 0
      /\ Size(queue[R]) = 0 /\ Size(queue[B]) = 0 /\ Of(queue[R], A) = 0
      /\ To(A) = 0 /\ To(B) = 0 /\ ROwn = 0 /\ Size(seen) = 0
      /\ send_base = 0 /\ nextseqnum = 0 /\ lost = 0 /\ races = 0
  <2>1. \A p \in Program : socket[p] = <<>> /\ sending[p] = Nobody /\ receiving[p] = FALSE
    BY DEF Init
  <2>2. /\ queue[R] = <<>> /\ queue[B] = <<>> /\ seen = <<>>
        /\ send_base = 0 /\ nextseqnum = 0 /\ lost = 0 /\ races = 0
    BY DEF Init
  <2>3. \A p \in Program : In(p) = 0 /\ Out(p) = 0 /\ Size(socket[p]) = 0
    BY <1>1, <2>1 DEF In, Out, One, Size
  <2>4. \A p \in Program : \A q : InFrom(p, q) = 0 /\ OutFrom(p, q) = 0 /\ Of(socket[p], q) = 0
    BY <1>2, <2>1 DEF InFrom, OutFrom, One
  <2>5. To(A) = 0 /\ To(B) = 0 /\ ROwn = 0
    BY <2>1, Programs DEF To, ROwn, One
  <2> QED
    BY <1>1, <1>2, <2>2, <2>3, <2>4, <2>5 DEF Size
<1>6. Counts
  <2>1. A \in Program /\ R \in Program /\ B \in Program
    BY Programs
  <2>2. OnTheWay = 0 /\ Doomed = 0
    BY <1>5, <2>1 DEF OnTheWay, Doomed
  <2>3. ToSee = 0 /\ ToCount = 0
    BY <1>5, <2>1 DEF ToSee, ToCount
  <2> QED
    BY <1>5, <2>1, <2>2, <2>3 DEF Counts, Balance, Onward, Back
<1>7. Alone
  BY <1>1 DEF Init, Alone, AloneAt
<1>8. InStep
  <2>1. B1 = 0 /\ B2 = 0 /\ R3 = 0 /\ R4 = 0 /\ R5 = 0 /\ R6 = 0 /\ A7 = 0
    BY <1>5, Programs DEF B1, B2, R3, R4, R5, R6, A7
  <2> QED
    BY <1>1, <2>1, Programs DEF Init, InStep, InPlace, Numbered, Follow
<1> QED
  BY <1>3, <1>4, <1>6, <1>7, <1>8 DEF Inv

LEMMA Invariance == Spec => []Inv
<1>1. Inv /\ [Next]_vars => Inv'
  BY TypeInv, RoutedInv, CountsInv, Disjoint, InStepInv DEF Inv
<1> QED
  BY <1>1, InitInv, PTL DEF Spec

(* Datagrams stay datagrams, and HostA never numbers a packet past the end *)
(* of the file.                                                            *)
THEOREM TypeCorrect == Spec => []TypeOK
<1>1. Inv => TypeOK
  BY DEF Inv
<1> QED
  BY <1>1, Invariance, PTL

(* For every window, file and number of losses and races, no packet        *)
(* vanishes and none is made: those that moved the window, are on their    *)
(* way or were lost are those sent, up to one for every race.              *)
THEOREM EveryPacketAccounted == Spec => []Accounted
<1> SUFFICES ASSUME Inv PROVE Accounted
  BY Invariance, PTL
<1>1. TypeOK /\ Balance
  BY DEF Inv, Counts
<1>2. Numbers
  BY <1>1, AllNumbers
<1>3. InTransit = OnTheWay
  <2> DEFINE f == [p \in Program |-> Len(socket[p]) + (IF sending[p] = Nobody THEN 0 ELSE 1)
                                         + (IF receiving[p] THEN 1 ELSE 0)
                                         + (IF p = A THEN 0 ELSE Len(queue[p]))]
  <2>1. f[A] = Size(socket[A]) + Out(A) + In(A) + 0
    BY Programs DEF Size, Out, In, One
  <2>2. f[R] = Size(socket[R]) + Out(R) + In(R) + Size(queue[R])
    BY Programs DEF Size, Out, In, One
  <2>3. f[B] = Size(socket[B]) + Out(B) + In(B) + Size(queue[B])
    BY Programs DEF Size, Out, In, One
  <2>4. InTransit = f[A] + f[R] + f[B]
    BY DEF InTransit, Sum3
  <2> HIDE DEF f
  <2> QED
    BY <1>2, <2>1, <2>2, <2>3, <2>4 DEF OnTheWay, Numbers
<1>4. Sent = nextseqnum + Out(A)
  BY <1>2 DEF Sent, Out, One, Numbers
<1>5. Doomed \in Nat /\ OnTheWay \in Nat
  BY <1>2 DEF Doomed, OnTheWay, Numbers
<1> QED
  BY <1>1, <1>2, <1>3, <1>4, <1>5 DEF Accounted, Balance, Numbers

LEMMA RepeatsNow == Inv => RepeatsOnlyByRaces
<1> SUFFICES ASSUME Inv PROVE RepeatsOnlyByRaces
  OBVIOUS
<1>1. Numbers /\ Onward /\ Back
  BY AllNumbers DEF Inv, Counts
<1>2. ToSee \in Nat /\ ToCount \in Nat
  <2>1. Size(queue[R]) - Of(queue[R], A) \in Nat
    <3>1. Size(queue[R]) \in Nat /\ Of(queue[R], A) \in 0..Len(queue[R])
      <4>1. queue[R] \in Datagrams
        BY Programs DEF Inv, TypeOK
      <4>2. Upto(queue[R], A, Len(queue[R])) \in 0..Len(queue[R]) /\ Len(queue[R]) \in Nat
        BY <4>1, UptoNat, LenProperties DEF Datagrams
      <4> QED
        BY <4>2 DEF Of, Size
    <3> QED
      BY <3>1 DEF Size
  <2> QED
    BY <1>1, <2>1 DEF ToSee, ToCount, Numbers
<1>3. Size(seen) <= nextseqnum + races /\ send_base <= Size(seen) + races
  BY <1>1, <1>2 DEF Onward, Back, Numbers
<1> QED
  BY <1>3 DEF RepeatsOnlyByRaces, Size

(* HostB answers, and the window moves, more often than packets were sent  *)
(* only through races, and once for each.                                  *)
THEOREM RepeatsBounded == Spec => []RepeatsOnlyByRaces
BY Invariance, RepeatsNow, PTL

(* As long as nothing was lost and no race happened, HostB has seen the    *)
(* packets in order, and every one below send_base.                        *)
THEOREM OrderKept == Spec => []InOrderUnlessLost
<1> SUFFICES ASSUME Inv, lost + races = 0
             PROVE  send_base <= Len(seen) /\ \A j \in DOMAIN seen : seen[j] = j - 1
  BY Invariance, PTL DEF InOrderUnlessLost
<1>1. \A j \in DOMAIN seen : seen[j] = j - 1
  BY DEF Inv, InStep, InPlace
<1>2. races = 0
  BY Bounds DEF Inv, TypeOK
<1>3. send_base <= Size(seen) + races
  BY RepeatsNow DEF RepeatsOnlyByRaces, Size
<1>4. send_base \in Nat /\ Size(seen) \in Nat
  BY Nats DEF Inv
<1> QED
  BY <1>1, <1>2, <1>3, <1>4 DEF Size
=============================================================================
