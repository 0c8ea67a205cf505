---------------------------- MODULE InterASProofs ----------------------------
(***************************************************************************)
(* For every topology of two autonomous systems that meets the named       *)
(* assumptions of InterAS.  Four groups of lemmas say what one step does   *)
(* (to a buffer, to a router's tables, to the calls that wait for a        *)
(* thread, to main's phase); the invariants are then carried over a step   *)
(* by these alone.  Typed gives TypeOK; PCsHearPackets, what PCs are sent  *)
(* and when the program can crash; SetUp, that turnOffProtocols, eBGP and  *)
(* iBGP take effect in main's order although nobody waits for anybody,     *)
(* that no packet is lost at a router that is through with them; and the   *)
(* last part, for OSPF, that packets go down a measure.                    *)
(***************************************************************************)
EXTENDS InterAS, RouteTableProofs, FiniteSetTheorems

-----------------------------------------------------------------------------
(* The links.                                                              *)
LEMMA Ends ==
  /\ Router \cap PC = {} /\ Node = Router \cup PC
  /\ \A r \in Router : /\ Links(r) = Neighbours(r) /\ Neighbours(r) \subseteq Node
                       /\ r \notin Neighbours(r)
                       /\ Mates(r) \subseteq Peers(r) /\ Peers(r) \subseteq Router
                       /\ Peers(r) \subseteq Neighbours(r)
                       /\ \A n \in Neighbours(r) : r \in Links(n)
  /\ \A p \in PC : /\ Link(p) \in Router /\ Links(p) = {Link(p)} /\ p \in Neighbours(Link(p))
                   /\ \A r \in Router : p \in Neighbours(r) => r = Link(p)
  /\ \A n \in Node : Links(n) \subseteq Node
<1>1. Router \cap PC = {} /\ Node = Router \cup PC
  BY TopologyAssumption DEF PC, Node
<1>2. \A r \in Router : /\ Links(r) = Neighbours(r) /\ Neighbours(r) \subseteq Node
                        /\ r \notin Neighbours(r)
                        /\ Mates(r) \subseteq Peers(r) /\ Peers(r) \subseteq Router
                        /\ Peers(r) \subseteq Neighbours(r)
  BY <1>1, NeighboursAreNodes DEF Links, Mates, Peers
<1>3. ASSUME NEW p \in PC
      PROVE  /\ Link(p) \in Router /\ p \in Neighbours(Link(p))
             /\ \A r \in Router : p \in Neighbours(r) => r = Link(p)
  <2>1. PICK q \in Router : \A r \in Router : p \in Neighbours(r) <=> r = q
    BY InterASAssumption
  <2>2. Link(p) \in Router /\ p \in Neighbours(Link(p))
    BY <2>1 DEF Link
  <2> QED
    BY <2>1, <2>2
<1>4. \A p \in PC : Links(p) = {Link(p)}
  BY DEF Links
<1>5. \A r \in Router : \A n \in Neighbours(r) : r \in Links(n)
  <2> SUFFICES ASSUME NEW r \in Router, NEW n \in Neighbours(r) PROVE r \in Links(n)
    OBVIOUS
  <2>1. CASE n \in PC
    BY <1>3, <1>4, <2>1
  <2>2. CASE n \in Router
    BY <1>2, <2>2, NeighboursAreNodes DEF Peers
  <2> QED
    BY <1>1, <1>2, <2>1, <2>2
<1> QED
  BY <1>1, <1>2, <1>3, <1>4, <1>5

LEMMA PortsInOrder ==
  ASSUME NEW r \in Router
  PROVE  /\ Len(Ports[r]) \in Nat \ {0} /\ DOMAIN Ports[r] = 1..Len(Ports[r])
         /\ \A i \in DOMAIN Ports[r] : Ports[r][i] \in Neighbours(r)
         /\ \A i \in DOMAIN Ports[r] : (i % Len(Ports[r])) + 1 \in DOMAIN Ports[r]
<1>1. Ports[r] \in Seq(Node) /\ Len(Ports[r]) > 0
  BY TopologyAssumption
<1>2. Len(Ports[r]) \in Nat \ {0} /\ DOMAIN Ports[r] = 1..Len(Ports[r])
  BY <1>1
<1>3. \A i \in DOMAIN Ports[r] : Ports[r][i] \in Neighbours(r)
  BY DEF Neighbours, Range
<1>4. \A n \in Nat \ {0} : \A i \in 1..n : (i % n) + 1 \in 1..n
  OBVIOUS
<1> QED
  BY <1>2, <1>3, <1>4

-----------------------------------------------------------------------------
(* Buffers.                                                                *)
Queue(s) == s \in Seq(Range(s))

Boxes(b) == /\ b = [n \in Node |-> [m \in Links(n) |-> b[n][m]]]
            /\ \A n \in Node : \A m \in Links(n) : Queue(b[n][m])

LEMMA QueueEmpty == Queue(<<>>) /\ Range(<<>>) = {}
BY DEF Queue, Range

LEMMA QueueTail ==
  ASSUME NEW s, Queue(s), s # <<>>
  PROVE  /\ Queue(Tail(s)) /\ Head(s) \in Range(s)
         /\ Range(Tail(s)) \subseteq Range(s)
         /\ \A x \in Range(s) : x = Head(s) \/ x \in Range(Tail(s))
<1>1. s \in Seq(Range(s))
  BY DEF Queue
<1>2. /\ Head(s) = s[1] /\ 1 \in DOMAIN s /\ DOMAIN s = 1..Len(s) /\ Len(s) \in Nat \ {0}
      /\ Tail(s) \in Seq(Range(s)) /\ Len(Tail(s)) = Len(s) - 1
      /\ \A i \in 1..Len(Tail(s)) : Tail(s)[i] = s[i + 1]
  BY <1>1
<1>3. \A i \in DOMAIN Tail(s) : i + 1 \in DOMAIN s /\ Tail(s)[i] = s[i + 1]
  BY <1>2
<1>4. Range(Tail(s)) \subseteq Range(s)
  BY <1>3 DEF Range
<1>5. Tail(s) \in Seq(Range(Tail(s)))
  BY <1>2, SeqOfRange
<1>6. ASSUME NEW i \in DOMAIN s PROVE s[i] = Head(s) \/ s[i] \in Range(Tail(s))
  <2>1. CASE i = 1
    BY <1>2, <2>1
  <2>2. CASE i # 1
    <3>1. i - 1 \in 1..Len(Tail(s)) /\ (i - 1) + 1 = i
      BY <1>2, <2>2
    <3>2. i - 1 \in DOMAIN Tail(s) /\ Tail(s)[i - 1] = s[i]
      BY <1>2, <3>1
    <3> QED
      BY <3>2 DEF Range
  <2> QED
    BY <2>1, <2>2
<1> QED
  BY <1>2, <1>4, <1>5, <1>6 DEF Queue, Range

LEMMA QueueAppend ==
  ASSUME NEW s, Queue(s), NEW x
  PROVE  Queue(Append(s, x)) /\ Range(Append(s, x)) = Range(s) \cup {x}
<1>1. s \in Seq(Range(s) \cup {x})
  BY SeqMonotonic DEF Queue
<1>2. /\ Append(s, x) \in Seq(Range(s) \cup {x}) /\ Len(Append(s, x)) = Len(s) + 1
      /\ Len(s) \in Nat /\ DOMAIN s = 1..Len(s)
      /\ DOMAIN Append(s, x) = 1..(Len(s) + 1)
      /\ \A i \in 1..Len(s) : Append(s, x)[i] = s[i]
      /\ Append(s, x)[Len(s) + 1] = x
  BY <1>1, AppendProperties, LenProperties
<1>3. Range(Append(s, x)) = Range(s) \cup {x}
  BY <1>2 DEF Range
<1> QED
  BY <1>2, <1>3 DEF Queue

LEMMA PushBoxes ==
  ASSUME NEW b, Boxes(b), NEW m \in Node, NEW n \in Links(m), NEW msg
  PROVE  /\ Boxes(Push(b, n, m, msg))
         /\ \A x \in Node : \A y \in Links(x) :
              Push(b, n, m, msg)[x][y] = IF x = m /\ y = n THEN Append(b[x][y], msg) ELSE b[x][y]
<1> DEFINE c == Push(b, n, m, msg)
<1>1. \A x \in Node : \A y \in Links(x) :
        c[x][y] = IF x = m /\ y = n THEN Append(b[x][y], msg) ELSE b[x][y]
  BY DEF Push, Boxes
<1>2. c = [x \in Node |-> [y \in Links(x) |-> c[x][y]]]
  BY DEF Push, Boxes
<1> HIDE DEF c
<1>3. \A x \in Node : \A y \in Links(x) : Queue(c[x][y])
  BY <1>1, QueueAppend DEF Boxes
<1> QED
  BY <1>1, <1>2, <1>3 DEF Boxes, c

LEMMA PopBoxes ==
  ASSUME NEW b, Boxes(b), NEW n \in Node, NEW m \in Links(n), b[n][m] # <<>>
  PROVE  /\ Boxes([b EXCEPT ![n][m] = Tail(@)])
         /\ \A x \in Node : \A y \in Links(x) :
              [b EXCEPT ![n][m] = Tail(@)][x][y] = IF x = n /\ y = m THEN Tail(b[x][y]) ELSE b[x][y]
<1> DEFINE c == [b EXCEPT ![n][m] = Tail(@)]
<1>1. \A x \in Node : \A y \in Links(x) :
        c[x][y] = IF x = n /\ y = m THEN Tail(b[x][y]) ELSE b[x][y]
  BY DEF Boxes
<1>2. c = [x \in Node |-> [y \in Links(x) |-> c[x][y]]]
  BY DEF Boxes
<1> HIDE DEF c
<1>3. \A x \in Node : \A y \in Links(x) : Queue(c[x][y])
  BY <1>1, QueueTail DEF Boxes
<1> QED
  BY <1>1, <1>2, <1>3 DEF Boxes, c

LEMMA PushAllBoxes ==
  ASSUME NEW b, Boxes(b), NEW r \in Router, NEW S \in SUBSET Neighbours(r), NEW msg
  PROVE  /\ Boxes(PushAll(b, r, S, msg))
         /\ \A x \in Node : \A y \in Links(x) :
              PushAll(b, r, S, msg)[x][y] = IF x \in S /\ y = r THEN Append(b[x][y], msg) ELSE b[x][y]
<1> DEFINE c == PushAll(b, r, S, msg)
<1>1. \A x \in S : r \in Links(x)
  BY Ends
<1>2. \A x \in Node : \A y \in Links(x) :
        c[x][y] = IF x \in S /\ y = r THEN Append(b[x][y], msg) ELSE b[x][y]
  BY <1>1 DEF PushAll, Boxes
<1>3. c = [x \in Node |-> [y \in Links(x) |-> c[x][y]]]
  BY <1>1 DEF PushAll, Boxes
<1> HIDE DEF c
<1>4. \A x \in Node : \A y \in Links(x) : Queue(c[x][y])
  BY <1>2, QueueAppend DEF Boxes
<1> QED
  BY <1>2, <1>3, <1>4 DEF Boxes, c

-----------------------------------------------------------------------------
(* The tables the AS protocols leave, and the exits.                       *)
LEMMA Least ==
  ASSUME NEW S \in SUBSET Nat, S # {}
  PROVE  \E n \in S : \A c \in S : n <= c
<1>1. PICK n \in S : \A c \in S : <<c, n>> \notin OpToRel(<, Nat)
  BY NatLessThanWellFounded, WFMin
<1>2. \A c \in S : ~(c < n)
  BY <1>1 DEF OpToRel
<1> QED
  BY <1>2

LEMMA InASTables ==
  ASSUME NEW r \in Router
  PROVE  /\ IsTable(InAS[r]) /\ r \notin DOMAIN InAS[r]
         /\ \A k \in DOMAIN InAS[r] : /\ InAS[r][k] \in Hops(r, k)
                                      /\ \A d \in Hops(r, k) : InAS[r][k] <= d
         /\ \A k \in Node \ {r} : Hops(r, k) # {} => k \in DOMAIN InAS[r]
<1> DEFINE D == {n \in Node \ {r} : Hops(r, n) # {}}
           least(k) == CHOOSE d \in Hops(r, k) : \A e \in Hops(r, k) : d <= e
<1>1. InAS[r] = [k \in D |-> least(k)]
  BY DEF InAS
<1>2. ASSUME NEW k \in D
      PROVE  least(k) \in Hops(r, k) /\ \A e \in Hops(r, k) : least(k) <= e
  <2>1. Hops(r, k) \in SUBSET Nat /\ Hops(r, k) # {}
    BY DEF Hops
  <2>2. \E d \in Hops(r, k) : \A e \in Hops(r, k) : d <= e
    BY <2>1, Least
  <2> QED
    BY <2>2
<1>3. \A k \in D : Hops(r, k) \subseteq Cost
  BY DEF Hops, Cost
<1> HIDE DEF least
<1> QED
  BY <1>1, <1>2, <1>3 DEF IsTable

LEMMA ExitIsEdge ==
  ASSUME NEW r \in Router, IsTable(table[r])
  PROVE  /\ Exit(r) \in Range(Edges) /\ Exit(r) \in Router /\ asID[Exit(r)] = asID[r]
         /\ \A e \in Range(Edges) :
              asID[e] = asID[r] /\ {e, Exit(r)} \subseteq DOMAIN table[r] => table[r][Exit(r)] <= table[r][e]
<1> DEFINE own     == {i \in DOMAIN Edges : asID[Edges[i]] = asID[r]}
           cost(i) == IF Edges[i] \in DOMAIN table[r] THEN table[r][Edges[i]] ELSE 0
           Best(i) == \A j \in own : cost(i) <= cost(j) /\ (j < i => cost(i) < cost(j))
<1>1. own \subseteq Nat /\ own # {}
  <2>1. Edges \in Seq(Router)
    BY InterASAssumption
  <2>2. DOMAIN Edges \subseteq Nat
    BY <2>1
  <2>3. \E e \in Range(Edges) : asID[e] = asID[r]
    BY BorderAssumption
  <2> QED
    BY <2>2, <2>3 DEF Range
<1>2. \A i \in own : cost(i) \in Nat
  BY DEF IsTable, Cost
<1> DEFINE Costs == {cost(i) : i \in own}
<1>3. PICK c \in Costs : \A e \in Costs : c <= e
  <2> HIDE DEF own, cost
  <2>1. Costs \in SUBSET Nat /\ Costs # {}
    BY <1>1, <1>2
  <2> HIDE DEF Costs
  <2> QED
    BY <2>1, Least
<1> DEFINE Cheapest == {i \in own : cost(i) = c}
<1>4. PICK b \in Cheapest : \A e \in Cheapest : b <= e
  <2> HIDE DEF own, cost
  <2>1. Cheapest \in SUBSET Nat /\ Cheapest # {}
    BY <1>1, <1>3
  <2> HIDE DEF Cheapest
  <2> QED
    BY <2>1, Least
<1>5. b \in own /\ Best(b)
  <2> HIDE DEF own, cost
  <2>1. b \in own /\ cost(b) = c
    BY <1>4
  <2>2. ASSUME NEW j \in own PROVE cost(b) <= cost(j) /\ (j < b => cost(b) < cost(j))
    <3>1. cost(b) <= cost(j) /\ cost(j) \in Nat /\ cost(b) \in Nat /\ j \in Nat /\ b \in Nat
      BY <1>1, <1>2, <1>3, <2>1
    <3>2. j < b => cost(j) # c
      BY <1>4, <3>1
    <3> QED
      BY <2>1, <3>1, <3>2
  <2> QED
    BY <2>1, <2>2
<1>6. Exit(r) = Edges[CHOOSE i \in own : Best(i)]
  BY DEF Exit
<1> HIDE DEF Best
<1>7. PICK x \in own : Best(x) /\ Exit(r) = Edges[x]
  BY <1>5, <1>6
<1>8. \A i \in DOMAIN Edges : Edges[i] \in Router
  BY InterASAssumption
<1>9. ASSUME NEW e \in Range(Edges), asID[e] = asID[r], {e, Exit(r)} \subseteq DOMAIN table[r]
      PROVE  table[r][Exit(r)] <= table[r][e]
  <2>1. PICK j \in own : Edges[j] = e
    BY <1>9 DEF Range
  <2>2. cost(x) <= cost(j)
    BY <1>7 DEF Best
  <2> QED
    BY <1>7, <1>9, <2>1, <2>2
<1> QED
  BY <1>7, <1>8, <1>9 DEF Range

-----------------------------------------------------------------------------
(* The types, messages told apart by their kind and the end they came from. *)
MsgShape(m, msg) ==
  \/ msg \in [type : {"M"}, packet : Packets, path : Seq(Router)]
  \/ msg.type \in {"P", "E"} /\ m \in Router /\ IsTable(msg.table)

Tables == /\ table = [r \in Router |-> table[r]] /\ fwd = [r \in Router |-> fwd[r]]
          /\ \A r \in Router : /\ IsTable(table[r]) /\ r \notin DOMAIN table[r]
                               /\ fwd[r] \in [DOMAIN fwd[r] -> Neighbours(r)]
                               /\ DOMAIN fwd[r] \subseteq Node

Messages == /\ Boxes(buffer)
            /\ \A n \in Node : \A m \in Links(n) : \A msg \in Range(buffer[n][m]) : MsgShape(m, msg)

Control == /\ calls \in [Node -> Seq(Slots \cup Packets)]
           /\ port \in [Router -> Nat] /\ \A r \in Router : port[r] \in DOMAIN Ports[r]
           /\ on \in [Router -> BOOLEAN] /\ iseBGP \in [Router -> BOOLEAN]
           /\ phase \in {EBGP, IBGP, "send", "done"}
           /\ arrived \subseteq Packets \X PC /\ lost \subseteq Packets \X Router
           /\ calm \in BOOLEAN /\ misread \in BOOLEAN /\ crashed \in BOOLEAN

Typed == Tables /\ Messages /\ Control

(* What may come to a PC: packets, each for it; and only edge routers are  *)
(* told to do eBGP, so no router sends a PC its table.                     *)
PCsHearPackets ==
  /\ \A r \in Router : Waits(r, EBGP) => r \in Range(Edges)
  /\ \A r \in Router : \A k \in DOMAIN fwd[r] : fwd[r][k] \in PC => fwd[r][k] = k
  /\ \A p \in PC : \A msg \in Range(buffer[p][Link(p)]) : msg.type = "M" /\ Dst[msg.packet] = p

(* A call of x waits for n's thread before every call of y.                *)
Holds(s, x)    == \E i \in DOMAIN s : s[i] = x
Ahead(s, x, y) == \E i \in DOMAIN s : s[i] = x /\ \A j \in 1..i : s[j] # y
First(n, x, y) == Ahead(calls[n], x, y)

Own(r) == {k \in PC : Home(k) = asID[r]}

(* The set-up comes in main's order: the table eBGP sends covers the AS,   *)
(* and an edge router does eBGP before iBGP.                               *)
Ready(r) == \/ Own(r) \subseteq DOMAIN table[r]
            \/ /\ Protocol[asID[r]] = "OSPF"
               /\ \/ phase = EBGP /\ ~Waits(r, EBGP)
                  \/ First(r, Off, EBGP)

InTurn(r) == \/ iseBGP[r]
             \/ phase = EBGP /\ ~Waits(r, IBGP)
             \/ First(r, EBGP, IBGP)

(* What a router can reach: its own AS always; the rest, inside, once iBGP *)
(* is done; on the edge, once the tables sent to it are merged.            *)
Reached(r) == \/ phase \in {EBGP, IBGP} \/ Waits(r, IBGP)
              \/ Foreign(r) \subseteq DOMAIN fwd[r]

TableWaits(r, m) == \E msg \in Range(buffer[r][m]) : msg.type = "E" /\ Own(m) \subseteq DOMAIN msg.table

Learned(r, m) == \/ phase = EBGP \/ Waits(m, EBGP)
                 \/ TableWaits(r, m)
                 \/ Own(m) \subseteq DOMAIN fwd[r]

Inner(r) == ~iseBGP[r] /\ Reached(r)

HomeKnown == \A r \in Router : \A k \in Node \ {r} : Home(k) = asID[r] => k \in DOMAIN fwd[r]

EdgeKnows(r) == (DOMAIN InAS[r] \cup DOMAIN table[r]) \cap PC \subseteq DOMAIN fwd[r]

SetUp ==
  /\ HomeKnown
  /\ \A r \in Router : Ready(r)
  /\ \A r \in Router \ Range(Edges) : Inner(r)
  /\ \A r \in Range(Edges) : InTurn(r) /\ EdgeKnows(r)
  /\ misread \/ crashed \/ \A r \in Range(Edges) : \A m \in Peers(r) \ Mates(r) : Learned(r, m)

-----------------------------------------------------------------------------
(* What one step does to a router's tables: nothing, turnOffProtocols,     *)
(* startIBGP, or the merge of a table that came from a peer.               *)
Turning(r) == ~crashed /\ ~Nothing(r) /\ (UpdateForwarding(r) \/ UpdateRIP(r))

Merged(r, new) ==
  /\ Turning(r) /\ Far(r) \in Peers(r) /\ IsTable(new)
  /\ table'[r] = MergeCosts(r, table[r], new)
  /\ fwd'[r] = MergePorts(r, table[r], fwd[r], new, Far(r))
  /\ ~on[r] => Front(r).type = "E" /\ new = Front(r).table

LEMMA FarEnd ==
  ASSUME Typed, NEW r \in Router
  PROVE  /\ Far(r) \in Neighbours(r) /\ Far(r) \in Links(r) /\ r \in Node
         /\ ~Nothing(r) => /\ Front(r) \in Range(buffer[r][Far(r)])
                           /\ MsgShape(Far(r), Front(r))
<1>1. Far(r) \in Neighbours(r) /\ Far(r) \in Links(r) /\ r \in Node
  BY PortsInOrder, Ends DEF Typed, Control, Far
<1>2. Queue(buffer[r][Far(r)])
  BY <1>1 DEF Typed, Messages, Boxes
<1>3. ~Nothing(r) => Front(r) \in Range(buffer[r][Far(r)])
  BY <1>2, QueueTail DEF Nothing, Front
<1> QED
  BY <1>1, <1>3 DEF Typed, Messages

LEMMA WithoutIsTable ==
  ASSUME NEW t, IsTable(t), NEW k
  PROVE  IsTable(Without(t, k))
BY DEF IsTable, Without

LEMMA MergeHeard ==
  ASSUME Typed, NEW r \in Router, Turning(r)
  PROVE  \/ table' = table /\ fwd' = fwd
         \/ /\ table' = [table EXCEPT ![r] = table'[r]] /\ fwd' = [fwd EXCEPT ![r] = fwd'[r]]
            /\ \E new : Merged(r, new)
<1>1. /\ Far(r) \in Neighbours(r) /\ MsgShape(Far(r), Front(r)) /\ ~Nothing(r)
  BY FarEnd DEF Turning
<1>2. ASSUME Front(r).type \in {"P", "E"}
      PROVE  Far(r) \in Peers(r) /\ IsTable(Front(r).table)
  <2>1. Front(r) \notin [type : {"M"}, packet : Packets, path : Seq(Router)]
    BY <1>2
  <2> QED
    BY <1>1, <2>1 DEF MsgShape, Peers
<1>3. /\ table = [q \in Router |-> table[q]] /\ fwd = [q \in Router |-> fwd[q]]
  BY DEF Typed, Tables
<1>4. ASSUME NEW new, Merge(r, new), IsTable(new), Far(r) \in Peers(r),
             ~on[r] => Front(r).type = "E" /\ new = Front(r).table
      PROVE  /\ table' = [table EXCEPT ![r] = table'[r]] /\ fwd' = [fwd EXCEPT ![r] = fwd'[r]]
             /\ Merged(r, new)
  <2>1. /\ table' = [table EXCEPT ![r] = MergeCosts(r, table[r], new)]
        /\ fwd' = [fwd EXCEPT ![r] = MergePorts(r, table[r], fwd[r], new, Far(r))]
    BY <1>4 DEF Merge
  <2>2. /\ table'[r] = MergeCosts(r, table[r], new)
        /\ fwd'[r] = MergePorts(r, table[r], fwd[r], new, Far(r))
    BY <1>3, <2>1
  <2> QED
    BY <1>4, <2>1, <2>2 DEF Merged
<1>5. CASE UpdateForwarding(r)
  <2>1. /\ ~on[r]
        /\ (table' = table /\ fwd' = fwd) \/ (Front(r).type = "E" /\ Merge(r, Front(r).table))
    BY <1>1, <1>5 DEF UpdateForwarding
  <2> QED
    BY <1>2, <1>4, <2>1
<1>6. CASE UpdateRIP(r)
  <2>1. /\ on[r]
        /\ \/ table' = table /\ fwd' = fwd
           \/ Front(r).type = "P" /\ Merge(r, Front(r).table)
           \/ Front(r).type = "E" /\ \E k \in DOMAIN Front(r).table : Merge(r, Without(Front(r).table, k))
    BY <1>1, <1>6 DEF UpdateRIP
  <2> QED
    BY <1>2, <1>4, <2>1, WithoutIsTable
<1> QED
  BY <1>5, <1>6 DEF Turning

LEMMA TableStep ==
  ASSUME Typed, [Next]_vars
  PROVE  \/ table' = table /\ fwd' = fwd
         \/ \E r \in Router :
              /\ table' = [table EXCEPT ![r] = table'[r]] /\ fwd' = [fwd EXCEPT ![r] = fwd'[r]]
              /\ \/ /\ TurnOffProtocols(r) /\ Protocol[asID[r]] = "OSPF"
                    /\ table'[r] = InAS[r] /\ fwd'[r] = fwd[r]
                 \/ StartIBGP(r) /\ table'[r] = table[r]
                 \/ \E new : Merged(r, new)
<1>1. /\ table = [q \in Router |-> table[q]] /\ fwd = [q \in Router |-> fwd[q]]
  BY DEF Typed, Tables
<1>2. CASE UNCHANGED vars
  BY <1>2 DEF vars, routes
<1>3. CASE Main
  BY <1>3 DEF Main, PostUpdate, PostEBGP, PostIBGP, PostPackets, routes
<1>4. ASSUME NEW p \in PC, PCThread(p) PROVE table' = table /\ fwd' = fwd
  BY <1>4 DEF PCThread, StartPCs, UpdatePC, routes
<1>5. ASSUME NEW r \in Router, TurnOffProtocols(r)
      PROVE  \/ table' = table /\ fwd' = fwd
             \/ /\ table' = [table EXCEPT ![r] = table'[r]] /\ fwd' = [fwd EXCEPT ![r] = fwd'[r]]
                /\ Protocol[asID[r]] = "OSPF" /\ table'[r] = InAS[r] /\ fwd'[r] = fwd[r]
  BY <1>1, <1>5 DEF TurnOffProtocols
<1>6. ASSUME NEW r \in Router, StartEBGP(r) PROVE table' = table /\ fwd' = fwd
  BY <1>6 DEF StartEBGP
<1>7. ASSUME NEW r \in Router, StartIBGP(r)
      PROVE  /\ table' = [table EXCEPT ![r] = table'[r]] /\ fwd' = [fwd EXCEPT ![r] = fwd'[r]]
             /\ table'[r] = table[r]
  <2>1. table' = table
    BY <1>7 DEF StartIBGP
  <2>2. fwd' = fwd \/ \E g : fwd' = [fwd EXCEPT ![r] = g]
    BY <1>7 DEF StartIBGP
  <2>3. fwd' = [fwd EXCEPT ![r] = fwd'[r]]
    BY <1>1, <2>2
  <2> QED
    BY <1>1, <2>1, <2>3
<1>8. ASSUME NEW r \in Router, UpdateOSPF(r) PROVE table' = table /\ fwd' = fwd
  BY <1>8 DEF UpdateOSPF, routes
<1>9. ASSUME NEW r \in Router, UpdateForwarding(r) \/ UpdateRIP(r)
      PROVE  \/ table' = table /\ fwd' = fwd
             \/ Turning(r)
  <2>1. ~crashed
    BY <1>9 DEF UpdateForwarding, UpdateRIP, Turn, Called
  <2> QED
    BY <1>9, <2>1 DEF UpdateForwarding, UpdateRIP, Turning
<1> QED
  BY <1>2, <1>3, <1>4, <1>5, <1>6, <1>7, <1>8, <1>9, MergeHeard DEF Next, RouterThread

LEMMA TablesMerged ==
  ASSUME Typed, NEW r \in Router, NEW new, Merged(r, new)
  PROVE  /\ IsTable(table'[r]) /\ r \notin DOMAIN table'[r]
         /\ DOMAIN table'[r] = DOMAIN table[r] \cup Improved(r, table[r], new)
         /\ DOMAIN fwd'[r] = DOMAIN fwd[r] \cup Improved(r, table[r], new)
         /\ fwd'[r] \in [DOMAIN fwd'[r] -> Neighbours(r)]
         /\ Improved(r, table[r], new) \subseteq Node \ {r}
         /\ \A k \in DOMAIN new \ {r} : k \in DOMAIN table'[r]
         /\ \A k \in DOMAIN fwd'[r] :
              fwd'[r][k] = IF k \in Improved(r, table[r], new) THEN Far(r) ELSE fwd[r][k]
<1>1. Far(r) \in Neighbours(r) /\ IsTable(new)
  BY FarEnd DEF Merged
<1>2. /\ IsTable(table[r]) /\ r \notin DOMAIN table[r]
      /\ fwd[r] \in [DOMAIN fwd[r] -> Neighbours(r)] /\ DOMAIN fwd[r] \subseteq Node
  BY DEF Typed, Tables
<1>3. table'[r] = MergeCosts(r, table[r], new) /\ fwd'[r] = MergePorts(r, table[r], fwd[r], new, Far(r))
  BY DEF Merged
<1> DEFINE s == table[r]
           f == fwd[r]
           m == Far(r)
           I == Improved(r, s, new)
<1> HIDE DEF s, f, m
<1>4. /\ m \in Neighbours(r) /\ IsTable(new) /\ IsTable(s) /\ r \notin DOMAIN s
      /\ \A k \in DOMAIN f : f[k] \in Neighbours(r)
  BY <1>1, <1>2 DEF s, f, m
<1>5. I \subseteq Node \ {r} /\ \A k \in DOMAIN new \ {r} : k \in DOMAIN s \cup I
  BY <1>4 DEF Improved, IsTable
<1>6. \A k \in I : new[k] + 1 \in Cost
  BY <1>4 DEF Improved, IsTable, Cost
<1> HIDE DEF I
<1>7. table'[r] = [k \in DOMAIN s \cup I |-> IF k \in I THEN new[k] + 1 ELSE s[k]]
  BY <1>3 DEF MergeCosts, I, s
<1>8. fwd'[r] = [k \in DOMAIN f \cup I |-> IF k \in I THEN m ELSE f[k]]
  BY <1>3 DEF MergePorts, I, s, f, m
<1>9. IsTable(table'[r]) /\ r \notin DOMAIN table'[r] /\ DOMAIN table'[r] = DOMAIN s \cup I
  BY <1>4, <1>5, <1>6, <1>7 DEF IsTable
<1>10. /\ DOMAIN fwd'[r] = DOMAIN f \cup I
       /\ fwd'[r] \in [DOMAIN fwd'[r] -> Neighbours(r)]
       /\ \A k \in DOMAIN fwd'[r] : fwd'[r][k] = IF k \in I THEN m ELSE f[k]
  BY <1>4, <1>8
<1> QED
  BY <1>5, <1>9, <1>10 DEF I, s, f, m

(* startIBGP in a router that did no eBGP: what is foreign goes to the     *)
(* exit's port, if there is one.                                           *)
LEMMA ExitTaken ==
  ASSUME Typed, NEW r \in Router, StartIBGP(r), ~iseBGP[r]
  PROVE  /\ Exit(r) \in Range(Edges) /\ Exit(r) \in Router /\ asID[Exit(r)] = asID[r]
         /\ DOMAIN fwd'[r] = (DOMAIN fwd[r] \ Foreign(r))
                               \cup (IF Exit(r) \in DOMAIN fwd[r] THEN Foreign(r) ELSE {})
         /\ \A k \in DOMAIN fwd'[r] :
              fwd'[r][k] = IF k \in Foreign(r) THEN fwd[r][Exit(r)] ELSE fwd[r][k]
         /\ \A k \in DOMAIN fwd'[r] \cap Foreign(r) : Exit(r) \in DOMAIN fwd[r]
<1>1. Exit(r) \in Range(Edges) /\ Exit(r) \in Router /\ asID[Exit(r)] = asID[r]
  BY ExitIsEdge DEF Typed, Tables
<1> DEFINE known == DOMAIN fwd[r] \ Foreign(r)
           via   == IF Exit(r) \in DOMAIN fwd[r] THEN Foreign(r) ELSE {}
<1>2. fwd'[r] = [k \in known \cup via |-> IF k \in Foreign(r) THEN fwd[r][Exit(r)] ELSE fwd[r][k]]
  BY DEF StartIBGP, Typed, Tables
<1> QED
  BY <1>1, <1>2

LEMMA TablesKept ==
  ASSUME Typed, [Next]_vars
  PROVE  Tables'
<1>1. CASE table' = table /\ fwd' = fwd
  BY <1>1 DEF Typed, Tables
<1>2. ASSUME NEW r \in Router,
             table' = [table EXCEPT ![r] = table'[r]], fwd' = [fwd EXCEPT ![r] = fwd'[r]],
             IsTable(table'[r]), r \notin DOMAIN table'[r],
             fwd'[r] \in [DOMAIN fwd'[r] -> Neighbours(r)], DOMAIN fwd'[r] \subseteq Node
      PROVE  Tables'
  <2>1. table' = [q \in Router |-> table'[q]] /\ fwd' = [q \in Router |-> fwd'[q]]
    BY <1>2 DEF Typed, Tables
  <2>2. \A q \in Router \ {r} : table'[q] = table[q] /\ fwd'[q] = fwd[q]
    BY <1>2 DEF Typed, Tables
  <2> QED
    BY <1>2, <2>1, <2>2 DEF Typed, Tables
<1>3. ASSUME NEW r \in Router,
             table' = [table EXCEPT ![r] = table'[r]], fwd' = [fwd EXCEPT ![r] = fwd'[r]],
             table'[r] = InAS[r], fwd'[r] = fwd[r]
      PROVE  Tables'
  BY <1>2, <1>3, InASTables DEF Typed, Tables
<1>4. ASSUME NEW r \in Router,
             table' = [table EXCEPT ![r] = table'[r]], fwd' = [fwd EXCEPT ![r] = fwd'[r]],
             StartIBGP(r), table'[r] = table[r]
      PROVE  Tables'
  <2>1. fwd[r] \in [DOMAIN fwd[r] -> Neighbours(r)] /\ DOMAIN fwd[r] \subseteq Node
    BY DEF Typed, Tables
  <2>2. CASE iseBGP[r]
    BY <1>1, <1>2, <1>4, <2>1, <2>2 DEF StartIBGP, Typed, Tables
  <2>3. CASE ~iseBGP[r]
    <3>1. DOMAIN fwd'[r] \subseteq Node
      BY <1>4, <2>1, <2>3, ExitTaken DEF Foreign
    <3>2. \A k \in DOMAIN fwd'[r] : fwd'[r][k] \in Neighbours(r)
      BY <1>4, <2>1, <2>3, ExitTaken
    <3>3. fwd'[r] = [k \in DOMAIN fwd'[r] |-> fwd'[r][k]]
      BY <1>4, <2>3 DEF StartIBGP, Typed, Tables
    <3> HIDE DEF Tables
    <3>4. fwd'[r] \in [DOMAIN fwd'[r] -> Neighbours(r)]
      BY <3>2, <3>3
    <3>5. IsTable(table'[r]) /\ r \notin DOMAIN table'[r]
      BY <1>4 DEF Typed, Tables
    <3> QED
      BY <1>2, <1>4, <3>1, <3>4, <3>5
  <2> QED
    BY <2>2, <2>3
<1>5. ASSUME NEW r \in Router,
             table' = [table EXCEPT ![r] = table'[r]], fwd' = [fwd EXCEPT ![r] = fwd'[r]],
             NEW new, Merged(r, new)
      PROVE  Tables'
  <2>1. DOMAIN fwd[r] \subseteq Node
    BY DEF Typed, Tables
  <2> QED
    BY <1>2, <1>5, <2>1, TablesMerged
<1> QED
  BY <1>1, <1>3, <1>4, <1>5, TableStep

-----------------------------------------------------------------------------
(* Calls in a queue.                                                       *)
LEMMA Longer ==
  ASSUME NEW T, NEW s \in Seq(T), NEW u \in Seq(T), NEW x, NEW y
  PROVE  /\ Holds(s \o u, x) <=> Holds(s, x) \/ Holds(u, x)
         /\ Ahead(s, x, y) => Ahead(s \o u, x, y)
         /\ ~Holds(s, y) /\ Ahead(u, x, y) => Ahead(s \o u, x, y)
<1>1. /\ Len(s) \in Nat /\ Len(u) \in Nat /\ DOMAIN s = 1..Len(s) /\ DOMAIN u = 1..Len(u)
      /\ DOMAIN (s \o u) = 1..(Len(s) + Len(u))
      /\ \A i \in 1..(Len(s) + Len(u)) : (s \o u)[i] = IF i <= Len(s) THEN s[i] ELSE u[i - Len(s)]
  BY ConcatProperties, LenProperties
<1>2. \A i \in DOMAIN s : i \in DOMAIN (s \o u) /\ (s \o u)[i] = s[i]
  BY <1>1
<1>3. \A i \in DOMAIN u : Len(s) + i \in DOMAIN (s \o u) /\ (s \o u)[Len(s) + i] = u[i]
  BY <1>1
<1>4. \A i \in DOMAIN (s \o u) :
        \/ i \in DOMAIN s
        \/ i - Len(s) \in DOMAIN u /\ (s \o u)[i] = u[i - Len(s)]
  BY <1>1
<1>5. Holds(s \o u, x) <=> Holds(s, x) \/ Holds(u, x)
  BY <1>2, <1>3, <1>4 DEF Holds
<1>6. Ahead(s, x, y) => Ahead(s \o u, x, y)
  <2> SUFFICES ASSUME NEW i \in DOMAIN s, s[i] = x, \A j \in 1..i : s[j] # y
               PROVE  Ahead(s \o u, x, y)
    BY DEF Ahead
  <2>1. \A j \in 1..i : j \in DOMAIN s
    BY <1>1
  <2> QED
    BY <1>2, <2>1 DEF Ahead
<1>7. ASSUME ~Holds(s, y), Ahead(u, x, y)
      PROVE  Ahead(s \o u, x, y)
  <2>1. PICK i \in DOMAIN u : u[i] = x /\ \A j \in 1..i : u[j] # y
    BY <1>7 DEF Ahead
  <2>2. Len(s) + i \in DOMAIN (s \o u) /\ (s \o u)[Len(s) + i] = x
    BY <1>3, <2>1
  <2>3. ASSUME NEW j \in 1..(Len(s) + i) PROVE (s \o u)[j] # y
    <3>1. j \in DOMAIN s \/ (j - Len(s) \in 1..i /\ (s \o u)[j] = u[j - Len(s)])
      BY <1>1
    <3> QED
      BY <1>2, <1>7, <2>1, <3>1 DEF Holds
  <2> QED
    BY <2>2, <2>3 DEF Ahead
<1> QED
  BY <1>5, <1>6, <1>7

LEMMA Shorter ==
  ASSUME NEW T, NEW s \in Seq(T), s # <<>>, NEW x, NEW y
  PROVE  /\ Holds(s, x) <=> Head(s) = x \/ Holds(Tail(s), x)
         /\ Ahead(s, x, y) /\ Head(s) # x => Head(s) # y /\ Ahead(Tail(s), x, y)
<1>1. /\ Len(s) \in Nat \ {0} /\ DOMAIN s = 1..Len(s) /\ Head(s) = s[1]
      /\ Tail(s) \in Seq(T) /\ DOMAIN Tail(s) = 1..(Len(s) - 1)
      /\ \A i \in 1..(Len(s) - 1) : Tail(s)[i] = s[i + 1]
  BY HeadTailProperties, LenProperties, EmptySeq
<1>2. 1 \in DOMAIN s
  BY <1>1
<1>3. \A i \in DOMAIN Tail(s) : i + 1 \in DOMAIN s /\ Tail(s)[i] = s[i + 1]
  BY <1>1
<1>4. \A i \in DOMAIN s : i = 1 \/ (i - 1 \in DOMAIN Tail(s) /\ Tail(s)[i - 1] = s[i])
  BY <1>1
<1>5. Holds(s, x) <=> Head(s) = x \/ Holds(Tail(s), x)
  BY <1>1, <1>2, <1>3, <1>4 DEF Holds
<1>6. ASSUME Ahead(s, x, y), Head(s) # x
      PROVE  Head(s) # y /\ Ahead(Tail(s), x, y)
  <2>1. PICK i \in DOMAIN s : s[i] = x /\ \A j \in 1..i : s[j] # y
    BY <1>6 DEF Ahead
  <2>2. i # 1 /\ 1 \in 1..i
    BY <1>1, <1>6, <2>1
  <2>3. i - 1 \in DOMAIN Tail(s) /\ Tail(s)[i - 1] = x
    BY <1>4, <2>1, <2>2
  <2>4. \A j \in 1..(i - 1) : Tail(s)[j] # y
    <3>1. \A j \in 1..(i - 1) : j \in DOMAIN Tail(s) /\ j + 1 \in 1..i
      BY <1>1, <2>1
    <3> QED
      BY <1>3, <2>1, <3>1
  <2> QED
    BY <1>1, <2>1, <2>2, <2>3, <2>4 DEF Ahead
<1> QED
  BY <1>5, <1>6

LEMMA ShortQueues ==
  /\ Off # EBGP /\ Off # IBGP /\ EBGP # IBGP /\ Update \notin {Off, EBGP, IBGP}
  /\ \A x, e : Holds(<<e>>, x) <=> x = e
  /\ \A x, e, f : Holds(<<e, f>>, x) <=> x = e \/ x = f
  /\ \A x, e, f : x # e => Ahead(<<e, f>>, e, x) /\ Ahead(<<e>>, e, x)
  /\ \A x, e, f : x # e /\ x # f => Ahead(<<e, f>>, f, x)
<1>1. ASSUME NEW x, NEW e PROVE Holds(<<e>>, x) <=> x = e
  <2>1. DOMAIN <<e>> = {1} /\ <<e>>[1] = e
    OBVIOUS
  <2> QED
    BY <2>1 DEF Holds
<1>2. ASSUME NEW e, NEW f PROVE DOMAIN <<e, f>> = {1, 2} /\ <<e, f>>[1] = e /\ <<e, f>>[2] = f
  OBVIOUS
<1>3. \A x, e, f : Holds(<<e, f>>, x) <=> x = e \/ x = f
  BY <1>2 DEF Holds
<1>4. ASSUME NEW x, NEW e, NEW f, x # e PROVE Ahead(<<e, f>>, e, x) /\ Ahead(<<e>>, e, x)
  <2>1. 1..1 = {1} /\ DOMAIN <<e>> = {1} /\ <<e>>[1] = e
    OBVIOUS
  <2> QED
    BY <1>2, <1>4, <2>1 DEF Ahead
<1>5. ASSUME NEW x, NEW e, NEW f, x # e, x # f PROVE Ahead(<<e, f>>, f, x)
  <2>1. 1..2 = {1, 2}
    OBVIOUS
  <2> QED
    BY <1>2, <1>5, <2>1 DEF Ahead
<1> QED
  BY <1>1, <1>3, <1>4, <1>5 DEF Off, EBGP, IBGP, Update

-----------------------------------------------------------------------------
(* What one step does to the calls that wait for a thread: main posts, or  *)
(* the thread takes the oldest.                                            *)
Took(n) ==
  \/ n \in Router /\ Head(calls[n]) = Off /\ TurnOffProtocols(n)
  \/ n \in Router /\ Head(calls[n]) = EBGP /\ StartEBGP(n)
  \/ n \in Router /\ Head(calls[n]) = IBGP /\ StartIBGP(n)
  \/ n \in PC /\ StartPCs(n)
  \/ Head(calls[n]) = Update

CallIn(n) ==
  \/ calls'[n] = calls[n]
  \/ calls[n] # <<>> /\ calls'[n] = Tail(calls[n]) /\ Took(n)

LEMMA CalledTakes ==
  ASSUME Typed, NEW n \in Node, NEW c, Called(n, c)
  PROVE  /\ calls' = [calls EXCEPT ![n] = Tail(@)] /\ calls[n] # <<>> /\ Head(calls[n]) = c
         /\ calls'[n] = Tail(calls[n]) /\ \A m \in Node \ {n} : calls'[m] = calls[m]
BY DEF Called, Typed, Control

LEMMA TurnTakes ==
  ASSUME Typed, NEW r \in Router, Turn(r)
  PROVE  /\ calls'[r] = calls[r] \/ (calls[r] # <<>> /\ Head(calls[r]) = Update /\ calls'[r] = Tail(calls[r]))
         /\ \A m \in Node \ {r} : calls'[m] = calls[m]
<1>1. r \in Node
  BY Ends
<1> QED
  BY <1>1, CalledTakes DEF Turn

LEMMA OrdersAreSequences ==
  ASSUME NEW p \in PC, NEW s \in Orders(p)
  PROVE  s \in Seq(Packets)
<1> DEFINE H == {h \in Packets : Src[h] = p}
<1>1. IsFiniteSet(H)
  BY InterASAssumption, FS_Subset
<1>2. Cardinality(H) \in Nat
  BY <1>1, FS_CardinalityType
<1>3. s \in [1..Cardinality(H) -> Packets]
  BY DEF Orders
<1> HIDE DEF H
<1> QED
  BY <1>2, <1>3

LEMMA CallStep ==
  ASSUME Typed, [Next]_vars
  PROVE  \/ \A n \in Node : CallIn(n)
         \/ PostUpdate /\ \A n \in Node : calls'[n] = calls[n] \o <<Update>>
         \/ PostEBGP /\ \A r \in Router : calls'[r] = calls[r] \o
                          (IF r \in Range(Edges) THEN <<Off, EBGP>> ELSE <<Off>>)
         \/ PostIBGP /\ \A r \in Router : calls'[r] = calls[r] \o <<IBGP>>
         \/ PostPackets /\ \A r \in Router : calls'[r] = calls[r]
<1>1. calls \in [Node -> Seq(Slots \cup Packets)]
  BY DEF Typed, Control
<1>2. Router \subseteq Node /\ PC \subseteq Node /\ Router \cap PC = {}
  BY Ends
<1>3. \A n \in Node : \A e : Append(calls[n], e) = calls[n] \o <<e>>
  BY <1>1
<1>4. CASE UNCHANGED vars
  BY <1>4 DEF vars, CallIn
<1>5. ASSUME PostUpdate PROVE \A n \in Node : calls'[n] = calls[n] \o <<Update>>
  BY <1>3, <1>5 DEF PostUpdate
<1>6. ASSUME PostEBGP
      PROVE  \A r \in Router : calls'[r] = calls[r] \o
                          (IF r \in Range(Edges) THEN <<Off, EBGP>> ELSE <<Off>>)
  <2>1. \A n \in Node : calls'[n] = calls[n] \o
                 CASE n \in Range(Edges) -> <<Off, EBGP>>
                   [] n \in Router \ Range(Edges) -> <<Off>>
                   [] n \in PC -> <<>>
    BY <1>6 DEF PostEBGP
  <2> SUFFICES ASSUME NEW r \in Router
               PROVE  calls'[r] = calls[r] \o (IF r \in Range(Edges) THEN <<Off, EBGP>> ELSE <<Off>>)
    OBVIOUS
  <2>2. CASE r \in Range(Edges)
    BY <1>2, <2>1, <2>2
  <2>3. CASE r \notin Range(Edges)
    BY <1>2, <2>1, <2>3
  <2> QED
    BY <2>2, <2>3
<1>7. ASSUME PostIBGP PROVE \A r \in Router : calls'[r] = calls[r] \o <<IBGP>>
  BY <1>2, <1>3, <1>7 DEF PostIBGP
<1>8. ASSUME PostPackets PROVE \A r \in Router : calls'[r] = calls[r]
  <2>1. PICK order : calls' = [n \in Node |-> IF n \in PC THEN calls[n] \o order[n] ELSE calls[n]]
    BY <1>8 DEF PostPackets
  <2> QED
    BY <1>2, <2>1
<1>9. ASSUME NEW r \in Router, RouterThread(r)
      PROVE  \A n \in Node : CallIn(n)
  <2> SUFFICES ASSUME NEW n \in Node PROVE CallIn(n)
    OBVIOUS
  <2>1. CASE TurnOffProtocols(r)
    <3>1. Called(r, Off)
      BY <2>1 DEF TurnOffProtocols
    <3> QED
      BY <1>2, <2>1, <3>1, CalledTakes DEF CallIn, Took
  <2>2. CASE StartEBGP(r)
    <3>1. Called(r, EBGP)
      BY <2>2 DEF StartEBGP
    <3> QED
      BY <1>2, <2>2, <3>1, CalledTakes DEF CallIn, Took
  <2>3. CASE StartIBGP(r)
    <3>1. Called(r, IBGP)
      BY <2>3 DEF StartIBGP
    <3> QED
      BY <1>2, <2>3, <3>1, CalledTakes DEF CallIn, Took
  <2>4. CASE UpdateForwarding(r) \/ UpdateRIP(r) \/ UpdateOSPF(r)
    <3>1. Turn(r)
      BY <2>4 DEF UpdateForwarding, UpdateRIP, UpdateOSPF
    <3> QED
      BY <3>1, TurnTakes DEF CallIn, Took
  <2> QED
    BY <1>9, <2>1, <2>2, <2>3, <2>4 DEF RouterThread
<1>10. ASSUME NEW p \in PC, PCThread(p)
       PROVE  \A n \in Node : CallIn(n)
  <2> SUFFICES ASSUME NEW n \in Node PROVE CallIn(n)
    OBVIOUS
  <2>1. CASE StartPCs(p)
    <3>1. PICK packet \in Packets : Called(p, packet)
      BY <2>1 DEF StartPCs
    <3> QED
      BY <1>2, <2>1, <3>1, CalledTakes DEF CallIn, Took
  <2>2. CASE UpdatePC(p)
    <3>1. Called(p, Update)
      BY <2>2 DEF UpdatePC
    <3> QED
      BY <1>2, <2>2, <3>1, CalledTakes DEF CallIn, Took
  <2> QED
    BY <1>10, <2>1, <2>2 DEF PCThread
<1> QED
  BY <1>4, <1>5, <1>6, <1>7, <1>8, <1>9, <1>10 DEF Next, Main

LEMMA PhaseStep ==
  ASSUME [Next]_vars
  PROVE  \/ phase' = phase
         \/ PostEBGP /\ phase = EBGP /\ phase' = IBGP
         \/ PostIBGP /\ phase = IBGP /\ phase' = "send"
         \/ PostPackets /\ phase = "send" /\ phase' = "done"
<1>1. CASE UNCHANGED vars
  BY <1>1 DEF vars
<1>2. CASE Main
  BY <1>2 DEF Main, PostUpdate, PostEBGP, PostIBGP, PostPackets
<1>3. ASSUME NEW r \in Router, RouterThread(r) PROVE phase' = phase
  BY <1>3 DEF RouterThread, TurnOffProtocols, StartEBGP, StartIBGP, UpdateForwarding, UpdateRIP, UpdateOSPF
<1>4. ASSUME NEW p \in PC, PCThread(p) PROVE phase' = phase
  BY <1>4 DEF PCThread, StartPCs, UpdatePC
<1> QED
  BY <1>1, <1>2, <1>3, <1>4 DEF Next

-----------------------------------------------------------------------------
(* What one step does to a port's buffer: its thread takes the oldest      *)
(* message, or the far end sends one.                                      *)
Taken(n, m) ==
  \/ n \in PC /\ UpdatePC(n)
  \/ n \in Router /\ m = Far(n) /\ (UpdateForwarding(n) \/ UpdateRIP(n) \/ UpdateOSPF(n))

Sent(n, m, msg) ==
  \/ /\ m \in PC /\ n = Link(m) /\ StartPCs(m)
     /\ \E packet \in Packets : msg = [type |-> "M", packet |-> packet, path |-> <<>>]
  \/ /\ m \in Router /\ StartEBGP(m) /\ Head(calls[m]) = EBGP
     /\ n \in Neighbours(m) \ Mates(m) /\ msg = [type |-> "E", table |-> table[m]]
  \/ /\ m \in Router /\ UpdateRIP(m) /\ n \in Mates(m) /\ msg = [type |-> "P", table |-> table'[m]]
  \/ /\ m \in Router /\ ~on[m] /\ UpdateForwarding(m) /\ ~Nothing(m) /\ Front(m).type = "M"
     /\ Dst[Front(m).packet] \in DOMAIN fwd[m] /\ n = fwd[m][Dst[Front(m).packet]]
     /\ msg = [Front(m) EXCEPT !.path = Append(@, m)]

BoxIn(n, m) ==
  \/ buffer'[n][m] = buffer[n][m]
  \/ buffer[n][m] # <<>> /\ buffer'[n][m] = Tail(buffer[n][m]) /\ Taken(n, m)
  \/ \E msg : buffer'[n][m] = Append(buffer[n][m], msg) /\ Sent(n, m, msg)

BoxesIn == Boxes(buffer') /\ \A n \in Node : \A m \in Links(n) : BoxIn(n, m)

LEMMA UntouchedBoxes ==
  ASSUME Typed, buffer' = buffer
  PROVE  BoxesIn
BY DEF Typed, Messages, BoxesIn, BoxIn

LEMMA PackedBoxes ==
  ASSUME Typed, NEW p \in PC, StartPCs(p) \/ UpdatePC(p)
  PROVE  BoxesIn
<1>1. Boxes(buffer) /\ p \in Node /\ Link(p) \in Node /\ p \in Links(Link(p)) /\ Link(p) \in Links(p)
  BY Ends DEF Typed, Messages
<1>2. CASE StartPCs(p)
  <2>1. PICK packet \in Packets :
          buffer' = Push(buffer, p, Link(p), [type |-> "M", packet |-> packet, path |-> <<>>])
    BY <1>2 DEF StartPCs
  <2> DEFINE msg == [type |-> "M", packet |-> packet, path |-> <<>>]
  <2>2. /\ Boxes(buffer')
        /\ \A x \in Node : \A y \in Links(x) :
             buffer'[x][y] = IF x = Link(p) /\ y = p THEN Append(buffer[x][y], msg) ELSE buffer[x][y]
    <3> HIDE DEF msg
    <3>1. buffer' = Push(buffer, p, Link(p), msg)
      BY <2>1 DEF msg
    <3> QED
      BY <1>1, <3>1, PushBoxes
  <2>3. Sent(Link(p), p, msg)
    BY <1>2 DEF Sent
  <2> HIDE DEF msg
  <2> QED
    BY <2>2, <2>3 DEF BoxesIn, BoxIn
<1>3. CASE UpdatePC(p)
  <2>1. CASE buffer[p][Link(p)] = <<>>
    BY <1>3, <2>1, UntouchedBoxes DEF UpdatePC
  <2>2. CASE buffer[p][Link(p)] # <<>>
    <3>1. buffer' = [buffer EXCEPT ![p][Link(p)] = Tail(@)]
      BY <1>3, <2>2 DEF UpdatePC
    <3>2. /\ Boxes(buffer')
          /\ \A x \in Node : \A y \in Links(x) :
               buffer'[x][y] = IF x = p /\ y = Link(p) THEN Tail(buffer[x][y]) ELSE buffer[x][y]
      <4> DEFINE l == Link(p)
                 rest == [buffer EXCEPT ![p][l] = Tail(@)]
      <4>1. l \in Links(p) /\ buffer[p][l] # <<>> /\ p \in Node /\ Boxes(buffer)
        BY <1>1, <2>2
      <4> HIDE DEF l
      <4>2. /\ Boxes(rest)
            /\ \A x \in Node : \A y \in Links(x) :
                 rest[x][y] = IF x = p /\ y = l THEN Tail(buffer[x][y]) ELSE buffer[x][y]
        BY <4>1, PopBoxes
      <4> QED
        BY <3>1, <4>2 DEF l
    <3>3. Taken(p, Link(p))
      BY <1>3 DEF Taken
    <3> QED
      BY <2>2, <3>2, <3>3 DEF BoxesIn, BoxIn
  <2> QED
    BY <2>1, <2>2
<1> QED
  BY <1>2, <1>3

LEMMA RestBoxes ==
  ASSUME Typed, NEW r \in Router, ~Nothing(r),
         UpdateForwarding(r) \/ UpdateRIP(r) \/ UpdateOSPF(r)
  PROVE  /\ Boxes(Rest(r))
         /\ \A x \in Node : \A y \in Links(x) :
              \/ Rest(r)[x][y] = buffer[x][y]
              \/ /\ x = r /\ y = Far(r) /\ buffer[x][y] # <<>> /\ Rest(r)[x][y] = Tail(buffer[x][y])
                 /\ Taken(x, y)
<1>1. Boxes(buffer) /\ r \in Node /\ Far(r) \in Links(r) /\ buffer[r][Far(r)] # <<>>
  BY FarEnd DEF Typed, Messages, Nothing
<1>2. /\ Boxes(Rest(r))
      /\ \A x \in Node : \A y \in Links(x) :
           Rest(r)[x][y] = IF x = r /\ y = Far(r) THEN Tail(buffer[x][y]) ELSE buffer[x][y]
  BY <1>1, PopBoxes DEF Rest
<1>3. Taken(r, Far(r))
  BY DEF Taken
<1> QED
  BY <1>1, <1>2, <1>3

Rests(r, rest) ==
  /\ Boxes(rest)
  /\ \A x \in Node : \A y \in Links(x) :
       \/ rest[x][y] = buffer[x][y]
       \/ x = r /\ buffer[x][y] # <<>> /\ rest[x][y] = Tail(buffer[x][y]) /\ Taken(x, y)

LEMMA SentBoxes ==
  ASSUME Typed, NEW r \in Router, NEW rest, Rests(r, rest)
  PROVE  /\ buffer' = rest => BoxesIn
         /\ \A S \in SUBSET Neighbours(r) : \A msg :
              buffer' = PushAll(rest, r, S, msg) /\ (\A n \in S : Sent(n, r, msg)) => BoxesIn
         /\ \A to \in Neighbours(r) : \A msg :
              buffer' = Push(rest, r, to, msg) /\ Sent(to, r, msg) => BoxesIn
<1>1. r \in Node /\ r \notin Neighbours(r) /\ \A n \in Neighbours(r) : n \in Node /\ r \in Links(n)
  BY Ends
<1>2. buffer' = rest => BoxesIn
  BY DEF Rests, BoxesIn, BoxIn
<1>3. ASSUME NEW S \in SUBSET Neighbours(r), NEW msg,
             buffer' = PushAll(rest, r, S, msg), \A n \in S : Sent(n, r, msg)
      PROVE  BoxesIn
  <2>1. /\ Boxes(buffer')
        /\ \A x \in Node : \A y \in Links(x) :
             buffer'[x][y] = IF x \in S /\ y = r THEN Append(rest[x][y], msg) ELSE rest[x][y]
    BY <1>3, PushAllBoxes DEF Rests
  <2> SUFFICES ASSUME NEW x \in Node, NEW y \in Links(x) PROVE BoxIn(x, y)
    BY <2>1 DEF BoxesIn
  <2>2. CASE x \in S /\ y = r
    <3>1. x # r /\ rest[x][y] = buffer[x][y]
      BY <1>1, <2>2 DEF Rests
    <3> QED
      BY <1>3, <2>1, <2>2, <3>1 DEF BoxIn
  <2>3. CASE ~(x \in S /\ y = r)
    BY <2>1, <2>3 DEF BoxIn, Rests
  <2> QED
    BY <2>2, <2>3
<1>4. ASSUME NEW to \in Neighbours(r), NEW msg,
             buffer' = Push(rest, r, to, msg), Sent(to, r, msg)
      PROVE  BoxesIn
  <2>1. /\ Boxes(buffer')
        /\ \A x \in Node : \A y \in Links(x) :
             buffer'[x][y] = IF x = to /\ y = r THEN Append(rest[x][y], msg) ELSE rest[x][y]
    BY <1>1, <1>4, PushBoxes DEF Rests
  <2> SUFFICES ASSUME NEW x \in Node, NEW y \in Links(x) PROVE BoxIn(x, y)
    BY <2>1 DEF BoxesIn
  <2>2. CASE x = to /\ y = r
    <3>1. x # r /\ rest[x][y] = buffer[x][y]
      BY <1>1, <2>2 DEF Rests
    <3> QED
      BY <1>4, <2>1, <2>2, <3>1 DEF BoxIn
  <2>3. CASE ~(x = to /\ y = r)
    BY <2>1, <2>3 DEF BoxIn, Rests
  <2> QED
    BY <2>2, <2>3
<1> QED
  BY <1>2, <1>3, <1>4

LEMMA RoutedBoxes ==
  ASSUME Typed, NEW r \in Router, UpdateForwarding(r) \/ UpdateRIP(r) \/ UpdateOSPF(r)
  PROVE  BoxesIn
<1>1. Rests(r, buffer) /\ (~Nothing(r) => Rests(r, Rest(r)))
  <2>1. Rests(r, buffer)
    BY DEF Rests, Typed, Messages
  <2>2. ~Nothing(r) => Rests(r, Rest(r))
    BY RestBoxes DEF Rests
  <2> QED
    BY <2>1, <2>2
<1>2. CASE UpdateForwarding(r)
  <2>1. CASE buffer' = buffer \/ (~Nothing(r) /\ buffer' = Rest(r))
    BY <1>1, <2>1, SentBoxes
  <2>2. CASE ~Nothing(r) /\ Front(r).type = "M" /\ Forward(r, Front(r)) /\ buffer' # Rest(r)
    <3> DEFINE k   == Dst[Front(r).packet]
               to  == fwd[r][k]
               msg == [Front(r) EXCEPT !.path = Append(@, r)]
    <3>1. k \in DOMAIN fwd[r] /\ buffer' = Push(Rest(r), r, to, msg)
      BY <2>2 DEF Forward
    <3>2. to \in Neighbours(r)
      BY <3>1 DEF Typed, Tables
    <3>3. ~on[r] /\ UpdateForwarding(r)
      BY <1>2 DEF UpdateForwarding
    <3>4. Sent(to, r, msg)
      BY <2>2, <3>1, <3>3 DEF Sent
    <3> HIDE DEF msg, to, k
    <3> QED
      BY <1>1, <2>2, <3>1, <3>2, <3>4, SentBoxes
  <2> QED
    BY <1>2, <2>1, <2>2 DEF UpdateForwarding
<1>3. CASE UpdateRIP(r)
  <2>1. PICK rest \in {buffer, Rest(r)} : Rests(r, rest) /\ EndRIP(r, rest)
    BY <1>1, <1>3 DEF UpdateRIP
  <2> DEFINE msg == [type |-> "P", table |-> table'[r]]
  <2>2. buffer' = rest \/ buffer' = PushAll(rest, r, Mates(r), msg)
    BY <2>1 DEF EndRIP
  <2>3. \A n \in Mates(r) : Sent(n, r, msg)
    BY <1>3 DEF Sent
  <2>4. Mates(r) \subseteq Neighbours(r)
    BY Ends
  <2> HIDE DEF msg
  <2> QED
    BY <2>1, <2>2, <2>3, <2>4, SentBoxes
<1>4. CASE UpdateOSPF(r)
  <2>1. buffer' = buffer \/ (~Nothing(r) /\ buffer' = Rest(r))
    BY <1>4 DEF UpdateOSPF
  <2> QED
    BY <1>1, <2>1, SentBoxes
<1> QED
  BY <1>2, <1>3, <1>4

LEMMA BoxStep ==
  ASSUME Typed, [Next]_vars
  PROVE  BoxesIn
<1>1. CASE UNCHANGED vars
  BY <1>1, UntouchedBoxes DEF vars
<1>2. CASE Main
  BY <1>2, UntouchedBoxes DEF Main, PostUpdate, PostEBGP, PostIBGP, PostPackets
<1>3. ASSUME NEW r \in Router, TurnOffProtocols(r) \/ StartIBGP(r) PROVE BoxesIn
  BY <1>3, UntouchedBoxes DEF TurnOffProtocols, StartIBGP
<1>4. ASSUME NEW r \in Router, StartEBGP(r) PROVE BoxesIn
  <2> DEFINE msg == [type |-> "E", table |-> table[r]]
  <2>1. buffer' = PushAll(buffer, r, Neighbours(r) \ Mates(r), msg) /\ Head(calls[r]) = EBGP
    BY <1>4 DEF StartEBGP, Called
  <2>2. \A n \in Neighbours(r) \ Mates(r) : Sent(n, r, msg)
    BY <1>4, <2>1 DEF Sent
  <2>3. Rests(r, buffer)
    BY DEF Rests, Typed, Messages
  <2>4. Neighbours(r) \ Mates(r) \in SUBSET Neighbours(r)
    OBVIOUS
  <2> HIDE DEF msg
  <2> QED
    BY <2>1, <2>2, <2>3, <2>4, SentBoxes
<1> QED
  BY <1>1, <1>2, <1>3, <1>4, RoutedBoxes, PackedBoxes DEF Next, RouterThread, PCThread

LEMMA Heard ==
  ASSUME Typed, [Next]_vars, NEW n \in Node, NEW m \in Links(n), NEW msg \in Range(buffer'[n][m])
  PROVE  msg \in Range(buffer[n][m]) \/ Sent(n, m, msg)
<1>1. Queue(buffer[n][m])
  BY DEF Typed, Messages, Boxes
<1>2. BoxIn(n, m)
  BY BoxStep DEF BoxesIn
<1>3. CASE buffer[n][m] # <<>> /\ buffer'[n][m] = Tail(buffer[n][m])
  BY <1>1, <1>3, QueueTail
<1>4. ASSUME NEW e, buffer'[n][m] = Append(buffer[n][m], e), Sent(n, m, e)
      PROVE  msg \in Range(buffer[n][m]) \/ Sent(n, m, msg)
  BY <1>1, <1>4, QueueAppend
<1> QED
  BY <1>2, <1>3, <1>4 DEF BoxIn

LEMMA Forwarded ==
  ASSUME Typed, NEW r \in Router, ~Nothing(r), Front(r).type = "M"
  PROVE  /\ Front(r) \in [type : {"M"}, packet : Packets, path : Seq(Router)]
         /\ [Front(r) EXCEPT !.path = Append(@, r)]
              \in [type : {"M"}, packet : Packets, path : Seq(Router)]
         /\ [Front(r) EXCEPT !.path = Append(@, r)].path = Append(Front(r).path, r)
         /\ [Front(r) EXCEPT !.path = Append(@, r)].packet = Front(r).packet
<1>1. Front(r) \in [type : {"M"}, packet : Packets, path : Seq(Router)]
  BY FarEnd DEF MsgShape
<1> DEFINE msg == Front(r)
<1>2. msg \in [type : {"M"}, packet : Packets, path : Seq(Router)]
  BY <1>1
<1> HIDE DEF msg
<1>3. msg.path \in Seq(Router) /\ Append(msg.path, r) \in Seq(Router)
  BY <1>2
<1>4. /\ [msg EXCEPT !.path = Append(@, r)] \in [type : {"M"}, packet : Packets, path : Seq(Router)]
      /\ [msg EXCEPT !.path = Append(@, r)].path = Append(msg.path, r)
      /\ [msg EXCEPT !.path = Append(@, r)].packet = msg.packet
  BY <1>2, <1>3
<1> QED
  BY <1>1, <1>4 DEF msg

LEMMA MessagesKept ==
  ASSUME Typed, [Next]_vars
  PROVE  Messages'
<1>1. Boxes(buffer')
  BY BoxStep DEF BoxesIn
<1>2. ASSUME NEW n \in Node, NEW m \in Links(n), NEW msg \in Range(buffer'[n][m])
      PROVE  MsgShape(m, msg)
  <2>1. CASE msg \in Range(buffer[n][m])
    BY <2>1 DEF Typed, Messages
  <2>2. CASE Sent(n, m, msg)
    <3>1. ASSUME NEW packet \in Packets, msg = [type |-> "M", packet |-> packet, path |-> <<>>]
          PROVE  MsgShape(m, msg)
      BY <3>1 DEF MsgShape
    <3>2. ASSUME m \in Router, msg = [type |-> "E", table |-> table[m]]
          PROVE  MsgShape(m, msg)
      BY <3>2 DEF MsgShape, Typed, Tables
    <3>3. ASSUME m \in Router, msg = [type |-> "P", table |-> table'[m]]
          PROVE  MsgShape(m, msg)
      BY <3>3, TablesKept DEF MsgShape, Tables
    <3>4. ASSUME m \in Router, ~Nothing(m), Front(m).type = "M",
                 msg = [Front(m) EXCEPT !.path = Append(@, m)]
          PROVE  MsgShape(m, msg)
      BY <3>4, Forwarded DEF MsgShape
    <3> QED
      BY <2>2, <3>1, <3>2, <3>3, <3>4 DEF Sent
  <2> QED
    BY <2>1, <2>2, Heard
<1> QED
  BY <1>1, <1>2 DEF Messages

LEMMA QueuesKept ==
  ASSUME Typed, [Next]_vars
  PROVE  calls' \in [Node -> Seq(Slots \cup Packets)]
<1> DEFINE T == Slots \cup Packets
<1>1. calls \in [Node -> Seq(T)] /\ {Update, Off, EBGP, IBGP} \subseteq T /\ Packets \subseteq T
  BY DEF Typed, Control, Slots
<1> HIDE DEF T
<1>2. calls' = [n \in Node |-> calls'[n]]
  <2>1. CASE UNCHANGED vars
    BY <1>1, <2>1 DEF vars
  <2>2. CASE Main
    BY <1>1, <2>2 DEF Main, PostUpdate, PostEBGP, PostIBGP, PostPackets
  <2>3. ASSUME NEW r \in Router, RouterThread(r) PROVE calls' = [n \in Node |-> calls'[n]]
    <3>1. calls' = calls \/ calls' = [calls EXCEPT ![r] = Tail(@)]
      BY <2>3 DEF RouterThread, TurnOffProtocols, StartEBGP, StartIBGP, UpdateForwarding,
                  UpdateRIP, UpdateOSPF, Turn, Called
    <3> QED
      BY <1>1, <3>1
  <2>4. ASSUME NEW p \in PC, PCThread(p) PROVE calls' = [n \in Node |-> calls'[n]]
    <3>1. calls' = [calls EXCEPT ![p] = Tail(@)]
      BY <2>4 DEF PCThread, StartPCs, UpdatePC, Called
    <3> QED
      BY <1>1, <3>1
  <2> QED
    BY <2>1, <2>2, <2>3, <2>4 DEF Next
<1>3. ASSUME NEW n \in Node PROVE calls'[n] \in Seq(T)
  <2>1. CASE CallIn(n)
    BY <1>1, <2>1, HeadTailProperties DEF CallIn
  <2>2. /\ calls[n] \in Seq(T) /\ \A u \in Seq(T) : calls[n] \o u \in Seq(T)
        /\ <<Update>> \in Seq(T) /\ <<IBGP>> \in Seq(T) /\ <<Off, EBGP>> \in Seq(T) /\ <<Off>> \in Seq(T)
    BY <1>1
  <2>3. ASSUME n \in PC, PostEBGP \/ PostIBGP PROVE calls'[n] \in Seq(T)
    <3>1. n \notin Router /\ n \notin Range(Edges)
      <4>1. \A e \in Range(Edges) : e \in Router
        BY InterASAssumption DEF Range
      <4> QED
        BY <2>3, <4>1, Ends
    <3>2. CASE PostEBGP
      <4>1. calls'[n] = calls[n] \o CASE n \in Range(Edges) -> <<Off, EBGP>>
                                      [] n \in Router \ Range(Edges) -> <<Off>>
                                      [] n \in PC -> <<>>
        BY <3>2 DEF PostEBGP
      <4>2. calls'[n] = calls[n] \o <<>>
        BY <2>3, <3>1, <4>1
      <4> QED
        BY <2>2, <4>2
    <3>3. CASE PostIBGP
      BY <2>2, <3>1, <3>3 DEF PostIBGP
    <3> QED
      BY <2>3, <3>2, <3>3
  <2>4. ASSUME n \in PC, PostPackets PROVE calls'[n] \in Seq(T)
    <3>1. PICK order : /\ \A p \in PC : order[p] \in Orders(p)
                       /\ calls' = [m \in Node |-> IF m \in PC THEN calls[m] \o order[m] ELSE calls[m]]
      BY <2>4 DEF PostPackets
    <3>2. order[n] \in Seq(T)
      <4>1. order[n] \in Seq(Packets)
        BY <2>4, <3>1, OrdersAreSequences
      <4> QED
        BY <1>1, <4>1, SeqMonotonic
    <3> QED
      BY <2>2, <2>4, <3>1, <3>2
  <2>5. CASE PostUpdate /\ calls'[n] = calls[n] \o <<Update>>
    BY <2>2, <2>5
  <2>6. ASSUME n \in Router,
               \/ calls'[n] = calls[n] \o <<Off, EBGP>> \/ calls'[n] = calls[n] \o <<Off>>
               \/ calls'[n] = calls[n] \o <<IBGP>> \/ calls'[n] = calls[n]
        PROVE  calls'[n] \in Seq(T)
    BY <2>2, <2>6
  <2>7. n \in Router \/ n \in PC
    BY Ends
  <2>9. CASE n \in Router
    BY <2>1, <2>5, <2>6, <2>9, CallStep
  <2>10. CASE n \in PC
    BY <2>1, <2>3, <2>4, <2>5, <2>10, CallStep
  <2> QED
    BY <2>7, <2>9, <2>10
<1> QED
  BY <1>2, <1>3 DEF T

LEMMA TurnStays ==
  ASSUME Typed, NEW r \in Router, Turn(r)
  PROVE  port' \in [Router -> Nat] /\ \A q \in Router : port'[q] \in DOMAIN Ports[q]
<1>1. port \in [Router -> Nat] /\ \A q \in Router : port[q] \in DOMAIN Ports[q]
  BY DEF Typed, Control
<1> DEFINE next == (port[r] % Len(Ports[r])) + 1
<1>2. next \in DOMAIN Ports[r] /\ DOMAIN Ports[r] \subseteq Nat
  <2>1. DOMAIN Ports[r] \subseteq Nat /\ port[r] \in DOMAIN Ports[r]
    <3>1. Len(Ports[r]) \in Nat \ {0} /\ DOMAIN Ports[r] = 1..Len(Ports[r])
      BY PortsInOrder
    <3> QED
      BY <1>1, <3>1
  <2>2. \A i \in DOMAIN Ports[r] : (i % Len(Ports[r])) + 1 \in DOMAIN Ports[r]
    BY PortsInOrder
  <2> QED
    BY <2>1, <2>2
<1>3. port' = [port EXCEPT ![r] = next]
  BY DEF Turn
<1> HIDE DEF next
<1> QED
  BY <1>1, <1>2, <1>3

LEMMA LossTyped ==
  ASSUME Typed, NEW r \in Router, ~Nothing(r), Front(r).type = "M"
  PROVE  lost \cup {<<Front(r).packet, r>>} \subseteq Packets \X Router
<1>1. Front(r).packet \in Packets
  BY Forwarded
<1> QED
  BY <1>1 DEF Typed, Control

LEMMA ControlKept ==
  ASSUME Typed, [Next]_vars
  PROVE  Control'
<1> DEFINE Rest0 ==
     /\ port \in [Router -> Nat] /\ \A r \in Router : port[r] \in DOMAIN Ports[r]
     /\ on \in [Router -> BOOLEAN] /\ iseBGP \in [Router -> BOOLEAN]
     /\ phase \in {EBGP, IBGP, "send", "done"}
     /\ arrived \subseteq Packets \X PC /\ lost \subseteq Packets \X Router
     /\ calm \in BOOLEAN /\ misread \in BOOLEAN /\ crashed \in BOOLEAN
<1>1. Rest0
  BY DEF Typed, Control
<1>2. ASSUME UNCHANGED vars PROVE Rest0'
  <2>1. /\ port' = port /\ on' = on /\ iseBGP' = iseBGP /\ phase' = phase /\ arrived' = arrived
        /\ lost' = lost /\ calm' = calm /\ misread' = misread /\ crashed' = crashed
    BY <1>2 DEF vars, routes, outcome
  <2> QED
    BY <1>1, <2>1
<1>3. ASSUME Main PROVE Rest0'
  <2>1. calm' \in BOOLEAN
    BY <1>1, <1>3 DEF Main, PostUpdate, PostEBGP, PostIBGP, PostPackets
  <2>2. phase' \in {EBGP, IBGP, "send", "done"}
    BY <1>1, <1>3 DEF Main, PostUpdate, PostEBGP, PostIBGP, PostPackets
  <2>3. /\ port' = port /\ on' = on /\ iseBGP' = iseBGP /\ arrived' = arrived
        /\ lost' = lost /\ misread' = misread /\ crashed' = crashed
    BY <1>3 DEF Main, PostUpdate, PostEBGP, PostIBGP, PostPackets, routes, outcome
  <2> QED
    BY <1>1, <2>1, <2>2, <2>3
<1>4. ASSUME NEW r \in Router, TurnOffProtocols(r) \/ StartEBGP(r) \/ StartIBGP(r) PROVE Rest0'
  BY <1>1, <1>4 DEF TurnOffProtocols, StartEBGP, StartIBGP, outcome
<1>5. ASSUME NEW r \in Router, UpdateForwarding(r) PROVE Rest0'
  <2>1. lost' = lost \/ (~Nothing(r) /\ Front(r).type = "M" /\ lost' = lost \cup {<<Front(r).packet, r>>})
    BY <1>5 DEF UpdateForwarding, Forward
  <2>2. lost' \subseteq Packets \X Router
    BY <1>1, <2>1, LossTyped
  <2>3. port' \in [Router -> Nat] /\ \A q \in Router : port'[q] \in DOMAIN Ports[q]
    BY <1>5, TurnStays DEF UpdateForwarding
  <2> QED
    BY <1>1, <1>5, <2>2, <2>3 DEF UpdateForwarding
<1>6. ASSUME NEW r \in Router, UpdateRIP(r) PROVE Rest0'
  <2>1. lost' = lost \/ (~Nothing(r) /\ Front(r).type = "M" /\ lost' = lost \cup {<<Front(r).packet, r>>})
    BY <1>6 DEF UpdateRIP
  <2>2. lost' \subseteq Packets \X Router
    BY <1>1, <2>1, LossTyped
  <2>3. port' \in [Router -> Nat] /\ \A q \in Router : port'[q] \in DOMAIN Ports[q]
    BY <1>6, TurnStays DEF UpdateRIP
  <2>4. misread' \in BOOLEAN /\ on' \in [Router -> BOOLEAN]
    BY <1>1, <1>6 DEF UpdateRIP, EndRIP
  <2> QED
    BY <1>1, <1>6, <2>2, <2>3, <2>4 DEF UpdateRIP
<1>7. ASSUME NEW r \in Router, UpdateOSPF(r) PROVE Rest0'
  <2>1. port' \in [Router -> Nat] /\ \A q \in Router : port'[q] \in DOMAIN Ports[q]
    BY <1>7, TurnStays DEF UpdateOSPF
  <2> QED
    BY <1>1, <1>7, <2>1 DEF UpdateOSPF, routes
<1>8. ASSUME NEW p \in PC, StartPCs(p) PROVE Rest0'
  BY <1>1, <1>8 DEF StartPCs, routes, outcome
<1>9. ASSUME NEW p \in PC, UpdatePC(p) PROVE Rest0'
  <2> DEFINE msg == Head(buffer[p][Link(p)])
  <2>1. ASSUME buffer[p][Link(p)] # <<>>, msg.type = "M" PROVE msg.packet \in Packets
    <3>1. p \in Node /\ Link(p) \in Links(p)
      BY Ends
    <3>2. msg \in Range(buffer[p][Link(p)])
      BY <2>1, <3>1, QueueTail DEF Typed, Messages, Boxes
    <3>3. MsgShape(Link(p), msg)
      BY <3>1, <3>2 DEF Typed, Messages
    <3> QED
      BY <2>1, <3>3 DEF MsgShape
  <2>2. arrived' = arrived \/ (buffer[p][Link(p)] # <<>> /\ msg.type = "M" /\ arrived' = arrived \cup {<<msg.packet, p>>})
    BY <1>9 DEF UpdatePC, outcome
  <2>3. arrived' \subseteq Packets \X PC
    BY <1>1, <2>1, <2>2
  <2>4. crashed' \in BOOLEAN
    BY <1>1, <1>9 DEF UpdatePC, outcome
  <2>5. /\ port' = port /\ on' = on /\ iseBGP' = iseBGP /\ phase' = phase /\ calm' = calm
        /\ lost' = lost /\ misread' = misread
    BY <1>9 DEF UpdatePC, routes, outcome
  <2> QED
    BY <1>1, <2>3, <2>4, <2>5
<1>10. Rest0'
  BY <1>2, <1>3, <1>4, <1>5, <1>6, <1>7, <1>8, <1>9 DEF Next, RouterThread, PCThread
<1> QED
  BY <1>10, QueuesKept DEF Control

LEMMA InitRoutes ==
  ASSUME Init, NEW r \in Router
  PROVE  /\ fwd = [q \in Router |-> fwd[q]] /\ fwd[r] \in [DOMAIN InAS[r] -> Neighbours(r)]
         /\ \A k \in DOMAIN fwd[r] : \/ fwd[r][k] = k
                                     \/ /\ k \notin Neighbours(r) /\ fwd[r][k] \in Mates(r)
                                        /\ k \in DOMAIN InAS[fwd[r][k]]
                                        /\ InAS[fwd[r][k]][k] < InAS[r][k]
         /\ table[r] = IF Protocol[asID[r]] = "RIP" THEN InAS[r] ELSE LinkCosts(r)
<1>1. fwd \in [Router -> UNION {NextHops(q) : q \in Router}] /\ fwd[r] \in NextHops(r)
  BY DEF Init
<1>2. fwd = [q \in Router |-> fwd[q]]
  BY <1>1
<1>3. table[r] = IF Protocol[asID[r]] = "RIP" THEN InAS[r] ELSE LinkCosts(r)
  BY DEF Init
<1> QED
  BY <1>1, <1>2, <1>3 DEF NextHops

LEMMA InitTyped ==
  ASSUME Init
  PROVE  Typed
<1>1. Tables
  <2>1. table = [r \in Router |-> table[r]]
    BY DEF Init
  <2>2. ASSUME NEW r \in Router PROVE IsTable(table[r]) /\ r \notin DOMAIN table[r]
    BY InitRoutes, InASTables, LinkTables
  <2>3. ASSUME NEW r \in Router
        PROVE  fwd = [q \in Router |-> fwd[q]] /\ fwd[r] \in [DOMAIN InAS[r] -> Neighbours(r)]
    BY InitRoutes
  <2>4. \A r \in Router : DOMAIN InAS[r] \subseteq Node
    BY InASTables DEF IsTable
  <2>5. fwd = [q \in Router |-> fwd[q]]
    BY DEF Init
  <2>6. \A r \in Router : fwd[r] \in [DOMAIN fwd[r] -> Neighbours(r)] /\ DOMAIN fwd[r] \subseteq Node
    BY <2>3, <2>4
  <2> QED
    BY <2>1, <2>2, <2>5, <2>6 DEF Tables
<1>2. Messages
  <2>1. /\ buffer = [n \in Node |-> [m \in Links(n) |-> buffer[n][m]]]
        /\ \A n \in Node : \A m \in Links(n) : buffer[n][m] = <<>>
    BY DEF Init
  <2> QED
    BY <2>1, QueueEmpty DEF Messages, Boxes
<1>3. Control
  <2>1. \A r \in Router : port[r] = 1 /\ 1 \in DOMAIN Ports[r]
    BY PortsInOrder DEF Init
  <2>2. port \in [Router -> Nat]
    BY DEF Init
  <2>3. calls \in [Node -> Seq(Slots \cup Packets)]
    BY DEF Init
  <2>4. arrived = {} /\ lost = {} /\ misread = FALSE /\ crashed = FALSE /\ calm = FALSE /\ phase = EBGP
        /\ on \in [Router -> BOOLEAN] /\ iseBGP \in [Router -> BOOLEAN]
    BY DEF Init
  <2> QED
    BY <2>1, <2>2, <2>3, <2>4 DEF Control
<1> QED
  BY <1>1, <1>2, <1>3 DEF Typed

LEMMA TypedAlways == Spec => []Typed
<1>1. Typed /\ [Next]_vars => Typed'
  BY TablesKept, MessagesKept, ControlKept DEF Typed
<1> QED
  BY <1>1, InitTyped, PTL DEF Spec

LEMMA TypedIsTypeOK ==
  ASSUME Typed
  PROVE  TypeOK
<1>1. \A r \in Router : IsTable(table[r]) /\ fwd[r] \in [DOMAIN fwd[r] -> Neighbours(r)]
  BY DEF Typed, Tables
<1>2. ASSUME NEW n \in Node, NEW m \in Links(n), NEW msg \in Range(buffer[n][m])
      PROVE  CASE msg.type \in {"P", "E"} -> m \in Router /\ IsTable(msg.table)
               [] msg.type = "M" -> msg.packet \in Packets /\ msg.path \in Seq(Router)
  <2>1. MsgShape(m, msg)
    BY DEF Typed, Messages
  <2>2. CASE msg \in [type : {"M"}, packet : Packets, path : Seq(Router)]
    <3>1. msg.type = "M" /\ msg.packet \in Packets /\ msg.path \in Seq(Router)
      BY <2>2
    <3> QED
      BY <3>1
  <2>3. CASE msg.type \in {"P", "E"} /\ m \in Router /\ IsTable(msg.table)
    <3>1. msg.type # "M"
      BY <2>3
    <3> QED
      BY <2>3, <3>1
  <2> QED
    BY <2>1, <2>2, <2>3 DEF MsgShape
<1>3. /\ calls \in [Node -> Seq(Slots \cup Packets)]
      /\ port \in [Router -> Nat] /\ \A r \in Router : port[r] \in DOMAIN Ports[r]
      /\ {on, iseBGP} \subseteq [Router -> BOOLEAN]
      /\ phase \in {EBGP, IBGP, "send", "done"}
      /\ arrived \subseteq Packets \X PC /\ lost \subseteq Packets \X Router
      /\ {calm, misread, crashed} \subseteq BOOLEAN
  BY DEF Typed, Control
<1> QED
  BY <1>1, <1>2, <1>3 DEF TypeOK

(* Whatever the topology, the protocols and the order of the queued calls, *)
(* a merge, turnOffProtocols and startIBGP keep the tables functions on    *)
(* nodes and on the router's ports, and update's loop stays on its ports.  *)
THEOREM TypeCorrect == Spec => []TypeOK
<1>1. Typed => TypeOK
  BY TypedIsTypeOK
<1> QED
  BY <1>1, TypedAlways, PTL

-----------------------------------------------------------------------------
(* What a PC hears.                                                        *)
LEMMA HeadWaits ==
  ASSUME Typed, NEW n \in Node, NEW c, Called(n, c)
  PROVE  Waits(n, c)
<1>1. calls[n] \in Seq(Slots \cup Packets) /\ calls[n] # <<>> /\ Head(calls[n]) = c
  BY CalledTakes DEF Typed, Control
<1> QED
  BY <1>1, Shorter DEF Holds, Waits

LEMMA WaitsStep ==
  ASSUME Typed, [Next]_vars, NEW r \in Router, NEW c \in {Off, EBGP, IBGP}
  PROVE  /\ Waits(r, c)' => \/ Waits(r, c) \/ (PostIBGP /\ c = IBGP)
                            \/ PostEBGP /\ ((c = EBGP /\ r \in Range(Edges)) \/ c = Off)
         /\ Waits(r, c) => Waits(r, c)' \/ /\ c = Off => TurnOffProtocols(r)
                                           /\ c = EBGP => StartEBGP(r)
                                           /\ c = IBGP => StartIBGP(r)
<1> DEFINE T == Slots \cup Packets
           s == calls[r]
<1>1. r \in Node /\ s \in Seq(T) /\ {Update, Off, EBGP, IBGP} \subseteq T
  BY Ends DEF Typed, Control, Slots
<1>2. /\ <<Update>> \in Seq(T) /\ <<IBGP>> \in Seq(T) /\ <<Off>> \in Seq(T) /\ <<Off, EBGP>> \in Seq(T)
  BY <1>1
<1> HIDE DEF T
<1>queued. \A u \in Seq(T) : calls'[r] = s \o u => (Holds(calls'[r], c) <=> Holds(s, c) \/ Holds(u, c))
  <2> HIDE DEF s
  <2> SUFFICES ASSUME NEW u \in Seq(T) PROVE Holds(s \o u, c) <=> Holds(s, c) \/ Holds(u, c)
    OBVIOUS
  <2> QED
    BY <1>1, Longer
<1>3. CASE calls'[r] = s
  BY <1>3 DEF Waits
<1>4. CASE s # <<>> /\ calls'[r] = Tail(s) /\ Took(r)
  <2>1. Holds(s, c) <=> Head(s) = c \/ Holds(calls'[r], c)
    <3> HIDE DEF s
    <3> QED
      BY <1>1, <1>4, Shorter
  <2>2. r \notin PC
    BY Ends
  <2> QED
    BY <1>4, <2>1, <2>2, ShortQueues DEF Waits, Holds, Took
<1>5. CASE PostUpdate /\ calls'[r] = s \o <<Update>>
  <2>1. Holds(calls'[r], c) <=> Holds(s, c) \/ Holds(<<Update>>, c)
    BY <1>2, <1>5, <1>queued
  <2> QED
    BY <2>1, ShortQueues DEF Waits, Holds
<1>6. CASE PostEBGP /\ calls'[r] = s \o (IF r \in Range(Edges) THEN <<Off, EBGP>> ELSE <<Off>>)
  <2>1. CASE r \in Range(Edges)
    <3>1. Holds(calls'[r], c) <=> Holds(s, c) \/ Holds(<<Off, EBGP>>, c)
      BY <1>2, <1>6, <1>queued, <2>1
    <3>2. Holds(<<Off, EBGP>>, c) <=> c = Off \/ c = EBGP
      BY ShortQueues
    <3>3. Holds(calls'[r], c) <=> Holds(s, c) \/ c = Off \/ c = EBGP
      BY <3>1, <3>2
    <3> QED
      BY <1>6, <2>1, <3>3, ShortQueues DEF Waits, Holds
  <2>2. CASE r \notin Range(Edges)
    <3>1. Holds(calls'[r], c) <=> Holds(s, c) \/ Holds(<<Off>>, c)
      BY <1>2, <1>6, <1>queued, <2>2
    <3> QED
      BY <1>6, <2>2, <3>1, ShortQueues DEF Waits, Holds
  <2> QED
    BY <2>1, <2>2
<1>7. CASE PostIBGP /\ calls'[r] = s \o <<IBGP>>
  <2>1. Holds(calls'[r], c) <=> Holds(s, c) \/ Holds(<<IBGP>>, c)
    BY <1>2, <1>7, <1>queued
  <2> QED
    BY <1>7, <2>1, ShortQueues DEF Waits, Holds
<1> QED
  BY <1>1, <1>3, <1>4, <1>5, <1>6, <1>7, CallStep DEF CallIn

LEMMA PCsHear ==
  ASSUME Typed, PCsHearPackets, [Next]_vars
  PROVE  PCsHearPackets'
<1>1. ASSUME NEW r \in Router, Waits(r, EBGP)' PROVE r \in Range(Edges)
  <2>1. Waits(r, EBGP) \/ r \in Range(Edges)
    BY <1>1, WaitsStep, ShortQueues
  <2> QED
    BY <2>1 DEF PCsHearPackets
<1>2. ASSUME NEW q \in Router, NEW k \in DOMAIN fwd'[q], fwd'[q][k] \in PC PROVE fwd'[q][k] = k
  <2>1. CASE fwd'[q] = fwd[q]
    BY <1>2, <2>1 DEF PCsHearPackets
  <2>2. CASE StartIBGP(q) /\ fwd'[q] # fwd[q]
    <3>1. ~iseBGP[q]
      BY <2>2 DEF StartIBGP
    <3>2. CASE k \in Foreign(q)
      <4>1. fwd'[q][k] = fwd[q][Exit(q)] /\ Exit(q) \in DOMAIN fwd[q] /\ Exit(q) \in Router
        BY <1>2, <2>2, <3>1, <3>2, ExitTaken
      <4>2. fwd[q][Exit(q)] = Exit(q)
        BY <1>2, <4>1 DEF PCsHearPackets
      <4> QED
        BY <1>2, <4>1, <4>2, Ends
    <3>3. CASE k \notin Foreign(q)
      <4>1. fwd'[q][k] = fwd[q][k] /\ k \in DOMAIN fwd[q]
        BY <1>2, <2>2, <3>1, <3>3, ExitTaken
      <4> QED
        BY <1>2, <4>1 DEF PCsHearPackets
    <3> QED
      BY <3>2, <3>3
  <2>3. ASSUME NEW new, Merged(q, new) PROVE fwd'[q][k] = k
    <3>1. CASE k \in Improved(q, table[q], new)
      <4>1. fwd'[q][k] = Far(q)
        BY <1>2, <2>3, <3>1, TablesMerged
      <4> QED
        BY <1>2, <2>3, <4>1, Ends DEF Merged
    <3>2. CASE k \notin Improved(q, table[q], new)
      <4>1. fwd'[q][k] = fwd[q][k] /\ k \in DOMAIN fwd[q]
        BY <1>2, <2>3, <3>2, TablesMerged
      <4> QED
        BY <1>2, <4>1 DEF PCsHearPackets
    <3> QED
      BY <3>1, <3>2
  <2>4. fwd = [r \in Router |-> fwd[r]]
    BY DEF Typed, Tables
  <2> QED
    BY <2>1, <2>2, <2>3, <2>4, TableStep
<1>3. ASSUME NEW p \in PC, NEW msg \in Range(buffer'[p][Link(p)])
      PROVE  msg.type = "M" /\ Dst[msg.packet] = p
  <2>1. p \in Node /\ Link(p) \in Links(p) /\ Link(p) \in Router /\ p \notin Router /\ Link(p) \notin PC
    BY Ends
  <2>2. CASE msg \in Range(buffer[p][Link(p)])
    BY <2>2 DEF PCsHearPackets
  <2>3. CASE Sent(p, Link(p), msg)
    <3> DEFINE m == Link(p)
    <3>1. ~(StartEBGP(m) /\ p \in Neighbours(m) \ Mates(m))
      <4> SUFFICES ASSUME StartEBGP(m), p \in Neighbours(m) PROVE FALSE
        OBVIOUS
      <4>1. Waits(m, EBGP)
        BY <2>1, Ends, HeadWaits DEF StartEBGP
      <4>2. m \in Range(Edges)
        BY <2>1, <4>1 DEF PCsHearPackets
      <4> QED
        BY <4>2, BorderAssumption
    <3>2. p \notin Mates(m)
      BY <2>1, Ends
    <3>3. /\ ~Nothing(m) /\ Front(m).type = "M"
          /\ Dst[Front(m).packet] \in DOMAIN fwd[m] /\ p = fwd[m][Dst[Front(m).packet]]
          /\ msg = [Front(m) EXCEPT !.path = Append(@, m)]
      BY <2>1, <2>3, <3>1, <3>2 DEF Sent
    <3>4. p = Dst[Front(m).packet]
      BY <2>1, <3>3 DEF PCsHearPackets
    <3>5. msg.packet = Front(m).packet /\ msg \in [type : {"M"}, packet : Packets, path : Seq(Router)]
      BY <2>1, <3>3, Forwarded
    <3> QED
      BY <3>4, <3>5
  <2> QED
    BY <2>1, <2>2, <2>3, Heard
<1> QED
  BY <1>1, <1>2, <1>3 DEF PCsHearPackets

LEMMA HearInit ==
  ASSUME Init
  PROVE  PCsHearPackets
<1>1. \A r \in Router : r \in Node /\ calls[r] = <<>>
  BY Ends DEF Init
<1>2. \A r \in Router : ~Waits(r, EBGP)
  BY <1>1 DEF Waits
<1>3. ASSUME NEW r \in Router, NEW k \in DOMAIN fwd[r], fwd[r][k] \in PC PROVE fwd[r][k] = k
  <2>1. fwd[r][k] = k \/ fwd[r][k] \in Mates(r)
    BY InitRoutes
  <2> QED
    BY <1>3, <2>1, Ends
<1>4. \A p \in PC : buffer[p][Link(p)] = <<>>
  BY Ends DEF Init
<1> QED
  BY <1>2, <1>3, <1>4, QueueEmpty DEF PCsHearPackets

LEMMA HearsAlways == Spec => [](Typed /\ PCsHearPackets)
<1>1. Typed /\ PCsHearPackets /\ [Next]_vars => (Typed /\ PCsHearPackets)'
  BY TablesKept, MessagesKept, ControlKept, PCsHear DEF Typed
<1> QED
  BY <1>1, InitTyped, HearInit, PTL DEF Spec

LEMMA PCTakes ==
  ASSUME Typed, PCsHearPackets, NEW p \in PC, buffer[p][Link(p)] # <<>>
  PROVE  Head(buffer[p][Link(p)]).type = "M" /\ Dst[Head(buffer[p][Link(p)]).packet] = p
<1>1. Queue(buffer[p][Link(p)])
  BY Ends DEF Typed, Messages, Boxes
<1> QED
  BY <1>1, QueueTail DEF PCsHearPackets

(* pc::update never looks at a packet's destination: that it hands out     *)
(* only packets for its own PC rests on the routers, which keep a PC as    *)
(* next hop only of itself, through every merge, startIBGP and forward.    *)
THEOREM OwnPacketsOnly == Spec => []HandedOnlyOwn
<1>1. Init => HandedOnlyOwn
  BY DEF Init, HandedOnlyOwn
<1>2. Typed /\ PCsHearPackets /\ HandedOnlyOwn /\ [Next]_vars => HandedOnlyOwn'
  <2> SUFFICES ASSUME Typed, PCsHearPackets, HandedOnlyOwn, [Next]_vars PROVE HandedOnlyOwn'
    OBVIOUS
  <2>1. CASE arrived' = arrived
    BY <2>1 DEF HandedOnlyOwn
  <2>2. ASSUME NEW p \in PC, UpdatePC(p), arrived' # arrived PROVE HandedOnlyOwn'
    <3> DEFINE msg == Head(buffer[p][Link(p)])
    <3>1. buffer[p][Link(p)] # <<>> /\ arrived' = arrived \cup {<<msg.packet, p>>}
      BY <2>2 DEF UpdatePC, outcome
    <3>2. Dst[msg.packet] = p
      BY <3>1, PCTakes
    <3> HIDE DEF msg
    <3> QED
      BY <3>1, <3>2 DEF HandedOnlyOwn
  <2>3. ASSUME NEW r \in Router, RouterThread(r) PROVE arrived' = arrived
    BY <2>3 DEF RouterThread, TurnOffProtocols, StartEBGP, StartIBGP, UpdateForwarding, UpdateRIP,
                UpdateOSPF, outcome
  <2>4. ASSUME Main PROVE arrived' = arrived
    BY <2>4 DEF Main, PostUpdate, PostEBGP, PostIBGP, PostPackets, outcome
  <2>5. ASSUME NEW p \in PC, StartPCs(p) PROVE arrived' = arrived
    BY <2>5 DEF StartPCs, outcome
  <2>6. ASSUME UNCHANGED vars PROVE arrived' = arrived
    BY <2>6 DEF vars, outcome
  <2> QED
    BY <2>1, <2>2, <2>3, <2>4, <2>5, <2>6 DEF Next, PCThread
<1> QED
  BY <1>1, <1>2, HearsAlways, PTL DEF Spec

(* No step is taken once a decode has failed. *)
LEMMA CrashStops ==
  ASSUME [Next]_vars, crashed
  PROVE  UNCHANGED vars
BY DEF Next, Main, RouterThread, PCThread, TurnOffProtocols, StartEBGP, StartIBGP, UpdateForwarding,
       UpdateRIP, UpdateOSPF, Turn, Called, StartPCs, UpdatePC

(* The bad index ends the program in lsp::decode of a router that waits    *)
(* for its turnOffProtocols, and nowhere else: in particular no PC ever    *)
(* decodes an eBGP table, since the routers that send one have no PC.      *)
THEOREM CrashesOnlyInOSPF == Spec => []CrashOnlyInOSPF
<1>1. Init => CrashOnlyInOSPF
  BY DEF Init, CrashOnlyInOSPF
<1>2. Typed /\ PCsHearPackets /\ CrashOnlyInOSPF /\ [Next]_vars => CrashOnlyInOSPF'
  <2> SUFFICES ASSUME Typed, PCsHearPackets, CrashOnlyInOSPF, [Next]_vars, crashed'
               PROVE  \E r \in Router : on'[r] /\ Protocol[asID[r]] = "OSPF"
    BY DEF CrashOnlyInOSPF
  <2>1. CASE crashed
    <3>1. on' = on
      BY <2>1, CrashStops DEF vars, routes
    <3> QED
      BY <2>1, <3>1 DEF CrashOnlyInOSPF
  <2>2. ASSUME NEW r \in Router, UpdateOSPF(r) PROVE on'[r] /\ Protocol[asID[r]] = "OSPF"
    BY <2>2 DEF UpdateOSPF, routes
  <2>3. ASSUME NEW r \in Router, RouterThread(r), ~UpdateOSPF(r) PROVE crashed' = crashed
    BY <2>3 DEF RouterThread, TurnOffProtocols, StartEBGP, StartIBGP, UpdateForwarding, UpdateRIP, outcome
  <2>4. ASSUME Main PROVE crashed' = crashed
    BY <2>4 DEF Main, PostUpdate, PostEBGP, PostIBGP, PostPackets, outcome
  <2>5. ASSUME NEW p \in PC, StartPCs(p) PROVE crashed' = crashed
    BY <2>5 DEF StartPCs, outcome
  <2>6. ASSUME UNCHANGED vars PROVE crashed' = crashed
    BY <2>6 DEF vars, outcome
  <2>7. ASSUME NEW p \in PC, UpdatePC(p) PROVE crashed' = crashed
    BY <2>7, PCTakes DEF UpdatePC, outcome
  <2> QED
    BY <2>1, <2>2, <2>3, <2>4, <2>5, <2>6, <2>7 DEF Next, PCThread
<1> QED
  BY <1>1, <1>2, HearsAlways, PTL DEF Spec

-----------------------------------------------------------------------------
(* The order of the set-up.                                                *)
LEMMA QueueTyped ==
  ASSUME Typed, NEW r \in Router
  PROVE  r \in Node /\ calls[r] \in Seq(Slots \cup Packets)
BY Ends DEF Typed, Control

LEMMA FirstHead ==
  ASSUME Typed, NEW r \in Router, NEW x, NEW y, x # y, Called(r, y)
  PROVE  ~First(r, x, y)
<1>1. calls[r] # <<>> /\ Head(calls[r]) = y
  BY QueueTyped, CalledTakes
<1> QED
  BY <1>1, QueueTyped, Shorter DEF First

LEMMA FirstStep ==
  ASSUME Typed, [Next]_vars, NEW r \in Router, NEW x \in {Off, EBGP}, NEW y, First(r, x, y)
  PROVE  First(r, x, y)' \/ (x = Off /\ TurnOffProtocols(r)) \/ (x = EBGP /\ StartEBGP(r))
<1> DEFINE T == Slots \cup Packets
           s == calls[r]
<1>1. r \in Node /\ s \in Seq(T) /\ Ahead(s, x, y) /\ r \notin PC
  BY QueueTyped, Ends DEF First
<1>2. /\ <<Update>> \in Seq(T) /\ <<IBGP>> \in Seq(T) /\ <<Off>> \in Seq(T) /\ <<Off, EBGP>> \in Seq(T)
  BY DEF Slots
<1> HIDE DEF T
<1>3. \A u \in Seq(T) : calls'[r] = s \o u => Ahead(calls'[r], x, y)
  <2> HIDE DEF s
  <2> SUFFICES ASSUME NEW u \in Seq(T) PROVE Ahead(s \o u, x, y)
    OBVIOUS
  <2> QED
    BY <1>1, Longer
<1>4. CASE calls'[r] = s
  BY <1>1, <1>4 DEF First
<1>5. CASE s # <<>> /\ calls'[r] = Tail(s) /\ Took(r)
  <2>1. Head(s) # x => Ahead(calls'[r], x, y)
    <3> HIDE DEF s
    <3> QED
      BY <1>1, <1>5, Shorter
  <2> QED
    BY <1>1, <1>5, <2>1, ShortQueues DEF First, Took
<1>6. calls'[r] = s \/ (s # <<>> /\ calls'[r] = Tail(s) /\ Took(r))
        \/ calls'[r] = s \o <<Update>> \/ calls'[r] = s \o <<Off, EBGP>>
        \/ calls'[r] = s \o <<Off>> \/ calls'[r] = s \o <<IBGP>>
  BY <1>1, CallStep DEF CallIn
<1> QED
  BY <1>2, <1>3, <1>4, <1>5, <1>6 DEF First

LEMMA FirstPosted ==
  ASSUME Typed, PostEBGP, NEW r \in Router
  PROVE  /\ ~Waits(r, EBGP) => First(r, Off, EBGP)'
         /\ ~Waits(r, IBGP) => First(r, Off, IBGP)'
         /\ r \in Range(Edges) /\ ~Waits(r, IBGP) => First(r, EBGP, IBGP)'
         /\ r \in Range(Edges) => Waits(r, EBGP)'
<1> DEFINE T == Slots \cup Packets
           s == calls[r]
           u == IF r \in Range(Edges) THEN <<Off, EBGP>> ELSE <<Off>>
<1>1. r \in Node /\ s \in Seq(T) /\ r \notin PC
  BY QueueTyped, Ends
<1>2. u \in Seq(T)
  <2>1. <<Off>> \in Seq(T) /\ <<Off, EBGP>> \in Seq(T)
    BY DEF Slots
  <2> HIDE DEF T
  <2> QED
    BY <2>1
<1>3. calls'[r] = s \o u
  <2>1. calls'[r] = s \o CASE r \in Range(Edges) -> <<Off, EBGP>>
                           [] r \in Router \ Range(Edges) -> <<Off>>
                           [] r \in PC -> <<>>
    BY <1>1 DEF PostEBGP
  <2>2. CASE r \in Range(Edges)
    BY <1>1, <2>1, <2>2
  <2>3. CASE r \notin Range(Edges)
    BY <1>1, <2>1, <2>3
  <2> QED
    BY <2>2, <2>3
<1>4. /\ Ahead(u, Off, EBGP) /\ Ahead(u, Off, IBGP)
      /\ r \in Range(Edges) => Ahead(u, EBGP, IBGP) /\ Holds(u, EBGP)
  BY ShortQueues
<1> HIDE DEF T, s, u
<1>5. /\ Holds(calls'[r], EBGP) <=> Holds(s, EBGP) \/ Holds(u, EBGP)
      /\ ~Holds(s, EBGP) /\ Ahead(u, Off, EBGP) => Ahead(calls'[r], Off, EBGP)
      /\ ~Holds(s, IBGP) /\ Ahead(u, Off, IBGP) => Ahead(calls'[r], Off, IBGP)
      /\ ~Holds(s, IBGP) /\ Ahead(u, EBGP, IBGP) => Ahead(calls'[r], EBGP, IBGP)
  BY <1>1, <1>2, <1>3, Longer
<1> QED
  BY <1>4, <1>5 DEF First, Waits, Holds, s

LEMMA IBGPPosted ==
  ASSUME Typed, PostIBGP, NEW r \in Router
  PROVE  Waits(r, IBGP)'
<1> DEFINE T == Slots \cup Packets
           s == calls[r]
<1>1. r \in Node /\ s \in Seq(T) /\ IBGP \in T
  BY QueueTyped DEF Slots
<1> HIDE DEF T
<1>2. calls'[r] = Append(s, IBGP)
  BY <1>1 DEF PostIBGP
<1>3. Len(s) + 1 \in DOMAIN calls'[r] /\ calls'[r][Len(s) + 1] = IBGP
  <2> HIDE DEF s
  <2> QED
    BY <1>1, <1>2, AppendProperties, LenProperties
<1> QED
  BY <1>3 DEF Waits

LEMMA HomeIsKnown ==
  /\ \A r \in Router : Home(r) = asID[r] /\ asID[r] \in AS
  /\ \A k \in PC : Home(k) \in AS
  /\ \A r \in Router : Own(r) \subseteq DOMAIN InAS[r] /\ r \notin Own(r) /\ Own(r) \subseteq Node
  /\ \A r \in Range(Edges) : r \in Router
BY Ends, InterASAssumption, BorderAssumption DEF Home, Own, Range

(* The tables' keys: only turnOffProtocols replaces the costs, only        *)
(* startIBGP in a router that did no eBGP replaces routes.                 *)
LEMMA KeysStep ==
  ASSUME Typed, [Next]_vars, NEW r \in Router
  PROVE  /\ \/ DOMAIN table[r] \subseteq DOMAIN table'[r]
            \/ TurnOffProtocols(r) /\ Protocol[asID[r]] = "OSPF" /\ table'[r] = InAS[r]
         /\ DOMAIN fwd[r] \subseteq DOMAIN fwd'[r] \/ (StartIBGP(r) /\ ~iseBGP[r])
         /\ \/ DOMAIN table'[r] \subseteq DOMAIN table[r] /\ fwd'[r] = fwd[r]
            \/ TurnOffProtocols(r) /\ table'[r] = InAS[r] /\ fwd'[r] = fwd[r]
            \/ StartIBGP(r) /\ table'[r] = table[r]
            \/ DOMAIN table'[r] \ DOMAIN table[r] \subseteq DOMAIN fwd'[r]
<1>1. table = [q \in Router |-> table[q]] /\ fwd = [q \in Router |-> fwd[q]]
  BY DEF Typed, Tables
<1>2. CASE table'[r] = table[r] /\ fwd'[r] = fwd[r]
  BY <1>2
<1>3. CASE /\ TurnOffProtocols(r) /\ Protocol[asID[r]] = "OSPF"
           /\ table'[r] = InAS[r] /\ fwd'[r] = fwd[r]
  BY <1>3
<1>4. CASE StartIBGP(r) /\ table'[r] = table[r]
  <2>1. iseBGP[r] => fwd' = fwd
    BY <1>4 DEF StartIBGP
  <2> QED
    BY <1>4, <2>1
<1>5. ASSUME NEW new, Merged(r, new)
      PROVE  /\ DOMAIN table[r] \subseteq DOMAIN table'[r] /\ DOMAIN fwd[r] \subseteq DOMAIN fwd'[r]
             /\ DOMAIN table'[r] \ DOMAIN table[r] \subseteq DOMAIN fwd'[r]
  BY <1>5, TablesMerged
<1>6. \/ table'[r] = table[r] /\ fwd'[r] = fwd[r]
      \/ /\ TurnOffProtocols(r) /\ Protocol[asID[r]] = "OSPF"
         /\ table'[r] = InAS[r] /\ fwd'[r] = fwd[r]
      \/ StartIBGP(r) /\ table'[r] = table[r]
      \/ \E new : Merged(r, new)
  BY <1>1, TableStep
<1> QED
  BY <1>2, <1>3, <1>4, <1>5, <1>6

LEMMA HomeStep ==
  ASSUME Typed, HomeKnown, [Next]_vars
  PROVE  HomeKnown'
<1> SUFFICES ASSUME NEW r \in Router, NEW k \in Node \ {r}, Home(k) = asID[r]
             PROVE  k \in DOMAIN fwd'[r]
  BY DEF HomeKnown, Home
<1>1. k \in DOMAIN fwd[r] /\ k \notin Foreign(r)
  BY DEF HomeKnown, Foreign
<1>2. CASE DOMAIN fwd[r] \subseteq DOMAIN fwd'[r]
  BY <1>1, <1>2
<1>3. CASE StartIBGP(r) /\ ~iseBGP[r]
  BY <1>1, <1>3, ExitTaken
<1> QED
  BY <1>2, <1>3, KeysStep

LEMMA ReadyStep ==
  ASSUME Typed, [Next]_vars, NEW r \in Router, Ready(r)
  PROVE  Ready(r)'
<1>1. CASE Own(r) \subseteq DOMAIN table[r]
  <2>1. Own(r) \subseteq DOMAIN table'[r]
    BY <1>1, KeysStep, HomeIsKnown
  <2> QED
    BY <2>1 DEF Ready
<1>2. CASE Protocol[asID[r]] = "OSPF" /\ phase = EBGP /\ ~Waits(r, EBGP)
  <2>1. CASE PostEBGP
    BY <1>2, <2>1, FirstPosted DEF Ready
  <2>2. CASE ~PostEBGP
    <3>1. phase' = phase
      BY <1>2, <2>2, PhaseStep, ShortQueues DEF EBGP
    <3>2. ~Waits(r, EBGP)'
      BY <1>2, <2>2, WaitsStep, ShortQueues
    <3> QED
      BY <1>2, <3>1, <3>2 DEF Ready
  <2> QED
    BY <2>1, <2>2
<1>3. CASE Protocol[asID[r]] = "OSPF" /\ First(r, Off, EBGP)
  <2>1. CASE First(r, Off, EBGP)'
    BY <1>3, <2>1 DEF Ready
  <2>2. CASE TurnOffProtocols(r)
    <3>1. table'[r] = InAS[r]
      BY <1>3, <2>2 DEF TurnOffProtocols, Typed, Tables
    <3> QED
      BY <3>1, HomeIsKnown DEF Ready
  <2> QED
    BY <1>3, <2>1, <2>2, FirstStep, ShortQueues
<1> QED
  BY <1>1, <1>2, <1>3 DEF Ready

LEMMA EBGPStep ==
  ASSUME Typed, [Next]_vars, NEW r \in Router
  PROVE  /\ iseBGP[r] => iseBGP'[r]
         /\ iseBGP'[r] => iseBGP[r] \/ (StartEBGP(r) /\ Waits(r, EBGP))
         /\ StartEBGP(r) => iseBGP'[r]
<1>1. iseBGP \in [Router -> BOOLEAN] /\ r \in Node
  BY QueueTyped DEF Typed, Control
<1>2. StartEBGP(r) => iseBGP'[r] /\ Waits(r, EBGP)
  BY <1>1, HeadWaits DEF StartEBGP
<1>3. iseBGP' = iseBGP \/ \E q \in Router : StartEBGP(q)
  BY DEF Next, Main, PostUpdate, PostEBGP, PostIBGP, PostPackets, RouterThread, PCThread,
         TurnOffProtocols, StartIBGP, UpdateForwarding, UpdateRIP, UpdateOSPF, StartPCs, UpdatePC,
         vars, routes
<1>4. ASSUME NEW q \in Router, StartEBGP(q), q # r PROVE iseBGP'[r] = iseBGP[r]
  BY <1>1, <1>4 DEF StartEBGP
<1> QED
  BY <1>1, <1>2, <1>3, <1>4

LEMMA TurnOfIBGP ==
  ASSUME Typed, NEW r \in Router, InTurn(r), StartIBGP(r)
  PROVE  iseBGP[r]
<1>1. Called(r, IBGP) /\ Waits(r, IBGP)
  BY QueueTyped, HeadWaits DEF StartIBGP
<1>2. ~First(r, EBGP, IBGP)
  BY <1>1, FirstHead, ShortQueues
<1> QED
  BY <1>1, <1>2 DEF InTurn

LEMMA InTurnStep ==
  ASSUME Typed, [Next]_vars, NEW r \in Range(Edges), InTurn(r)
  PROVE  InTurn(r)'
<1>1. r \in Router
  BY HomeIsKnown
<1>2. CASE iseBGP[r]
  BY <1>1, <1>2, EBGPStep DEF InTurn
<1>3. CASE phase = EBGP /\ ~Waits(r, IBGP)
  <2>1. CASE PostEBGP
    BY <1>1, <1>3, <2>1, FirstPosted DEF InTurn
  <2>2. CASE ~PostEBGP
    <3>1. phase' = phase /\ ~PostIBGP
      BY <1>3, <2>2, PhaseStep, ShortQueues DEF EBGP, IBGP, PostIBGP
    <3>2. ~Waits(r, IBGP)'
      BY <1>1, <1>3, <2>2, <3>1, WaitsStep, ShortQueues
    <3> QED
      BY <1>3, <3>1, <3>2 DEF InTurn
  <2> QED
    BY <2>1, <2>2
<1>4. CASE First(r, EBGP, IBGP)
  <2>1. First(r, EBGP, IBGP)' \/ StartEBGP(r)
    BY <1>1, <1>4, FirstStep, ShortQueues
  <2> QED
    BY <1>1, <2>1, EBGPStep DEF InTurn
<1> QED
  BY <1>2, <1>3, <1>4 DEF InTurn

LEMMA InnerStep ==
  ASSUME Typed, PCsHearPackets, HomeKnown, [Next]_vars, NEW r \in Router \ Range(Edges), Inner(r)
  PROVE  Inner(r)'
<1>1. ~iseBGP'[r]
  BY EBGPStep DEF Inner, PCsHearPackets
<1>2. StartIBGP(r) => Foreign(r) \subseteq DOMAIN fwd'[r]
  <2> SUFFICES ASSUME StartIBGP(r) PROVE Foreign(r) \subseteq DOMAIN fwd'[r]
    OBVIOUS
  <2>1. Exit(r) \in Range(Edges) /\ Exit(r) \in Router /\ asID[Exit(r)] = asID[r]
    BY ExitTaken DEF Inner
  <2>2. Exit(r) \in Node \ {r} /\ Home(Exit(r)) = asID[r]
    BY <2>1, HomeIsKnown, Ends
  <2>3. Exit(r) \in DOMAIN fwd[r]
    BY <2>2 DEF HomeKnown
  <2> QED
    BY <2>3, ExitTaken DEF Inner
<1>3. CASE phase = EBGP
  <2>1. phase' \in {EBGP, IBGP}
    BY <1>3, PhaseStep, ShortQueues DEF EBGP
  <2> QED
    BY <1>1, <2>1 DEF Inner, Reached
<1>4. CASE phase = IBGP
  <2>1. phase' = IBGP \/ PostIBGP
    BY <1>4, PhaseStep, ShortQueues DEF IBGP
  <2> QED
    BY <1>1, <2>1, IBGPPosted DEF Inner, Reached
<1>5. CASE Waits(r, IBGP)
  <2>1. Waits(r, IBGP)' \/ StartIBGP(r)
    BY <1>5, WaitsStep, ShortQueues
  <2> QED
    BY <1>1, <1>2, <2>1 DEF Inner, Reached, Foreign, Home
<1>6. CASE Foreign(r) \subseteq DOMAIN fwd[r]
  <2>1. DOMAIN fwd[r] \subseteq DOMAIN fwd'[r] \/ StartIBGP(r)
    BY KeysStep
  <2> QED
    BY <1>1, <1>2, <1>6, <2>1 DEF Inner, Reached, Foreign, Home
<1> QED
  BY <1>3, <1>4, <1>5, <1>6 DEF Inner, Reached

LEMMA EdgeStep ==
  ASSUME Typed, [Next]_vars, NEW r \in Range(Edges), InTurn(r), EdgeKnows(r)
  PROVE  EdgeKnows(r)' /\ DOMAIN fwd[r] \subseteq DOMAIN fwd'[r]
<1>1. r \in Router
  BY HomeIsKnown
<1>2. StartIBGP(r) => iseBGP[r] /\ fwd' = fwd
  BY <1>1, TurnOfIBGP DEF StartIBGP
<1>3. DOMAIN fwd[r] \subseteq DOMAIN fwd'[r]
  BY <1>1, <1>2, KeysStep
<1>4. DOMAIN table'[r] \cap PC \subseteq DOMAIN fwd'[r]
  BY <1>1, <1>2, <1>3, KeysStep DEF EdgeKnows
<1> QED
  BY <1>3, <1>4 DEF EdgeKnows

LEMMA Misfortunes ==
  ASSUME [Next]_vars
  PROVE  (misread => misread') /\ (crashed => crashed')
<1>1. crashed => crashed'
  BY CrashStops DEF vars, outcome
<1>2. misread' = misread \/ misread'
  BY DEF Next, Main, PostUpdate, PostEBGP, PostIBGP, PostPackets, RouterThread, PCThread,
         TurnOffProtocols, StartEBGP, StartIBGP, UpdateForwarding, UpdateRIP, UpdateOSPF,
         StartPCs, UpdatePC, vars, outcome
<1> QED
  BY <1>1, <1>2

(* A table that eBGP sent is merged, misread or ends the program.          *)
LEMMA TableStays ==
  ASSUME Typed, [Next]_vars, NEW r \in Range(Edges), InTurn(r), EdgeKnows(r),
         NEW m \in Peers(r) \ Mates(r), ~misread', ~crashed', TableWaits(r, m)
  PROVE  TableWaits(r, m)' \/ Own(m) \subseteq DOMAIN fwd'[r]
<1>1. r \in Router /\ r \in Node /\ m \in Links(r) /\ m \in Router /\ r \notin PC
  BY HomeIsKnown, Ends
<1>2. PICK msg \in Range(buffer[r][m]) : msg.type = "E" /\ Own(m) \subseteq DOMAIN msg.table
  BY DEF TableWaits
<1>3. Queue(buffer[r][m])
  BY <1>1 DEF Typed, Messages, Boxes
<1>4. Own(r)' = Own(r) /\ Own(m)' = Own(m)
  BY DEF Own, Home
<1>5. CASE msg \in Range(buffer'[r][m])
  BY <1>2, <1>4, <1>5 DEF TableWaits
<1>6. CASE msg \notin Range(buffer'[r][m])
  <2>1. buffer[r][m] # <<>> /\ buffer'[r][m] = Tail(buffer[r][m]) /\ Taken(r, m)
    <3>1. BoxIn(r, m)
      BY <1>1, BoxStep DEF BoxesIn
    <3> QED
      BY <1>2, <1>3, <1>6, <3>1, QueueAppend DEF BoxIn
  <2>2. m = Far(r) /\ ~Nothing(r) /\ msg = Front(r)
    BY <1>1, <1>2, <1>3, <1>6, <2>1, QueueTail DEF Taken, Nothing, Front
  <2>3. ~UpdateOSPF(r) /\ ~UpdateRIP(r)
    BY <1>2, <2>2 DEF UpdateOSPF, UpdateRIP
  <2>4. Merge(r, msg.table)
    BY <1>1, <1>2, <2>1, <2>2, <2>3 DEF Taken, UpdateForwarding
  <2>5. DOMAIN msg.table \ {r} \subseteq DOMAIN table'[r]
    <3>1. table'[r] = MergeCosts(r, table[r], msg.table)
      BY <1>1, <2>4 DEF Merge, Typed, Tables
    <3>2. \A k \in DOMAIN msg.table \ {r} :
            k \in DOMAIN table[r] \cup Improved(r, table[r], msg.table)
      BY DEF Improved
    <3> QED
      BY <3>1, <3>2 DEF MergeCosts
  <2>6. Own(m) \subseteq DOMAIN table'[r] /\ Own(m) \subseteq PC
    BY <1>1, <1>2, <2>5 DEF Own
  <2>7. DOMAIN table'[r] \cap PC \subseteq DOMAIN fwd'[r]
    BY EdgeStep DEF EdgeKnows
  <2> QED
    BY <2>6, <2>7
<1> QED
  BY <1>5, <1>6

LEMMA LearnedStep ==
  ASSUME Typed, [Next]_vars, NEW r \in Range(Edges), InTurn(r), EdgeKnows(r),
         NEW m \in Peers(r) \ Mates(r), Ready(m), ~misread', ~crashed', Learned(r, m)
  PROVE  Learned(r, m)'
<1>1. r \in Router /\ r \in Node /\ m \in Links(r) /\ m \in Router /\ r \notin PC
  BY HomeIsKnown, Ends
<1>2. asID[m] # asID[r] /\ r \in Peers(m) /\ m \in Range(Edges) /\ r \in Neighbours(m) \ Mates(m)
  <2>1. asID[m] # asID[r]
    BY DEF Mates
  <2>2. r \in Peers(m)
    BY <1>1, NeighboursAreNodes
  <2>3. r \notin Mates(m)
    BY <2>1 DEF Mates
  <2> QED
    BY <1>1, <2>1, <2>2, <2>3, BorderAssumption, Ends
<1>3. Own(m)' = Own(m)
  BY DEF Own, Home
<1>4. CASE phase = EBGP
  <2>1. phase' = EBGP \/ PostEBGP
    BY <1>4, PhaseStep, ShortQueues DEF EBGP
  <2> QED
    BY <1>1, <1>2, <2>1, FirstPosted DEF Learned
<1>5. CASE Waits(m, EBGP)
  <2>1. CASE Waits(m, EBGP)'
    BY <2>1 DEF Learned
  <2>2. CASE StartEBGP(m)
    <3> DEFINE msg == [type |-> "E", table |-> table[m]]
    <3>1. Own(m) \subseteq DOMAIN table[m]
      <4>1. Called(m, EBGP) /\ Waits(m, EBGP)
        BY <1>1, <2>2, QueueTyped, HeadWaits DEF StartEBGP
      <4>2. ~First(m, Off, EBGP)
        BY <1>1, <4>1, FirstHead, ShortQueues
      <4> QED
        BY <4>1, <4>2 DEF Ready
    <3>2. msg \in Range(buffer'[r][m])
      <4>1. buffer' = PushAll(buffer, m, Neighbours(m) \ Mates(m), msg)
        BY <2>2 DEF StartEBGP
      <4>2. Boxes(buffer) /\ Queue(buffer[r][m]) /\ Neighbours(m) \ Mates(m) \in SUBSET Neighbours(m)
        BY <1>1 DEF Typed, Messages, Boxes
      <4> HIDE DEF msg
      <4>3. buffer'[r][m] = Append(buffer[r][m], msg)
        BY <1>1, <1>2, <4>1, <4>2 DEF PushAll, Boxes
      <4> QED
        BY <4>2, <4>3, QueueAppend
    <3>3. msg.type = "E" /\ msg.table = table[m]
      OBVIOUS
    <3> HIDE DEF msg
    <3> QED
      BY <1>3, <3>1, <3>2, <3>3 DEF Learned, TableWaits
  <2> QED
    BY <1>1, <1>5, <2>1, <2>2, WaitsStep, ShortQueues
<1>6. CASE TableWaits(r, m)
  BY <1>3, <1>6, TableStays DEF Learned
<1>7. CASE Own(m) \subseteq DOMAIN fwd[r]
  BY <1>3, <1>7, EdgeStep DEF Learned
<1> QED
  BY <1>4, <1>5, <1>6, <1>7 DEF Learned

LEMMA SetUpInit ==
  ASSUME Init
  PROVE  SetUp
<1>1. /\ phase = EBGP /\ \A r \in Router : iseBGP[r] = FALSE /\ calls[r] = <<>>
  BY Ends DEF Init
<1>2. \A r \in Router : ~Waits(r, EBGP) /\ ~Waits(r, IBGP)
  BY <1>1 DEF Waits
<1>3. \A r \in Router : DOMAIN fwd[r] = DOMAIN InAS[r]
  <2> SUFFICES ASSUME NEW r \in Router PROVE DOMAIN fwd[r] = DOMAIN InAS[r]
    OBVIOUS
  <2>1. fwd[r] \in [DOMAIN InAS[r] -> Neighbours(r)]
    BY InitRoutes
  <2> QED
    BY <2>1
<1>4. HomeKnown
  BY <1>3, BorderAssumption DEF HomeKnown
<1>5. ASSUME NEW r \in Router PROVE Ready(r)
  <2>1. Protocol[asID[r]] = "RIP" \/ Protocol[asID[r]] = "OSPF"
    BY InterASAssumption
  <2>2. Protocol[asID[r]] = "RIP" => table[r] = InAS[r]
    BY InitRoutes
  <2> QED
    BY <1>1, <1>2, <2>1, <2>2, HomeIsKnown DEF Ready
<1>6. \A r \in Router : Inner(r) /\ InTurn(r)
  BY <1>1, <1>2 DEF Inner, Reached, InTurn
<1>7. ASSUME NEW r \in Range(Edges) PROVE EdgeKnows(r)
  <2>1. r \in Router
    BY HomeIsKnown
  <2>2. table[r] = InAS[r] \/ table[r] = LinkCosts(r)
    BY <2>1, InitRoutes
  <2>3. DOMAIN LinkCosts(r) \cap PC = {}
    BY <2>1, LinkTables, BorderAssumption
  <2> QED
    BY <1>3, <2>1, <2>2, <2>3 DEF EdgeKnows
<1>8. \A r, m : Learned(r, m)
  BY <1>1 DEF Learned
<1> QED
  BY <1>4, <1>5, <1>6, <1>7, <1>8, HomeIsKnown DEF SetUp

LEMMA SetUpStep ==
  ASSUME Typed, PCsHearPackets, SetUp, [Next]_vars
  PROVE  SetUp'
<1>1. HomeKnown' /\ (\A r \in Router : Ready(r)') /\ (\A r \in Router \ Range(Edges) : Inner(r)')
  BY HomeStep, ReadyStep, InnerStep DEF SetUp
<1>2. \A r \in Range(Edges) : InTurn(r)' /\ EdgeKnows(r)'
  BY InTurnStep, EdgeStep DEF SetUp
<1>3. ASSUME ~misread', ~crashed', NEW r \in Range(Edges), NEW m \in Peers(r) \ Mates(r)
      PROVE  Learned(r, m)'
  <2>1. m \in Router
    BY Ends, HomeIsKnown
  <2>2. Ready(m) /\ InTurn(r) /\ EdgeKnows(r)
    BY <2>1 DEF SetUp
  <2>3. ~misread /\ ~crashed
    BY <1>3, Misfortunes
  <2>4. Learned(r, m)
    BY <2>3 DEF SetUp
  <2> QED
    BY <1>3, <2>2, <2>4, LearnedStep
<1> QED
  BY <1>1, <1>2, <1>3 DEF SetUp

LEMMA SetUpAlways == Spec => [](Typed /\ PCsHearPackets /\ SetUp)
<1>1. Typed /\ PCsHearPackets /\ SetUp /\ [Next]_vars => (Typed /\ PCsHearPackets /\ SetUp)'
  BY TablesKept, MessagesKept, ControlKept, PCsHear, SetUpStep DEF Typed
<1> QED
  BY <1>1, InitTyped, HearInit, SetUpInit, PTL DEF Spec

(* Once its set-up is over a router has a port for every PC.               *)
LEMMA SettledKnowsAll ==
  ASSUME Typed, PCsHearPackets, SetUp, NEW r \in Router, Settled(r), ~misread, ~crashed
  PROVE  PC \subseteq DOMAIN fwd[r]
<1> SUFFICES ASSUME NEW k \in PC PROVE k \in DOMAIN fwd[r]
  OBVIOUS
<1>1. k \in Node \ {r}
  BY Ends
<1>2. CASE Home(k) = asID[r]
  BY <1>1, <1>2 DEF SetUp, HomeKnown
<1>3. CASE Home(k) # asID[r] /\ r \notin Range(Edges)
  <2>1. Foreign(r) \subseteq DOMAIN fwd[r]
    BY <1>3 DEF SetUp, Inner, Reached, Settled, EBGP, IBGP
  <2> QED
    BY <1>1, <1>3, <2>1 DEF Foreign
<1>4. CASE Home(k) # asID[r] /\ r \in Range(Edges)
  <2>1. PICK m \in Peers(r) : m \notin Mates(r)
    <3>1. Peers(r) # Mates(r) /\ Mates(r) \subseteq Peers(r)
      BY <1>4, BorderAssumption DEF Mates
    <3> QED
      BY <3>1
  <2>2. m \in Router /\ asID[m] # asID[r]
    BY <2>1, Ends DEF Mates
  <2>3. k \in Own(m)
    BY <1>4, <2>2, HomeIsKnown DEF Own, AS
  <2>4. ~Waits(m, EBGP) /\ ~TableWaits(r, m) /\ phase # EBGP
    BY <1>4, <2>1 DEF Settled, TableWaits, EBGP
  <2>5. Own(m) \subseteq DOMAIN fwd[r]
    BY <1>4, <2>1, <2>4 DEF SetUp, Learned
  <2> QED
    BY <2>3, <2>5
<1> QED
  BY <1>2, <1>3, <1>4

(* A packet is lost only where set-up is left to do: turnOffProtocols runs *)
(* before eBGP and eBGP before iBGP in every edge router, so the tables    *)
(* the edges exchange cover their systems (those of Init do, whatever the  *)
(* protocols leave in the program), and iBGP finds an exit.                *)
THEOREM LossesUnsettled == Spec => LostOnlyUnsettled
<1>1. Typed /\ PCsHearPackets /\ SetUp /\ [Next]_vars
        => [\A pair \in lost' \ lost : misread \/ ~Settled(pair[2])]_vars
  <2> SUFFICES ASSUME Typed, PCsHearPackets, SetUp, [Next]_vars,
                      NEW pair \in lost' \ lost, ~misread, Settled(pair[2])
               PROVE  FALSE
    OBVIOUS
  <2>1. ASSUME NEW r \in Router, UpdateForwarding(r) PROVE FALSE
    <3>1. ~crashed
      BY <2>1 DEF UpdateForwarding, Turn, Called
    <3>2. /\ ~Nothing(r) /\ Front(r).type = "M" /\ Dst[Front(r).packet] \notin DOMAIN fwd[r]
          /\ lost' = lost \cup {<<Front(r).packet, r>>}
      BY <2>1 DEF UpdateForwarding, Forward
    <3>3. pair[2] = r
      BY <3>2
    <3>4. Dst[Front(r).packet] \in PC
      BY <3>2, Forwarded, InterASAssumption
    <3> QED
      BY <3>1, <3>2, <3>3, <3>4, SettledKnowsAll
  <2>2. ASSUME NEW r \in Router, UpdateRIP(r) PROVE FALSE
    <3>1. on[r] /\ lost' \subseteq lost \cup {<<Front(r).packet, r>>}
      BY <2>2 DEF UpdateRIP
    <3>2. pair[2] = r
      BY <3>1
    <3> QED
      BY <3>1, <3>2 DEF Settled
  <2>3. ASSUME NEW r \in Router,
               TurnOffProtocols(r) \/ StartEBGP(r) \/ StartIBGP(r) \/ UpdateOSPF(r)
        PROVE  lost' = lost
    BY <2>3 DEF TurnOffProtocols, StartEBGP, StartIBGP, UpdateOSPF, outcome
  <2>4. ASSUME Main PROVE lost' = lost
    BY <2>4 DEF Main, PostUpdate, PostEBGP, PostIBGP, PostPackets, outcome
  <2>5. ASSUME NEW p \in PC, PCThread(p) PROVE lost' = lost
    BY <2>5 DEF PCThread, StartPCs, UpdatePC, outcome
  <2>6. ASSUME UNCHANGED vars PROVE lost' = lost
    BY <2>6 DEF vars, outcome
  <2> QED
    BY <2>1, <2>2, <2>3, <2>4, <2>5, <2>6 DEF Next, RouterThread
<1> QED
  BY <1>1, SetUpAlways, PTL DEF Spec, LostOnlyUnsettled

-----------------------------------------------------------------------------
(* Where both systems run OSPF: packets only go down.                      *)
AllOSPF == \A i \in AS : Protocol[i] = "OSPF"

(* The least cost of an edge router of r's AS.                             *)
ExitCosts(r) == {InAS[r][e] : e \in {x \in Range(Edges) : asID[x] = asID[r]}}
ExitCost(r)  == IF r \in Range(Edges) THEN 0
                ELSE CHOOSE c \in ExitCosts(r) : \A d \in ExitCosts(r) : c <= d

(* A packet for k goes down from q to n: into its home AS, there to fewer  *)
(* hops, outside it to a cheaper exit.                                     *)
Down(q, n, k) ==
  \/ asID[q] # Home(k) /\ asID[n] = Home(k)
  \/ asID[q] = Home(k) /\ asID[n] = Home(k) /\ InAS[n][k] < InAS[q][k]
  \/ asID[q] # Home(k) /\ asID[n] # Home(k) /\ ExitCost(n) < ExitCost(q)

(* The tables eBGP sends, and the costs iBGP chooses by, are those OSPF    *)
(* computed: nothing is merged between a router's turnOffProtocols and     *)
(* its startEBGP, nor in an inner router ever.                             *)
EBGPNext(r) ==
  \A i \in DOMAIN calls[r] : calls[r][i] = EBGP =>
    \/ i > 1 /\ calls[r][i - 1] = Off
    \/ i = 1 /\ table[r] = InAS[r] /\ port[r] = 1

Undisturbed(r) == \/ table[r] = InAS[r]
                  \/ phase = EBGP /\ ~Waits(r, IBGP)
                  \/ First(r, Off, IBGP)

AsSent(n, m) == \A msg \in Range(buffer[n][m]) :
                  msg.type = "E" => msg.table = InAS[m] /\ (n \in Router => asID[m] # asID[n])

Toward(r, k) == \/ fwd[r][k] = k
                \/ /\ fwd[r][k] \in Mates(r) /\ k \in DOMAIN InAS[fwd[r][k]]
                   /\ InAS[fwd[r][k]][k] < InAS[r][k]

RoutesDown ==
  /\ \A r \in Router : \A k \in DOMAIN fwd[r] :
       Home(k) = asID[r] /\ (k \in PC \/ r \notin Range(Edges)) => Toward(r, k)
  /\ \A r \in Router : \A k \in DOMAIN fwd[r] \cap PC :
       Home(k) # asID[r] /\ r \in Range(Edges) => fwd[r][k] \in Router /\ asID[fwd[r][k]] = Home(k)
  /\ \A r \in Router : \A k \in DOMAIN fwd[r] \cap PC :
       Home(k) # asID[r] /\ r \notin Range(Edges)
         => fwd[r][k] \in Mates(r) /\ ExitCost(fwd[r][k]) < ExitCost(r)

SentAsFound == /\ \A r \in Router : EBGPNext(r)
               /\ \A r \in Router \ Range(Edges) : Undisturbed(r)
               /\ \A n \in Node : \A m \in Links(n) : AsSent(n, m)

PathsDescend ==
  \A n \in Node : \A m \in Links(n) : \A msg \in Range(buffer[n][m]) :
    msg.type = "M" => /\ IsInjective(msg.path)
                      /\ n \in Router => \A q \in Range(msg.path) : Down(q, n, Dst[msg.packet])

LEMMA InASKeys ==
  ASSUME NEW r \in Router, NEW k \in DOMAIN InAS[r] \cap PC
  PROVE  Home(k) = asID[r]
<1>1. PICK d \in Nat \ {0} : InHops(r, k, d)
  BY InASTables DEF Hops
<1>2. PICK way \in [0..d -> Node] :
        /\ way[d] = k
        /\ \A i \in 0..(d - 1) : /\ way[i] \in Router /\ asID[way[i]] = asID[r]
                                 /\ way[i + 1] \in Neighbours(way[i])
  BY <1>1 DEF InHops
<1>3. d - 1 \in 0..(d - 1) /\ (d - 1) + 1 = d
  BY <1>1
<1>4. way[d - 1] \in Router /\ asID[way[d - 1]] = asID[r] /\ k \in Neighbours(way[d - 1])
  BY <1>2, <1>3
<1>5. way[d - 1] = Link(k)
  BY <1>4, Ends
<1> QED
  BY <1>4, <1>5 DEF Home

LEMMA HomeCosts ==
  ASSUME NEW r \in Router, NEW k \in Node \ {r}, Home(k) = asID[r]
  PROVE  k \in DOMAIN InAS[r] /\ InAS[r][k] \in Cost
BY BorderAssumption, InASTables DEF IsTable

LEMMA ExitCostLeast ==
  ASSUME NEW r \in Router
  PROVE  /\ ExitCost(r) \in Nat
         /\ r \in Range(Edges) => ExitCost(r) = 0
         /\ \A e \in Range(Edges) : r \notin Range(Edges) /\ asID[e] = asID[r] =>
              /\ e \in DOMAIN InAS[r] /\ InAS[r][e] \in Cost /\ ExitCost(r) <= InAS[r][e]
         /\ r \notin Range(Edges) =>
              \E e \in Range(Edges) : asID[e] = asID[r] /\ ExitCost(r) = InAS[r][e]
<1>1. CASE r \in Range(Edges)
  BY <1>1 DEF ExitCost
<1>2. CASE r \notin Range(Edges)
  <2>1. ASSUME NEW e \in Range(Edges), asID[e] = asID[r]
        PROVE  e \in DOMAIN InAS[r] /\ InAS[r][e] \in Cost
    <3>1. e \in Node \ {r} /\ Home(e) = asID[r]
      BY <1>2, <2>1, HomeIsKnown, Ends
    <3> QED
      BY <3>1, HomeCosts
  <2>2. ExitCosts(r) \in SUBSET Nat /\ ExitCosts(r) # {}
    <3>1. \A c \in ExitCosts(r) : c \in Nat
      BY <2>1 DEF ExitCosts, Cost
    <3>2. \E e \in Range(Edges) : asID[e] = asID[r]
      BY BorderAssumption
    <3> QED
      BY <3>1, <3>2 DEF ExitCosts
  <2>3. ExitCost(r) = CHOOSE c \in ExitCosts(r) : \A d \in ExitCosts(r) : c <= d
    BY <1>2 DEF ExitCost
  <2>4. ExitCost(r) \in ExitCosts(r) /\ \A d \in ExitCosts(r) : ExitCost(r) <= d
    <3>1. \E c \in ExitCosts(r) : \A d \in ExitCosts(r) : c <= d
      BY <2>2, Least
    <3> QED
      BY <2>3, <3>1
  <2> QED
    BY <1>2, <2>1, <2>2, <2>4 DEF ExitCosts
<1> QED
  BY <1>1, <1>2

LEMMA DownIsOrder ==
  ASSUME NEW q \in Router, NEW r \in Router, NEW n \in Router, NEW k \in PC
  PROVE  /\ ~Down(r, r, k)
         /\ Down(q, r, k) /\ Down(r, n, k) => Down(q, n, k)
<1>1. \A x \in Router : ExitCost(x) \in Nat /\ (Home(k) = asID[x] => InAS[x][k] \in Nat)
  <2> SUFFICES ASSUME NEW x \in Router
               PROVE  ExitCost(x) \in Nat /\ (Home(k) = asID[x] => InAS[x][k] \in Nat)
    OBVIOUS
  <2>1. k \in Node \ {x}
    BY Ends
  <2> QED
    BY <2>1, HomeCosts, ExitCostLeast DEF Cost
<1> QED
  BY <1>1 DEF Down

-----------------------------------------------------------------------------
(* What is merged and what is chosen by.                                   *)
LEMMA MergedSent ==
  ASSUME AllOSPF, Typed, SentAsFound, NEW r \in Router, NEW new, Merged(r, new)
  PROVE  /\ new = InAS[Far(r)] /\ Far(r) \in Router /\ asID[Far(r)] # asID[r]
         /\ r \in Range(Edges) /\ ~on[r] /\ UpdateForwarding(r)
<1>1. Far(r) \in Peers(r) /\ Far(r) \in Router /\ Turning(r)
  BY Ends DEF Merged
<1>2. ~UpdateRIP(r)
  BY InterASAssumption DEF UpdateRIP, AllOSPF
<1>3. ~on[r] /\ UpdateForwarding(r)
  BY <1>1, <1>2 DEF Turning, UpdateForwarding
<1>4. Front(r).type = "E" /\ new = Front(r).table
  BY <1>3 DEF Merged
<1>5. Front(r) \in Range(buffer[r][Far(r)]) /\ r \in Node /\ Far(r) \in Links(r)
  BY <1>1, FarEnd DEF Turning
<1>6. new = InAS[Far(r)] /\ asID[Far(r)] # asID[r]
  BY <1>4, <1>5 DEF SentAsFound, AsSent
<1>7. r \in Range(Edges)
  BY <1>1, <1>6, BorderAssumption DEF Mates
<1> QED
  BY <1>1, <1>3, <1>6, <1>7

(* While a router's loop is not under way only the oldest call changes its *)
(* tables.                                                                 *)
LEMMA Resting ==
  ASSUME Typed, [Next]_vars, NEW r \in Router, port[r] = 1,
         calls'[r] = calls[r] \/ PostUpdate \/ PostEBGP \/ PostIBGP
  PROVE  table'[r] = table[r] /\ port'[r] = 1
<1>1. r \in Node /\ calls[r] \in Seq(Slots \cup Packets) /\ r \notin PC
  BY QueueTyped, Ends
<1>2. \/ ~(calls[r] # <<>> /\ calls'[r] = Tail(calls[r]))
      \/ PostUpdate \/ PostEBGP \/ PostIBGP
  <2>1. \A s \in Seq(Slots \cup Packets) : s # <<>> => Len(Tail(s)) # Len(s)
    BY HeadTailProperties, LenProperties
  <2> QED
    BY <1>1, <2>1
<1>3. table = [q \in Router |-> table[q]] /\ port \in [Router -> Nat]
  BY DEF Typed, Tables, Control
<1>4. CASE PostUpdate \/ PostEBGP \/ PostIBGP \/ PostPackets
  BY <1>4 DEF PostUpdate, PostEBGP, PostIBGP, PostPackets, routes
<1>5. CASE UNCHANGED vars
  BY <1>5 DEF vars, routes
<1>6. ASSUME NEW p \in PC, PCThread(p) PROVE table'[r] = table[r] /\ port'[r] = 1
  BY <1>6 DEF PCThread, StartPCs, UpdatePC, routes
<1>7. ASSUME NEW q \in Router, RouterThread(q), q # r PROVE table'[r] = table[r] /\ port'[r] = 1
  BY <1>3, <1>7 DEF RouterThread, TurnOffProtocols, StartEBGP, StartIBGP, UpdateForwarding,
       UpdateRIP, UpdateOSPF, Turn, Merge, routes
<1>8. ASSUME RouterThread(r) PROVE calls[r] # <<>> /\ calls'[r] = Tail(calls[r])
  <2>1. \E c : Called(r, c)
    BY <1>8 DEF RouterThread, TurnOffProtocols, StartEBGP, StartIBGP, UpdateForwarding,
         UpdateRIP, UpdateOSPF, Turn
  <2> QED
    BY <1>1, <2>1, CalledTakes
<1> QED
  BY <1>2, <1>4, <1>5, <1>6, <1>7, <1>8 DEF Next, Main

LEMMA EBGPNextStep ==
  ASSUME AllOSPF, Typed, [Next]_vars, NEW r \in Router, EBGPNext(r)
  PROVE  EBGPNext(r)'
<1> DEFINE T == Slots \cup Packets
           s == calls[r]
<1>1. r \in Node /\ s \in Seq(T) /\ r \notin PC /\ Len(s) \in Nat /\ DOMAIN s = 1..Len(s)
  BY QueueTyped, Ends, LenProperties
<1>2. CASE calls'[r] = s
  <2> SUFFICES ASSUME NEW i \in DOMAIN calls'[r], calls'[r][i] = EBGP
               PROVE  \/ i > 1 /\ calls'[r][i - 1] = Off
                      \/ i = 1 /\ table'[r] = InAS[r] /\ port'[r] = 1
    BY DEF EBGPNext, InAS, Hops, InHops
  <2>1. \/ i > 1 /\ calls'[r][i - 1] = Off
        \/ i = 1 /\ table[r] = InAS[r] /\ port[r] = 1
    BY <1>2 DEF EBGPNext
  <2> QED
    BY <1>2, <2>1, Resting
<1>3. CASE s # <<>> /\ calls'[r] = Tail(s) /\ Took(r)
  <2> SUFFICES ASSUME NEW i \in DOMAIN Tail(s), Tail(s)[i] = EBGP
               PROVE  \/ i > 1 /\ Tail(s)[i - 1] = Off
                      \/ i = 1 /\ table'[r] = InAS[r] /\ port'[r] = 1
    BY <1>3 DEF EBGPNext
  <2>1. /\ i \in 1..(Len(s) - 1) /\ \A j \in 1..(Len(s) - 1) : Tail(s)[j] = s[j + 1]
        /\ Head(s) = s[1]
    <3> HIDE DEF s
    <3>1. Tail(s) \in Seq(T) /\ Len(Tail(s)) = Len(s) - 1
      BY <1>1, <1>3, HeadTailProperties
    <3> QED
      BY <1>1, <1>3, <3>1, HeadTailProperties, LenProperties
  <2>2. i + 1 \in DOMAIN s /\ s[i + 1] = EBGP /\ i + 1 > 1 /\ (i + 1) - 1 = i /\ i + 1 # 1
    BY <1>1, <2>1
  <2>3. s[i] = Off
    BY <2>2 DEF EBGPNext
  <2>4. CASE i = 1
    <3>1. Head(s) = Off
      BY <2>1, <2>3, <2>4
    <3>2. TurnOffProtocols(r)
      BY <1>1, <1>3, <3>1, ShortQueues DEF Took
    <3>3. table'[r] = InAS[r]
      BY <3>2, InterASAssumption DEF TurnOffProtocols, AllOSPF, Typed, Tables
    <3>4. port'[r] = 1
      BY <3>2 DEF TurnOffProtocols, Called
    <3> QED
      BY <2>4, <3>3, <3>4
  <2>5. CASE i # 1
    <3>1. i - 1 \in 1..(Len(s) - 1) /\ (i - 1) + 1 = i /\ i > 1
      BY <1>1, <2>1, <2>5
    <3> QED
      BY <2>1, <2>3, <3>1
  <2> QED
    BY <2>4, <2>5
<1>4. ASSUME NEW u \in Seq(T), calls'[r] = s \o u, PostUpdate \/ PostEBGP \/ PostIBGP,
             \A j \in 1..Len(u) : u[j] = EBGP => j > 1 /\ u[j - 1] = Off
      PROVE  EBGPNext(r)'
  <2> SUFFICES ASSUME NEW i \in DOMAIN calls'[r], calls'[r][i] = EBGP
               PROVE  \/ i > 1 /\ calls'[r][i - 1] = Off
                      \/ i = 1 /\ table'[r] = InAS[r] /\ port'[r] = 1
    BY DEF EBGPNext, InAS, Hops, InHops
  <2>1. /\ Len(u) \in Nat /\ i \in 1..(Len(s) + Len(u))
        /\ \A j \in 1..(Len(s) + Len(u)) : calls'[r][j] = IF j <= Len(s) THEN s[j] ELSE u[j - Len(s)]
    <3> HIDE DEF s
    <3>1. /\ s \o u \in Seq(T) /\ Len(u) \in Nat /\ Len(s \o u) = Len(s) + Len(u)
          /\ \A j \in 1..(Len(s) + Len(u)) : (s \o u)[j] = IF j <= Len(s) THEN s[j] ELSE u[j - Len(s)]
      BY <1>1, ConcatProperties, LenProperties
    <3> QED
      BY <1>4, <3>1, LenProperties
  <2>2. CASE i <= Len(s)
    <3>1. i \in DOMAIN s /\ s[i] = EBGP
      BY <1>1, <2>1, <2>2
    <3>2. CASE i = 1
      <4>1. table[r] = InAS[r] /\ port[r] = 1
        BY <3>1, <3>2 DEF EBGPNext
      <4>2. table'[r] = table[r] /\ port'[r] = 1
        BY <1>4, <4>1, Resting
      <4> QED
        BY <3>2, <4>1, <4>2
    <3>3. CASE i # 1
      <4>1. i > 1 /\ s[i - 1] = Off
        BY <3>1, <3>3 DEF EBGPNext
      <4>2. i - 1 \in 1..(Len(s) + Len(u)) /\ i - 1 <= Len(s)
        BY <1>1, <2>1, <2>2, <4>1
      <4> QED
        BY <2>1, <4>1, <4>2
    <3> QED
      BY <3>2, <3>3
  <2>3. CASE i > Len(s)
    <3>1. i - Len(s) \in 1..Len(u) /\ u[i - Len(s)] = EBGP
      BY <1>1, <2>1, <2>3
    <3>2. i - Len(s) > 1 /\ u[(i - Len(s)) - 1] = Off
      BY <1>4, <3>1
    <3>3. i - 1 \in 1..(Len(s) + Len(u)) /\ ~(i - 1 <= Len(s)) /\ (i - Len(s)) - 1 = (i - 1) - Len(s) /\ i > 1
      BY <1>1, <2>1, <3>2
    <3> QED
      BY <2>1, <3>2, <3>3
  <2> QED
    BY <1>1, <2>1, <2>2, <2>3
<1>5. /\ <<Update>> \in Seq(T) /\ <<IBGP>> \in Seq(T) /\ <<Off>> \in Seq(T) /\ <<Off, EBGP>> \in Seq(T)
  BY DEF Slots
<1>6. /\ Len(<<Update>>) = 1 /\ Len(<<IBGP>>) = 1 /\ Len(<<Off>>) = 1 /\ Len(<<Off, EBGP>>) = 2
      /\ <<Update>>[1] # EBGP /\ <<IBGP>>[1] # EBGP /\ <<Off>>[1] # EBGP
      /\ <<Off, EBGP>>[1] = Off /\ Off # EBGP
  BY ShortQueues
<1>7. 1..1 = {1} /\ 1..2 = {1, 2} /\ 2 > 1 /\ 2 - 1 = 1
  OBVIOUS
<1> HIDE DEF T, s
<1>8. CASE PostUpdate /\ calls'[r] = s \o <<Update>>
  BY <1>4, <1>5, <1>6, <1>7, <1>8
<1>9. CASE PostIBGP /\ calls'[r] = s \o <<IBGP>>
  BY <1>4, <1>5, <1>6, <1>7, <1>9
<1>10. CASE PostEBGP /\ calls'[r] = s \o <<Off>>
  BY <1>4, <1>5, <1>6, <1>7, <1>10
<1>11. CASE PostEBGP /\ calls'[r] = s \o <<Off, EBGP>>
  BY <1>4, <1>5, <1>6, <1>7, <1>11
<1> QED
  BY <1>1, <1>2, <1>3, <1>8, <1>9, <1>10, <1>11, CallStep DEF CallIn, s

LEMMA InnerTable ==
  ASSUME AllOSPF, Typed, SentAsFound, [Next]_vars, NEW r \in Router \ Range(Edges)
  PROVE  table'[r] = table[r] \/ table'[r] = InAS[r]
<1>1. \A new : ~Merged(r, new)
  BY MergedSent
<1>2. table = [q \in Router |-> table[q]]
  BY DEF Typed, Tables
<1> QED
  BY <1>1, <1>2, TableStep

LEMMA UndisturbedStep ==
  ASSUME AllOSPF, Typed, SentAsFound, [Next]_vars, NEW r \in Router \ Range(Edges)
  PROVE  Undisturbed(r)'
<1>1. Undisturbed(r)
  BY DEF SentAsFound
<1>2. table'[r] = InAS[r] => Undisturbed(r)'
  BY DEF Undisturbed, InAS, Hops, InHops
<1>3. CASE table[r] = InAS[r]
  BY <1>2, <1>3, InnerTable
<1>4. CASE phase = EBGP /\ ~Waits(r, IBGP)
  <2>1. CASE PostEBGP
    BY <1>4, <2>1, FirstPosted DEF Undisturbed
  <2>2. CASE ~PostEBGP
    <3>1. phase' = phase /\ ~PostIBGP
      BY <1>4, <2>2, PhaseStep, ShortQueues DEF EBGP, IBGP, PostIBGP
    <3>2. ~Waits(r, IBGP)'
      BY <1>4, <2>2, <3>1, WaitsStep, ShortQueues
    <3> QED
      BY <1>4, <3>1, <3>2 DEF Undisturbed
  <2> QED
    BY <2>1, <2>2
<1>5. CASE First(r, Off, IBGP)
  <2>1. First(r, Off, IBGP)' \/ TurnOffProtocols(r)
    BY <1>5, FirstStep, ShortQueues
  <2>2. TurnOffProtocols(r) => table'[r] = InAS[r]
    BY InterASAssumption DEF TurnOffProtocols, AllOSPF, Typed, Tables
  <2> QED
    BY <1>2, <2>1, <2>2 DEF Undisturbed
<1> QED
  BY <1>1, <1>3, <1>4, <1>5 DEF Undisturbed

LEMMA AsSentStep ==
  ASSUME AllOSPF, Typed, SentAsFound, [Next]_vars, NEW n \in Node, NEW m \in Links(n)
  PROVE  AsSent(n, m)'
<1> SUFFICES ASSUME NEW msg \in Range(buffer'[n][m]), msg.type = "E"
             PROVE  msg.table = InAS[m] /\ (n \in Router => asID[m] # asID[n])
  BY DEF AsSent, InAS, Hops, InHops
<1>1. CASE msg \in Range(buffer[n][m])
  BY <1>1 DEF SentAsFound, AsSent
<1>2. CASE Sent(n, m, msg)
  <2>1. ~UpdateRIP(m) \/ m \notin Router
    BY InterASAssumption DEF UpdateRIP, AllOSPF
  <2>2. CASE m \in Router /\ StartEBGP(m) /\ Head(calls[m]) = EBGP
             /\ n \in Neighbours(m) \ Mates(m) /\ msg = [type |-> "E", table |-> table[m]]
    <3>1. m \in Node /\ calls[m] \in Seq(Slots \cup Packets) /\ calls[m] # <<>>
      BY <2>2, QueueTyped DEF StartEBGP, Called
    <3>2. 1 \in DOMAIN calls[m] /\ calls[m][1] = EBGP
      BY <2>2, <3>1, HeadTailProperties, LenProperties, ElementOfSeq
    <3>3. table[m] = InAS[m]
      BY <2>2, <3>2 DEF SentAsFound, EBGPNext
    <3>4. n \in Router => asID[m] # asID[n]
      BY <2>2 DEF Mates, Peers
    <3> QED
      BY <2>2, <3>3, <3>4
  <2>3. ASSUME m \in Router, ~Nothing(m), Front(m).type = "M",
               msg = [Front(m) EXCEPT !.path = Append(@, m)]
        PROVE  FALSE
    <3>1. msg.type = "M"
      BY <2>3, Forwarded
    <3> QED
      BY <3>1
  <2>4. ~ \E packet : msg = [type |-> "M", packet |-> packet, path |-> <<>>]
    OBVIOUS
  <2> QED
    BY <1>2, <2>1, <2>2, <2>3, <2>4 DEF Sent
<1> QED
  BY <1>1, <1>2, Heard

LEMMA SentAsFoundStep ==
  ASSUME AllOSPF, Typed, SentAsFound, [Next]_vars
  PROVE  SentAsFound'
<1>1. \A r \in Router : EBGPNext(r)'
  BY EBGPNextStep DEF SentAsFound
<1>2. \A r \in Router \ Range(Edges) : Undisturbed(r)'
  BY UndisturbedStep
<1>3. \A n \in Node : \A m \in Links(n) : AsSent(n, m)'
  BY AsSentStep
<1> QED
  BY <1>1, <1>2, <1>3 DEF SentAsFound, Links, Link

LEMMA SentAsFoundInit ==
  ASSUME Init
  PROVE  SentAsFound
<1>1. \A r \in Router : r \in Node /\ calls[r] = <<>>
  BY Ends DEF Init
<1>2. \A r \in Router : EBGPNext(r)
  BY <1>1 DEF EBGPNext
<1>3. \A r \in Router : Undisturbed(r)
  BY <1>1 DEF Undisturbed, Waits, Init
<1>4. ASSUME NEW n \in Node, NEW m \in Links(n) PROVE AsSent(n, m)
  <2>1. buffer[n][m] = <<>>
    BY DEF Init
  <2> QED
    BY <2>1, QueueEmpty DEF AsSent
<1> QED
  BY <1>2, <1>3, <1>4, HomeIsKnown DEF SentAsFound

-----------------------------------------------------------------------------
(* Every port leads down.                                                  *)
LEMMA RoutesInit ==
  ASSUME Init
  PROVE  RoutesDown
<1>1. \A r \in Router : \A k \in DOMAIN fwd[r] : Toward(r, k)
  BY InitRoutes DEF Toward
<1>2. \A r \in Router : \A k \in DOMAIN fwd[r] \cap PC : Home(k) = asID[r]
  BY InitRoutes, InASKeys
<1> QED
  BY <1>1, <1>2 DEF RoutesDown

(* The next hop to the exit an inner router chooses is nearer to an edge.  *)
LEMMA ExitDown ==
  ASSUME AllOSPF, Typed, SentAsFound, RoutesDown, NEW r \in Router \ Range(Edges),
         StartIBGP(r), Exit(r) \in DOMAIN fwd[r]
  PROVE  fwd[r][Exit(r)] \in Mates(r) /\ ExitCost(fwd[r][Exit(r)]) < ExitCost(r)
<1> DEFINE e == Exit(r)
           f == fwd[r][e]
<1>1. Called(r, IBGP) /\ Waits(r, IBGP)
  BY QueueTyped, HeadWaits DEF StartIBGP
<1>2. ~First(r, Off, IBGP)
  BY <1>1, FirstHead, ShortQueues
<1>3. table[r] = InAS[r]
  BY <1>1, <1>2 DEF SentAsFound, Undisturbed
<1>4. /\ e \in Range(Edges) /\ e \in Router /\ asID[e] = asID[r]
      /\ \A x \in Range(Edges) :
           asID[x] = asID[r] /\ {x, e} \subseteq DOMAIN InAS[r] => InAS[r][e] <= InAS[r][x]
  <2>1. IsTable(table[r])
    BY DEF Typed, Tables
  <2> QED
    BY <1>3, <2>1, ExitIsEdge
<1>5. Toward(r, e)
  BY <1>4, HomeIsKnown DEF RoutesDown
<1> HIDE DEF e
<1>6. e \in DOMAIN InAS[r] /\ InAS[r][e] \in Cost
  BY <1>4, ExitCostLeast
<1>7. InAS[r][e] <= ExitCost(r) /\ ExitCost(r) \in Cost
  <2>1. PICK x \in Range(Edges) : asID[x] = asID[r] /\ ExitCost(r) = InAS[r][x]
    BY ExitCostLeast
  <2>2. x \in DOMAIN InAS[r] /\ InAS[r][x] \in Cost
    BY <2>1, ExitCostLeast
  <2> QED
    BY <1>4, <1>6, <2>1, <2>2
<1>8. f \in Neighbours(r)
  BY DEF Typed, Tables, e
<1>9. CASE f = e
  <2>1. e \in Mates(r)
    BY <1>4, <1>8, <1>9 DEF Mates, Peers
  <2>2. ExitCost(e) = 0
    BY <1>4, ExitCostLeast
  <2> QED
    BY <1>7, <1>9, <2>1, <2>2 DEF Cost, e
<1>10. CASE f \in Mates(r) /\ e \in DOMAIN InAS[f] /\ InAS[f][e] < InAS[r][e]
  <2>1. f \in Router /\ asID[f] = asID[r]
    BY <1>10 DEF Mates, Peers
  <2>2. CASE f \in Range(Edges)
    <3>1. ExitCost(f) = 0
      BY <2>1, <2>2, ExitCostLeast
    <3> QED
      BY <1>7, <1>10, <3>1 DEF Cost, e
  <2>3. CASE f \notin Range(Edges)
    <3>1. ExitCost(f) \in Nat /\ InAS[f][e] \in Cost /\ ExitCost(f) <= InAS[f][e]
      BY <1>4, <2>1, <2>3, ExitCostLeast
    <3>2. ExitCost(f) < ExitCost(r)
      BY <1>6, <1>7, <1>10, <3>1 DEF Cost
    <3> QED
      BY <1>10, <3>2 DEF e
  <2> QED
    BY <2>2, <2>3
<1> QED
  BY <1>5, <1>9, <1>10 DEF Toward, e

(* What a route of the next state is: an old one, the first hop to the     *)
(* exit, or the port a foreign AS's table came by.                         *)
LEMMA RouteStep ==
  ASSUME AllOSPF, Typed, SetUp, SentAsFound, [Next]_vars,
         NEW r \in Router, NEW k \in DOMAIN fwd'[r]
  PROVE  \/ k \in DOMAIN fwd[r] /\ fwd'[r][k] = fwd[r][k]
         \/ /\ r \notin Range(Edges) /\ Home(k) # asID[r] /\ StartIBGP(r)
            /\ Exit(r) \in DOMAIN fwd[r] /\ fwd'[r][k] = fwd[r][Exit(r)]
         \/ /\ r \in Range(Edges) /\ fwd'[r][k] \in Router /\ asID[fwd'[r][k]] # asID[r]
            /\ k \in PC => asID[fwd'[r][k]] = Home(k)
<1>1. CASE fwd'[r] = fwd[r]
  BY <1>1
<1>2. CASE StartIBGP(r) /\ fwd'[r] # fwd[r]
  <2>1. ~iseBGP[r]
    BY <1>2 DEF StartIBGP
  <2>2. r \notin Range(Edges)
    BY <1>2, <2>1, TurnOfIBGP DEF SetUp
  <2>3. CASE k \in Foreign(r)
    <3>1. fwd'[r][k] = fwd[r][Exit(r)] /\ Exit(r) \in DOMAIN fwd[r]
      BY <1>2, <2>1, <2>3, ExitTaken
    <3> QED
      BY <1>2, <2>2, <2>3, <3>1 DEF Foreign
  <2>4. CASE k \notin Foreign(r)
    BY <1>2, <2>1, <2>4, ExitTaken
  <2> QED
    BY <2>3, <2>4
<1>3. ASSUME NEW new, Merged(r, new)
      PROVE  \/ k \in DOMAIN fwd[r] /\ fwd'[r][k] = fwd[r][k]
             \/ /\ r \in Range(Edges) /\ fwd'[r][k] \in Router /\ asID[fwd'[r][k]] # asID[r]
                /\ k \in PC => asID[fwd'[r][k]] = Home(k)
  <2>1. /\ new = InAS[Far(r)] /\ Far(r) \in Router /\ asID[Far(r)] # asID[r]
        /\ r \in Range(Edges)
    BY <1>3, MergedSent
  <2>2. CASE k \in Improved(r, table[r], new)
    <3>1. fwd'[r][k] = Far(r)
      BY <1>3, <2>2, TablesMerged
    <3>2. k \in DOMAIN InAS[Far(r)]
      BY <2>1, <2>2 DEF Improved
    <3>3. k \in PC => Home(k) = asID[Far(r)]
      BY <2>1, <3>2, InASKeys
    <3> QED
      BY <2>1, <3>1, <3>3
  <2>3. CASE k \notin Improved(r, table[r], new)
    BY <1>3, <2>3, TablesMerged
  <2> QED
    BY <2>2, <2>3
<1>4. fwd = [q \in Router |-> fwd[q]]
  BY DEF Typed, Tables
<1> QED
  BY <1>1, <1>2, <1>3, <1>4, TableStep

LEMMA RoutesStep ==
  ASSUME AllOSPF, Typed, SetUp, SentAsFound, RoutesDown, [Next]_vars
  PROVE  RoutesDown'
<1>1. ASSUME NEW r \in Router, NEW k \in DOMAIN fwd'[r],
             Home(k) = asID[r], k \in PC \/ r \notin Range(Edges)
      PROVE  Toward(r, k)'
  <2>1. k \in DOMAIN fwd[r] /\ fwd'[r][k] = fwd[r][k]
    BY <1>1, RouteStep
  <2>2. Toward(r, k)
    BY <1>1, <2>1 DEF RoutesDown
  <2> QED
    BY <2>1, <2>2 DEF Toward, Mates, Peers, InAS, Hops, InHops
<1>2. ASSUME NEW r \in Router, NEW k \in DOMAIN fwd'[r] \cap PC,
             Home(k) # asID[r], r \in Range(Edges)
      PROVE  fwd'[r][k] \in Router /\ asID[fwd'[r][k]] = Home(k)
  BY <1>2, RouteStep DEF RoutesDown
<1>3. ASSUME NEW r \in Router, NEW k \in DOMAIN fwd'[r] \cap PC,
             Home(k) # asID[r], r \notin Range(Edges)
      PROVE  fwd'[r][k] \in Mates(r) /\ ExitCost(fwd'[r][k]) < ExitCost(r)
  <2>1. CASE k \in DOMAIN fwd[r] /\ fwd'[r][k] = fwd[r][k]
    BY <1>3, <2>1 DEF RoutesDown
  <2>2. CASE StartIBGP(r) /\ Exit(r) \in DOMAIN fwd[r] /\ fwd'[r][k] = fwd[r][Exit(r)]
    BY <1>3, <2>2, ExitDown
  <2> QED
    BY <1>3, <2>1, <2>2, RouteStep
<1> QED
  BY <1>1, <1>2, <1>3 DEF RoutesDown

LEMMA RouteDown ==
  ASSUME Typed, RoutesDown, NEW r \in Router, NEW k \in PC, k \in DOMAIN fwd[r], fwd[r][k] \in Router
  PROVE  Down(r, fwd[r][k], k)
<1>1. CASE Home(k) = asID[r]
  <2>1. Toward(r, k)
    BY <1>1 DEF RoutesDown
  <2>2. fwd[r][k] # k
    BY Ends
  <2>3. asID[fwd[r][k]] = asID[r] /\ InAS[fwd[r][k]][k] < InAS[r][k]
    BY <2>1, <2>2 DEF Toward, Mates
  <2> QED
    BY <1>1, <2>3 DEF Down
<1>2. CASE Home(k) # asID[r] /\ r \in Range(Edges)
  BY <1>2 DEF RoutesDown, Down
<1>3. CASE Home(k) # asID[r] /\ r \notin Range(Edges)
  BY <1>3 DEF RoutesDown, Down, Mates
<1> QED
  BY <1>1, <1>2, <1>3

LEMMA LongerInjective ==
  ASSUME NEW S, NEW s \in Seq(S), NEW x, IsInjective(s), x \notin Range(s)
  PROVE  IsInjective(Append(s, x))
<1>1. /\ DOMAIN s = 1..Len(s) /\ Len(s) \in Nat
      /\ s \in Seq(S \cup {x})
  BY SeqMonotonic
<1>2. /\ DOMAIN Append(s, x) = 1..(Len(s) + 1)
      /\ \A i \in 1..Len(s) : Append(s, x)[i] = s[i]
      /\ Append(s, x)[Len(s) + 1] = x
  BY <1>1, AppendProperties, LenProperties
<1>3. ASSUME NEW i \in 1..(Len(s) + 1), NEW j \in 1..(Len(s) + 1), Append(s, x)[i] = Append(s, x)[j]
      PROVE  i = j
  <2>1. CASE i = Len(s) + 1 /\ j \in 1..Len(s)
    BY <1>1, <1>2, <1>3, <2>1 DEF Range
  <2>2. CASE j = Len(s) + 1 /\ i \in 1..Len(s)
    BY <1>1, <1>2, <1>3, <2>2 DEF Range
  <2>3. CASE i \in 1..Len(s) /\ j \in 1..Len(s)
    BY <1>1, <1>2, <1>3, <2>3 DEF IsInjective
  <2> QED
    BY <1>1, <2>1, <2>2, <2>3
<1> QED
  BY <1>2, <1>3 DEF IsInjective

LEMMA PathsStep ==
  ASSUME Typed, RoutesDown, PathsDescend, [Next]_vars
  PROVE  PathsDescend'
<1> SUFFICES ASSUME NEW n \in Node, NEW m \in Links(n), NEW msg \in Range(buffer'[n][m]), msg.type = "M"
             PROVE  /\ IsInjective(msg.path)
                    /\ n \in Router => \A q \in Range(msg.path) : Down(q, n, Dst[msg.packet])
  BY DEF PathsDescend, Links, Link, Down, InAS, Hops, InHops, ExitCost, ExitCosts, Home
<1>1. CASE msg \in Range(buffer[n][m])
  BY <1>1 DEF PathsDescend
<1>2. CASE \E packet \in Packets : msg = [type |-> "M", packet |-> packet, path |-> <<>>]
  BY <1>2 DEF IsInjective, Range
<1>3. ASSUME m \in Router, ~Nothing(m), Front(m).type = "M",
             Dst[Front(m).packet] \in DOMAIN fwd[m], n = fwd[m][Dst[Front(m).packet]],
             msg = [Front(m) EXCEPT !.path = Append(@, m)]
      PROVE  /\ IsInjective(msg.path)
             /\ n \in Router => \A q \in Range(msg.path) : Down(q, n, Dst[msg.packet])
  <2> DEFINE path == Front(m).path
             k    == Dst[Front(m).packet]
  <2>1. /\ path \in Seq(Router) /\ Front(m).packet \in Packets
        /\ msg.path = Append(path, m) /\ msg.packet = Front(m).packet
    BY <1>3, Forwarded
  <2>2. k \in PC
    BY <2>1, InterASAssumption
  <2>3. /\ m \in Node /\ Far(m) \in Links(m) /\ Front(m) \in Range(buffer[m][Far(m)])
    BY <1>3, FarEnd
  <2>4. IsInjective(path) /\ \A q \in Range(path) : Down(q, m, k)
    BY <1>3, <2>3 DEF PathsDescend
  <2>5. Range(path) \subseteq Router /\ Queue(path)
    <3> HIDE DEF path
    <3> QED
      BY <2>1, SeqOfRange DEF Range, Queue
  <2> HIDE DEF path
  <2>6. m \notin Range(path)
    <3>1. ~Down(m, m, k)
      <4> HIDE DEF k
      <4> QED
        BY <1>3, <2>2, DownIsOrder
    <3> QED
      BY <2>4, <3>1
  <2>7. IsInjective(Append(path, m)) /\ Range(Append(path, m)) = Range(path) \cup {m}
    <3>1. IsInjective(Append(path, m))
      BY <2>1, <2>4, <2>6, LongerInjective
    <3>2. Range(Append(path, m)) = Range(path) \cup {m}
      BY <2>5, QueueAppend
    <3> QED
      BY <3>1, <3>2
  <2>8. ASSUME n \in Router, NEW q \in Range(path) \cup {m} PROVE Down(q, n, k)
    <3>1. Down(m, n, k)
      BY <1>3, <2>2, <2>8, RouteDown
    <3> HIDE DEF k
    <3> QED
      BY <1>3, <2>2, <2>4, <2>5, <2>8, <3>1, DownIsOrder
  <2> QED
    BY <2>1, <2>7, <2>8
<1>4. CASE Sent(n, m, msg)
  <2>1. msg.type # "E" /\ msg.type # "P"
    OBVIOUS
  <2> QED
    BY <1>2, <1>3, <1>4, <2>1 DEF Sent
<1> QED
  BY <1>1, <1>4, Heard

LEMMA PathsInit ==
  ASSUME Init
  PROVE  PathsDescend
<1>1. \A n \in Node : \A m \in Links(n) : buffer[n][m] = <<>>
  BY DEF Init
<1> QED
  BY <1>1, QueueEmpty DEF PathsDescend

LEMMA PathsAreLoopFree ==
  ASSUME Typed, PathsDescend
  PROVE  NoPacketLoops
<1> SUFFICES ASSUME NEW n \in Node, NEW m \in Links(n), NEW i \in DOMAIN buffer[n][m],
                    buffer[n][m][i].type = "M"
             PROVE  IsInjective(buffer[n][m][i].path)
  BY DEF NoPacketLoops
<1>1. buffer[n][m][i] \in Range(buffer[n][m])
  BY DEF Range
<1> QED
  BY <1>1 DEF PathsDescend

(* In an OSPF network no packet visits a router twice, whichever of its    *)
(* routers have come how far with the set-up: at home the hops decrease,   *)
(* abroad the cost of the nearest exit, and an edge router hands what is   *)
(* foreign to the other system only.                                       *)
THEOREM LoopFreeOSPF == AllOSPF => (Spec => []NoPacketLoops)
<1> SUFFICES ASSUME AllOSPF PROVE Spec => []NoPacketLoops
  OBVIOUS
<1>1. Init => SentAsFound /\ RoutesDown /\ PathsDescend
  BY SentAsFoundInit, RoutesInit, PathsInit
<1>2. Typed /\ SetUp /\ SentAsFound /\ RoutesDown /\ PathsDescend /\ [Next]_vars
        => SentAsFound' /\ RoutesDown' /\ PathsDescend'
  BY SentAsFoundStep, RoutesStep, PathsStep
<1>3. Typed /\ PathsDescend => NoPacketLoops
  BY PathsAreLoopFree
<1> QED
  BY <1>1, <1>2, <1>3, SetUpAlways, PTL DEF Spec
=============================================================================
