-------------------------- MODULE RouteTableProofs --------------------------
(***************************************************************************)
(* What the initial tables and the merge of a received table guarantee, and *)
(* why tables that change as Routing allows never lead packets in a loop.   *)
(***************************************************************************)
EXTENDS RouteTable, TLAPS, SequenceTheorems, WellFoundedInduction

(* A neighbour is a node, and a peer is a router linked both ways; from    *)
(* the shape of the topology that bindNodes builds.                        *)
LEMMA NeighboursAreNodes ==
  ASSUME NEW r \in Router
  PROVE  /\ Neighbours(r) \subseteq Node
         /\ r \notin Neighbours(r)
         /\ \A m \in Peers(r) : m \in Router /\ m # r /\ r \in Peers(m)
<1>1. Ports[r] \in Seq(Node)
  BY TopologyAssumption
<1>2. \A i \in DOMAIN Ports[r] : Ports[r][i] \in Node
  BY <1>1
<1> QED
  BY <1>2, TopologyAssumption DEF Neighbours, Peers, Range

(* bindDestPort gives every router well-formed tables with no route to     *)
(* itself.                                                                 *)
LEMMA LinkTables ==
  ASSUME NEW r \in Router
  PROVE  /\ IsTable(LinkCosts(r))
         /\ DOMAIN LinkCosts(r) = Neighbours(r)
         /\ LinkPorts(r) \in [Neighbours(r) -> Neighbours(r)]
         /\ r \notin DOMAIN LinkCosts(r)
         /\ \A k \in Neighbours(r) : LinkPorts(r)[k] = k
BY NeighboursAreNodes DEF LinkCosts, LinkPorts, IsTable, Cost

(* updateDistanceVector keeps the tables well formed and over the same     *)
(* destinations, forgets none and never adds the router itself.            *)
LEMMA MergeIsTable ==
  ASSUME NEW r \in Router, NEW t, NEW new, NEW f, NEW m \in Neighbours(r),
         IsTable(t), IsTable(new), r \notin DOMAIN t,
         f \in [DOMAIN t -> Neighbours(r)]
  PROVE  /\ IsTable(MergeCosts(r, t, new))
         /\ DOMAIN t \subseteq DOMAIN MergeCosts(r, t, new)
         /\ r \notin DOMAIN MergeCosts(r, t, new)
         /\ MergePorts(r, t, f, new, m)
              \in [DOMAIN MergeCosts(r, t, new) -> Neighbours(r)]
<1> DEFINE D == DOMAIN t \cup Improved(r, t, new)
<1>1. Improved(r, t, new) \subseteq DOMAIN new \ {r}
  BY DEF Improved
<1>2. D \subseteq Node \ {r}
  BY <1>1 DEF IsTable, Node
<1>3. \A k \in Improved(r, t, new) : new[k] + 1 \in Cost
  BY <1>1 DEF IsTable, Cost
<1>4. \A k \in DOMAIN t : t[k] \in Cost
  BY DEF IsTable
<1>5. MergeCosts(r, t, new) \in [D -> Cost]
  BY <1>3, <1>4 DEF MergeCosts
<1>6. MergePorts(r, t, f, new, m) \in [D -> Neighbours(r)]
  BY DEF MergePorts
<1> QED
  BY <1>2, <1>5, <1>6 DEF IsTable

(* Every entry after the merge is the old one, or came with the packet     *)
(* and is one more than the packet's, strictly less than what it replaces. *)
LEMMA MergeEntries ==
  ASSUME NEW r \in Router, NEW t, NEW new, NEW f, NEW m \in Neighbours(r),
         IsTable(t), IsTable(new), f \in [DOMAIN t -> Neighbours(r)],
         NEW k \in DOMAIN MergeCosts(r, t, new)
  PROVE  \/ /\ k \in DOMAIN t
            /\ MergeCosts(r, t, new)[k] = t[k]
            /\ MergePorts(r, t, f, new, m)[k] = f[k]
         \/ /\ k # r
            /\ k \in DOMAIN new
            /\ MergeCosts(r, t, new)[k] = new[k] + 1
            /\ k \in DOMAIN t => MergeCosts(r, t, new)[k] < t[k]
            /\ MergePorts(r, t, f, new, m)[k] = m
<1>1. DOMAIN MergeCosts(r, t, new) = DOMAIN t \cup Improved(r, t, new)
  BY DEF MergeCosts
<1>2. CASE k \in Improved(r, t, new)
  <2>1. /\ k # r
        /\ k \in DOMAIN new
        /\ k \in DOMAIN t => t[k] > new[k] + 1
    BY <1>2 DEF Improved
  <2>2. MergeCosts(r, t, new)[k] = new[k] + 1
    BY <1>2 DEF MergeCosts
  <2>3. MergePorts(r, t, f, new, m)[k] = m
    BY <1>2 DEF MergePorts
  <2>4. new[k] \in Nat /\ (k \in DOMAIN t => t[k] \in Nat)
    BY <2>1 DEF IsTable, Cost
  <2> QED
    BY <2>1, <2>2, <2>3, <2>4
<1>3. CASE k \notin Improved(r, t, new)
  <2>1. k \in DOMAIN t
    BY <1>1, <1>3
  <2>2. MergeCosts(r, t, new)[k] = t[k]
    BY <1>3, <2>1 DEF MergeCosts
  <2>3. MergePorts(r, t, f, new, m)[k] = f[k]
    BY <1>3, <2>1 DEF MergePorts
  <2> QED
    BY <2>1, <2>2, <2>3
<1> QED
  BY <1>2, <1>3

(* Taking the front packet leaves older ones only (port::receive). *)
LEMMA PopBuffer ==
  ASSUME NEW s, IsBuffer(s), s # <<>>
  PROVE  /\ IsBuffer(Tail(s))
         /\ Head(s) \in Range(s)
         /\ Range(Tail(s)) \subseteq Range(s)
<1>1. s \in Seq(Range(s))
  BY DEF IsBuffer
<1>2. /\ Head(s) = s[1]
      /\ 1 \in DOMAIN s
      /\ Tail(s) \in Seq(Range(s))
      /\ Len(Tail(s)) = Len(s) - 1
      /\ \A i \in 1..Len(Tail(s)) : Tail(s)[i] = s[i + 1]
  BY <1>1
<1>3. \A i \in DOMAIN Tail(s) : i + 1 \in DOMAIN s /\ Tail(s)[i] = s[i + 1]
  BY <1>1, <1>2
<1>4. Range(Tail(s)) \subseteq Range(s)
  BY <1>3 DEF Range
<1>5. Tail(s) \in Seq(Range(Tail(s)))
  BY <1>2, SeqOfRange
<1> QED
  BY <1>2, <1>4, <1>5 DEF IsBuffer, Range

(* Appending a packet adds that packet only (port::send). *)
LEMMA PushBuffer ==
  ASSUME NEW s, NEW t, IsBuffer(s), IsTable(t)
  PROVE  /\ IsBuffer(Append(s, t))
         /\ Range(Append(s, t)) \subseteq Range(s) \cup {t}
<1>1. s \in Seq(Range(s))
  BY DEF IsBuffer
<1>2. /\ Append(s, t) \in Seq(Range(s) \cup {t})
      /\ Len(Append(s, t)) = Len(s) + 1
  BY <1>1
<1>3. Range(Append(s, t)) \subseteq Range(s) \cup {t}
  BY <1>2 DEF Range
<1>4. Append(s, t) \in Seq(Range(Append(s, t)))
  BY <1>2, SeqOfRange
<1> QED
  BY <1>3, <1>4 DEF IsBuffer

(* bindDestPort's routes are ways of one link, and a way of a peer is one  *)
(* of the router's own with a link more.                                   *)
LEMMA LinkWay ==
  ASSUME NEW r \in Router, NEW k \in Neighbours(r)
  PROVE  IsWay(r, k, 1)
<1> DEFINE way == [i \in 0..1 |-> IF i = 0 THEN r ELSE k]
<1>1. r \in Node /\ k \in Node
  BY NeighboursAreNodes DEF Node
<1>2. way \in [0..1 -> Node] /\ way[0] = r /\ way[1] = k
  BY <1>1
<1>3. \A i \in 0..(1 - 1) : way[i] \in Router /\ way[i + 1] \in Neighbours(way[i])
  <2>1. 0..(1 - 1) = {0} /\ way[0 + 1] = k
    BY <1>2
  <2> HIDE DEF way
  <2> QED
    BY <1>2, <2>1
<1> HIDE DEF way
<1> QED
  BY <1>2, <1>3 DEF IsWay

LEMMA LongerWay ==
  ASSUME NEW r \in Router, NEW m \in Peers(r), NEW k, NEW d \in Nat, IsWay(m, k, d)
  PROVE  IsWay(r, k, d + 1)
<1>1. PICK way \in [0..d -> Node] :
        /\ way[0] = m /\ way[d] = k
        /\ \A i \in 0..(d - 1) : way[i] \in Router /\ way[i + 1] \in Neighbours(way[i])
  BY DEF IsWay
<1> DEFINE longer == [i \in 0..(d + 1) |-> IF i = 0 THEN r ELSE way[i - 1]]
<1>2. /\ longer \in [0..(d + 1) -> Node]
      /\ longer[0] = r /\ longer[d + 1] = k
      /\ \A i \in 0..d : longer[i + 1] = way[i]
  BY <1>1 DEF Node
<1>3. longer[0] \in Router /\ longer[1] \in Neighbours(longer[0])
  BY <1>1, <1>2 DEF Peers
<1>4. ASSUME NEW i \in 1..d
      PROVE  longer[i] \in Router /\ longer[i + 1] \in Neighbours(longer[i])
  <2>1. i - 1 \in 0..(d - 1) /\ i - 1 \in 0..d /\ i \in 0..d /\ (i - 1) + 1 = i
    OBVIOUS
  <2>2. longer[i] = way[i - 1] /\ longer[i + 1] = way[i]
    BY <1>2, <2>1
  <2> QED
    BY <1>1, <2>1, <2>2
<1>5. 0..((d + 1) - 1) = {0} \cup 1..d
  OBVIOUS
<1> HIDE DEF longer
<1> QED
  BY <1>2, <1>3, <1>4, <1>5 DEF IsWay
-----------------------------------------------------------------------------
(* Routing's promise, of all routers' tables t and ports f (its types, no  *)
(* route to oneself, every hop closer), and its step, from t and f to u    *)
(* and g.                                                                  *)
WellRouted(t, f) ==
  /\ t = [q \in Router |-> t[q]] /\ f = [q \in Router |-> f[q]]
  /\ \A q \in Router :
       /\ IsTable(t[q]) /\ q \notin DOMAIN t[q]
       /\ f[q] \in [DOMAIN t[q] -> Neighbours(q)]
       /\ \A k \in DOMAIN f[q] :
            \/ f[q][k] = k
            \/ f[q][k] \in Peers(q) /\ k \in DOMAIN t[f[q][k]] /\ t[f[q][k]][k] < t[q][k]

Improves(r, t, f, u, g) ==
  /\ u = [t EXCEPT ![r] = u[r]] /\ g = [f EXCEPT ![r] = g[r]]
  /\ IsTable(u[r]) /\ DOMAIN t[r] \subseteq DOMAIN u[r]
  /\ g[r] \in [DOMAIN u[r] -> Neighbours(r)]
  /\ \A k \in DOMAIN u[r] :
       \/ k \in DOMAIN t[r] /\ u[r][k] = t[r][k] /\ g[r][k] = f[r][k]
       \/ \E m \in Peers(r) :
            /\ k # r /\ k \in DOMAIN t[m] /\ u[r][k] > t[m][k]
            /\ k \in DOMAIN t[r] => u[r][k] < t[r][k]
            /\ g[r][k] = m

(* bindDestPort's tables lead to neighbours only. *)
LEMMA LinksWellRouted ==
  WellRouted([r \in Router |-> LinkCosts(r)], [r \in Router |-> LinkPorts(r)])
BY LinkTables DEF WellRouted

(* An improvement keeps every next hop closer: a new entry is above the    *)
(* entry of the peer it came from, and entries only get cheaper.           *)
LEMMA ImprovesWellRouted ==
  ASSUME NEW t, NEW f, NEW u, NEW g, NEW r \in Router,
         WellRouted(t, f), Improves(r, t, f, u, g)
  PROVE  WellRouted(u, g)
<1>1. /\ u = [q \in Router |-> u[q]] /\ g = [q \in Router |-> g[q]]
      /\ \A q \in Router \ {r} : u[q] = t[q] /\ g[q] = f[q]
  BY DEF Improves, WellRouted
<1>2. /\ IsTable(u[r]) /\ g[r] \in [DOMAIN u[r] -> Neighbours(r)]
      /\ DOMAIN t[r] \subseteq DOMAIN u[r]
      /\ \A k \in DOMAIN u[r] :
           \/ k \in DOMAIN t[r] /\ u[r][k] = t[r][k] /\ g[r][k] = f[r][k]
           \/ \E m \in Peers(r) :
                /\ k # r /\ k \in DOMAIN t[m] /\ u[r][k] > t[m][k]
                /\ k \in DOMAIN t[r] => u[r][k] < t[r][k]
                /\ g[r][k] = m
  BY DEF Improves
<1>3. \A q \in Router : /\ IsTable(t[q]) /\ q \notin DOMAIN t[q]
                        /\ f[q] \in [DOMAIN t[q] -> Neighbours(q)]
  BY DEF WellRouted
<1>4. r \notin DOMAIN u[r]
  BY <1>2, <1>3
<1>5. \A q \in Router : /\ IsTable(u[q]) /\ q \notin DOMAIN u[q]
                        /\ g[q] \in [DOMAIN u[q] -> Neighbours(q)]
  BY <1>1, <1>2, <1>3, <1>4
<1>6. \A q \in Router : \A k \in DOMAIN t[q] :
        /\ k \in DOMAIN u[q] /\ u[q][k] \in Nat /\ t[q][k] \in Nat
        /\ u[q][k] <= t[q][k]
  <2>1. \A q \in Router : \A k \in DOMAIN t[q] : t[q][k] \in Nat
    BY <1>3 DEF IsTable, Cost
  <2>2. \A k \in DOMAIN u[r] : u[r][k] \in Nat
    BY <1>2 DEF IsTable, Cost
  <2>3. \A k \in DOMAIN t[r] : u[r][k] <= t[r][k]
    BY <1>2, <2>1, <2>2
  <2> QED
    BY <1>1, <1>2, <2>1, <2>2, <2>3
<1>7. ASSUME NEW q \in Router, NEW k \in DOMAIN g[q], g[q][k] # k
      PROVE  g[q][k] \in Peers(q) /\ k \in DOMAIN u[g[q][k]] /\ u[g[q][k]][k] < u[q][k]
  <2>1. k \in DOMAIN u[q] /\ u[q][k] \in Nat
    BY <1>5 DEF IsTable, Cost
  <2>2. CASE k \in DOMAIN f[q] /\ u[q][k] = t[q][k] /\ g[q][k] = f[q][k]
    <3> DEFINE m == f[q][k]
    <3>1. m \in Peers(q) /\ k \in DOMAIN t[m] /\ t[m][k] < t[q][k]
      BY <1>7, <2>2 DEF WellRouted
    <3>2. m \in Router
      BY <3>1 DEF Peers
    <3>3. k \in DOMAIN t[q]
      BY <1>3, <2>2
    <3> QED
      BY <1>6, <2>2, <3>1, <3>2, <3>3
  <2>3. CASE q # r
    BY <1>1, <1>3, <2>1, <2>2, <2>3
  <2>4. CASE q = r /\ \E m \in Peers(r) : k \in DOMAIN t[m] /\ u[r][k] > t[m][k] /\ g[r][k] = m
    <3>1. PICK m \in Peers(r) : k \in DOMAIN t[m] /\ u[r][k] > t[m][k] /\ g[r][k] = m
      BY <2>4
    <3>2. m \in Router /\ m # r
      BY <3>1, NeighboursAreNodes
    <3>3. k \in DOMAIN u[m] /\ u[m][k] < u[r][k]
      BY <1>6, <2>1, <2>4, <3>1, <3>2
    <3> QED
      BY <2>4, <3>1, <3>3
  <2>5. CASE q = r
    BY <1>2, <1>3, <2>1, <2>2, <2>4, <2>5
  <2> QED
    BY <2>3, <2>5
<1> QED
  BY <1>1, <1>5, <1>7 DEF WellRouted

(* Next hops that get cheaper cannot go round: the cheapest router of a    *)
(* group forwards out of it.                                               *)
LEMMA NoWayRound ==
  ASSUME NEW t, NEW f, WellRouted(t, f), NEW k \in Node, NEW S \in SUBSET Router, S # {},
         \A r \in S : k \in DOMAIN f[r]
  PROVE  \E r \in S : f[r][k] \notin S
<1>1. \A r \in S : k \in DOMAIN t[r] /\ t[r][k] \in Nat /\ r \notin DOMAIN t[r]
  <2>1. \A r \in S : /\ IsTable(t[r]) /\ r \notin DOMAIN t[r]
                     /\ f[r] \in [DOMAIN t[r] -> Neighbours(r)]
    BY DEF WellRouted
  <2>2. \A r \in S : k \in DOMAIN t[r]
    BY <2>1
  <2> QED
    BY <2>1, <2>2 DEF IsTable, Cost
<1> DEFINE Costs == {t[r][k] : r \in S}
<1>2. Costs \subseteq Nat /\ Costs # {}
  BY <1>1
<1>3. PICK n \in Costs : \A c \in Costs : <<c, n>> \notin OpToRel(<, Nat)
  <2>1. IsWellFoundedOn(OpToRel(<, Nat), Nat)
    BY NatLessThanWellFounded
  <2> QED
    BY <1>2, <2>1, WFMin
<1>4. PICK r \in S : t[r][k] = n
  BY <1>3
<1>5. \A q \in S : ~(t[q][k] < t[r][k])
  BY <1>1, <1>3, <1>4 DEF OpToRel
<1>6. k \notin S
  BY <1>1
<1>7. f[r][k] = k \/ t[f[r][k]][k] < t[r][k]
  BY DEF WellRouted
<1> QED
  BY <1>5, <1>6, <1>7
=============================================================================
