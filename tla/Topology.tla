------------------------------ MODULE Topology ------------------------------
(***************************************************************************)
(* The links of the simulated network (src/A3/Topology.txt), as bindNodes  *)
(* in main.cpp wires them.  Router is the set of routers of one autonomous *)
(* system; Outside holds the nodes a router of it may be linked to but     *)
(* never speaks the intra-AS protocol with: PCs and routers of another AS. *)
(* A port is named by the node at its far end, which identifies it because *)
(* the topology links two nodes at most once.                              *)
(***************************************************************************)
EXTENDS Naturals, Sequences, FiniteSets, Functions

CONSTANTS Router,   \* the routers of one AS
          Outside,  \* PCs and foreign routers linked to them
          Ports     \* Ports[r]: far ends of r's ports, in addNewPort order

Node == Router \cup Outside

Neighbours(r) == Range(Ports[r])

(* The ports whose far end has the router's own asID. *)
Peers(r) == Neighbours(r) \cap Router

ASSUME TopologyAssumption ==
  /\ Router \cap Outside = {}
  /\ Ports \in [Router -> Seq(Node)]
  /\ \A r \in Router :
       /\ Len(Ports[r]) > 0
       /\ r \notin Neighbours(r)
       /\ \A i, j \in DOMAIN Ports[r] : Ports[r][i] = Ports[r][j] => i = j
  /\ \A r, m \in Router : m \in Neighbours(r) => r \in Neighbours(m)

(* d links lead from r to k, crossing routers only.                        *)
IsWay(r, k, d) ==
  \E way \in [0..d -> Node] :
    /\ way[0] = r /\ way[d] = k
    /\ \A i \in 0..(d - 1) : way[i] \in Router /\ way[i + 1] \in Neighbours(way[i])

(* Reference definition of the distance between nodes: the nodes within d  *)
(* links of r, crossing routers only, and the least d that reaches k.      *)
Within(r) ==
  LET W[d \in Nat] ==
        IF d = 0 THEN {r}
        ELSE W[d - 1] \cup UNION {Neighbours(q) : q \in W[d - 1] \cap Router}
  IN W

Distance(r, k) ==
  CHOOSE d \in 0..Cardinality(Router) : k \in Within(r)[d] /\ (d > 0 => k \notin Within(r)[d - 1])
=============================================================================
