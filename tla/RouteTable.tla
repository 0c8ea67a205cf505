----------------------------- MODULE RouteTable -----------------------------
(***************************************************************************)
(* A router's tables.  The QHash of costs (rip::table, lsp::table) and the *)
(* forwarding table are partial functions on Node, a missing key being     *)
(* outside the domain.  updateDistanceVector and updateLsp in router.cpp   *)
(* are the same merge, modelled once here.                                 *)
(***************************************************************************)
EXTENDS Topology

Cost == Nat \ {0}

IsTable(t) == /\ DOMAIN t \subseteq Node
              /\ t \in [DOMAIN t -> Cost]

(* A port's buffer: the tables of its packets, oldest first. *)
IsBuffer(s) == /\ s \in Seq(Range(s))
               /\ \A t \in Range(s) : IsTable(t)

(* bindDestPort: a cost of one and the port itself for every linked node. *)
LinkCosts(r) == [k \in Neighbours(r) |-> 1]
LinkPorts(r) == [k \in Neighbours(r) |-> k]

(* Mutants of the merge: it takes any cost that differs, or drops the keys *)
(* it has no cost for yet.                                                 *)
AnyDifference(r, t, new) ==
  {k \in DOMAIN new \ {r} : k \in DOMAIN t => t[k] # new[k] + 1}
OnlyKnown(r, t, new) ==
  {k \in DOMAIN new \ {r} : k \in DOMAIN t /\ t[k] > new[k] + 1}

(* The keys of a received table that the merge writes: never the router's  *)
(* own id, new keys always, known ones only when strictly cheaper.         *)
Improved(r, t, new) ==
  {k \in DOMAIN new \ {r} : k \in DOMAIN t => t[k] > new[k] + 1}

(* Mutant: the hop to the sender is not counted. *)
MergeWithoutHop(r, t, new) ==
  [k \in DOMAIN t \cup Improved(r, t, new) |->
     IF k \in Improved(r, t, new) THEN new[k] ELSE t[k]]

MergeCosts(r, t, new) ==
  [k \in DOMAIN t \cup Improved(r, t, new) |->
     IF k \in Improved(r, t, new) THEN new[k] + 1 ELSE t[k]]

(* The forwarding table after the merge of what came in by port m. *)
MergePorts(r, t, f, new, m) ==
  [k \in DOMAIN f \cup Improved(r, t, new) |->
     IF k \in Improved(r, t, new) THEN m ELSE f[k]]
=============================================================================
