------------------------------ MODULE Routing -------------------------------
(***************************************************************************)
(* What an intra-AS protocol promises of the tables it builds, whatever    *)
(* its packets look like: a router changes only its own tables, never      *)
(* forgets a destination, and replaces a route only by a strictly cheaper  *)
(* one through a peer that is itself cheaper than the new cost.  Rip and    *)
(* Ospf implement it.                                                      *)
(***************************************************************************)
EXTENDS RouteTable

VARIABLES table,  \* table[r]: destination -> cost
          fwd     \* fwd[r]: destination -> port

vars == <<table, fwd>>

Init == /\ table = [r \in Router |-> LinkCosts(r)]
        /\ fwd = [r \in Router |-> LinkPorts(r)]

Kept(r, k) == /\ k \in DOMAIN table[r]
              /\ table'[r][k] = table[r][k]
              /\ fwd'[r][k] = fwd[r][k]

Learned(r, k, m) == /\ k # r
                    /\ k \in DOMAIN table[m]
                    /\ table'[r][k] > table[m][k]
                    /\ k \in DOMAIN table[r] => table'[r][k] < table[r][k]
                    /\ fwd'[r][k] = m

Improve(r) ==
  /\ table' = [table EXCEPT ![r] = table'[r]]
  /\ fwd' = [fwd EXCEPT ![r] = fwd'[r]]
  /\ IsTable(table'[r])
  /\ DOMAIN table[r] \subseteq DOMAIN table'[r]
  /\ fwd'[r] \in [DOMAIN table'[r] -> Neighbours(r)]
  /\ \A k \in DOMAIN table'[r] : Kept(r, k) \/ \E m \in Peers(r) : Learned(r, k, m)

Next == \E r \in Router : Improve(r)

Spec == Init /\ [][Next]_vars

TypeOK ==
  /\ table = [r \in Router |-> table[r]]
  /\ fwd = [r \in Router |-> fwd[r]]
  /\ \A r \in Router :
       /\ IsTable(table[r])
       /\ fwd[r] \in [DOMAIN table[r] -> Neighbours(r)]

(* A router holds no route to itself (the `key == _id` test of the merge). *)
NoOwnRoute == \A r \in Router : r \notin DOMAIN table[r]

(* Every hop gets cheaper: the port a router forwards to destination k is  *)
(* k's own link, or leads to a peer whose cost to k is strictly smaller.   *)
NextHopCloser ==
  \A r \in Router : \A k \in DOMAIN fwd[r] :
    \/ fwd[r][k] = k
    \/ /\ fwd[r][k] \in Peers(r)
       /\ k \in DOMAIN table[fwd[r][k]]
       /\ table[fwd[r][k]][k] < table[r][k]

(* No forwarding loop or trap: among any routers that all have a route to  *)
(* k, some one forwards packets for k out of the group.                    *)
NoForwardingLoop ==
  \A k \in Node : \A S \in SUBSET Router :
    (S # {} /\ \A r \in S : k \in DOMAIN fwd[r]) => \E r \in S : fwd[r][k] \notin S
=============================================================================
