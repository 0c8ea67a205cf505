------------------------------ MODULE InterAS ------------------------------
(***************************************************************************)
(* What follows the two autonomous systems' own protocols                  *)
(* (src/A3/main.cpp and router.cpp): RIP or OSPF is turned off, the edge   *)
(* routers exchange tables (eBGP), the others route everything foreign to  *)
(* their nearest edge router (iBGP), and PCs send packets.  main posts     *)
(* these phases from timers and waits for nobody, so a node may still have *)
(* calls of several phases in its queue.  Here Router is the routers of    *)
(* both systems and Outside is the PCs.                                    *)
(***************************************************************************)
EXTENDS RouteTable

CONSTANTS asID,      \* the AS of each router; a PC's asID is neither
          Protocol,  \* "RIP" or "OSPF" for each AS
          Edges,     \* the edge routers, by id: edgeRoutersIDs
          Packets,   \* the packets of sendFromPC
          Src, Dst,  \* the PCs selectPCtoSend draws for each
          MaxQueue   \* bound: update calls that may wait for a thread

PC == Outside
AS == {1, 2}

Update == "update"
Off    == "turnOffProtocols"
EBGP   == "startEBGP"
IBGP   == "startIBGP"

(* A router's slots; a PC's startPCs is queued as its packet. *)
Slots == {Update, Off, EBGP, IBGP}

ASSUME InterASAssumption ==
  /\ asID \in [Router -> AS]
  /\ Protocol \in [AS -> {"RIP", "OSPF"}]
  /\ Edges \in Seq(Router)
  /\ \A p \in PC : \E r \in Router : \A q \in Router : p \in Neighbours(q) <=> q = r
  /\ {Src, Dst} \subseteq [Packets -> PC]
  /\ IsFiniteSet(Packets) /\ Packets \cap Slots = {}
  /\ MaxQueue \in Nat \ {0}

Link(p) == CHOOSE r \in Router : p \in Neighbours(r)

Links(n) == IF n \in PC THEN {Link(n)} ELSE Neighbours(n)

Mates(r) == {m \in Peers(r) : asID[m] = asID[r]}

Home(k) == IF k \in PC THEN asID[Link(k)] ELSE asID[k]

(* Mutant: all ids. *)
Everything(r) == Node \ {r}

(* The ids startIBGP lists: 17-24 and 33-37 in AS 1, 1-16 and 25-32 in 2.  *)
Foreign(r) == {k \in Node : Home(k) # asID[r]}

VARIABLES
  table,      \* distanceVector.table of each router
  fwd,        \* forwardingTable; a port 0 in the code is a missing key here
  buffer,     \* buffer[n][m]: what waits in n's port towards m
  calls,      \* slot calls queued for n's thread, oldest first
  port,       \* index of update's loop over ports, 1 outside it
  on,         \* isRIPstart or isOSPFstart, the one that counts
  iseBGP,
  phase,      \* the next thing main does
  calm,       \* when main let the PCs send, all set-up was over
  arrived,    \* <<packet, PC>> for every packet a PC has printed
  lost,       \* <<packet, router>> for every packet forward() had no port for
  misread,    \* a protocol not yet turned off has decoded an eBGP table
  crashed     \* an index out of range in a decode ended the program

routes   == <<table, fwd, on, iseBGP>>
outcome  == <<arrived, lost, misread, crashed>>
vars     == <<routes, buffer, calls, port, phase, calm, outcome>>

-----------------------------------------------------------------------------
(* Where the AS protocols leave the tables: the hops to every node the AS  *)
(* reaches without crossing a foreign router, and a neighbour on a         *)
(* shortest way as next hop.                                               *)
InHops(r, k, d) ==
  \E way \in [0..d -> Node] :
    /\ way[0] = r /\ way[d] = k
    /\ \A i \in 0..(d - 1) : /\ way[i] \in Router /\ asID[way[i]] = asID[r]
                             /\ way[i + 1] \in Neighbours(way[i])

Hops(r, k) == {d \in 1..Cardinality(Router) : InHops(r, k, d)}

InAS == [r \in Router |-> [k \in {n \in Node \ {r} : Hops(r, n) # {}} |->
                            CHOOSE d \in Hops(r, k) : \A e \in Hops(r, k) : d <= e]]

(* As in Topology.txt: the edge routers are those with a link into the     *)
(* other AS, none of them has a PC, every AS has one, and an AS reaches    *)
(* all that is its own.                                                    *)
ASSUME BorderAssumption ==
  /\ \A r \in Router : r \in Range(Edges) <=> Peers(r) # Mates(r)
  /\ \A r \in Range(Edges) : Neighbours(r) \cap PC = {}
  /\ \A r \in Router : \E e \in Range(Edges) : asID[e] = asID[r]
  /\ \A r \in Router : \A k \in Node \ {r} : Home(k) = asID[r] => k \in DOMAIN InAS[r]

NextHops(r) ==
  {f \in [DOMAIN InAS[r] -> Neighbours(r)] :
     \A k \in DOMAIN f : \/ f[k] = k
                         \/ /\ k \notin Neighbours(r) /\ f[k] \in Mates(r)
                            /\ k \in DOMAIN InAS[f[k]] /\ InAS[f[k]][k] < InAS[r][k]}

(* OSPF keeps its costs in lsdb until turnOffProtocols; RIP may still run  *)
(* in any router but the one whose RIPFinished ended it.                   *)
Init ==
  /\ table = [r \in Router |-> IF Protocol[asID[r]] = "RIP" THEN InAS[r] ELSE LinkCosts(r)]
  /\ fwd \in {f \in [Router -> UNION {NextHops(r) : r \in Router}] :
                \A r \in Router : f[r] \in NextHops(r)}
  /\ buffer = [n \in Node |-> [m \in Links(n) |-> <<>>]]
  /\ calls = [n \in Node |-> <<>>]
  /\ port = [r \in Router |-> 1]
  /\ on \in [Router -> BOOLEAN]
  /\ \A r \in Router : Protocol[asID[r]] = "OSPF" => on[r]
  /\ \A i \in AS : Protocol[i] = "RIP" => \E r \in Router : asID[r] = i /\ ~on[r]
  /\ iseBGP = [r \in Router |-> FALSE]
  /\ phase = EBGP
  /\ calm = FALSE
  /\ arrived = {} /\ lost = {} /\ misread = FALSE /\ crashed = FALSE

-----------------------------------------------------------------------------
(* The main thread.  (turnOffProtocols and startIBGP do nothing in a PC    *)
(* and are not posted to one here.)                                        *)

Waits(n, call) == \E i \in DOMAIN calls[n] : calls[n][i] = call

PostUpdate ==
  /\ \A n \in Node : Len(SelectSeq(calls[n], LAMBDA c : c = Update)) < MaxQueue
  /\ calls' = [n \in Node |-> Append(calls[n], Update)]
  /\ UNCHANGED <<routes, buffer, port, phase, calm, outcome>>

(* finishProtocolTimer: finishInASProtocols, then sendEBGP. *)
PostEBGP ==
  /\ phase = EBGP
  /\ phase' = IBGP
  /\ calls' = [n \in Node |-> calls[n] \o
                 CASE n \in Range(Edges) -> <<Off, EBGP>>
                   [] n \in Router \ Range(Edges) -> <<Off>>
                   [] n \in PC -> <<>>]
  /\ UNCHANGED <<routes, buffer, port, calm, outcome>>

(* sendIBGP, ten milliseconds later. *)
PostIBGP ==
  /\ phase = IBGP
  /\ phase' = "send"
  /\ calls' = [n \in Node |-> IF n \in Router THEN Append(calls[n], IBGP) ELSE calls[n]]
  /\ UNCHANGED <<routes, buffer, port, calm, outcome>>

(* A router has nothing of the set-up left to do or to hear. *)
Settled(r) ==
  /\ phase \in {"send", "done"}
  /\ ~on[r] /\ ~Waits(r, Off) /\ ~Waits(r, EBGP) /\ ~Waits(r, IBGP)
  /\ \A m \in Peers(r) \ Mates(r) : r \in Range(Edges) =>
       /\ ~Waits(m, EBGP)
       /\ \A msg \in Range(buffer[r][m]) : msg.type # "E"

(* The orders in which the packets of p may be drawn. *)
Orders(p) ==
  {s \in [1..Cardinality({h \in Packets : Src[h] = p}) -> Packets] :
     Range(s) = {h \in Packets : Src[h] = p}}

(* sendFromPC, a second later: one startPCs for every packet. *)
PostPackets ==
  /\ phase = "send"
  /\ phase' = "done"
  /\ calm' = \A r \in Router : Settled(r)
  /\ \E order \in [PC -> UNION {Orders(p) : p \in PC}] :
       /\ \A p \in PC : order[p] \in Orders(p)
       /\ calls' = [n \in Node |-> IF n \in PC THEN calls[n] \o order[n] ELSE calls[n]]
  /\ UNCHANGED <<routes, buffer, port, outcome>>

-----------------------------------------------------------------------------
(* A router's thread: the calls of the set-up. *)

Push(buf, n, m, msg) == [buf EXCEPT ![m][n] = Append(@, msg)]

(* msg goes out of n's ports to the nodes of S. *)
PushAll(buf, n, S, msg) ==
  [k \in Node |-> IF k \in S THEN [buf[k] EXCEPT ![n] = Append(@, msg)] ELSE buf[k]]

Called(n, call) == /\ ~crashed
                   /\ n \in Router => port[n] = 1
                   /\ calls[n] # <<>>
                   /\ Head(calls[n]) = call
                   /\ calls' = [calls EXCEPT ![n] = Tail(@)]

(* Mutant: OSPF's costs stay in lsdb. *)
TurnOffOnly(r) ==
  /\ Called(r, Off)
  /\ on' = [on EXCEPT ![r] = FALSE]
  /\ UNCHANGED <<table, fwd, iseBGP, buffer, port, phase, calm, outcome>>

TurnOffProtocols(r) ==
  /\ Called(r, Off)
  /\ on' = [on EXCEPT ![r] = FALSE]
  /\ table' = IF Protocol[asID[r]] = "OSPF" THEN [table EXCEPT ![r] = InAS[r]] ELSE table
  /\ UNCHANGED <<fwd, iseBGP, buffer, port, phase, calm, outcome>>

(* The table goes out of every port whose far end is of another asID, a    *)
(* PC's too.                                                               *)
StartEBGP(r) ==
  /\ Called(r, EBGP)
  /\ iseBGP' = [iseBGP EXCEPT ![r] = TRUE]
  /\ buffer' = PushAll(buffer, r, Neighbours(r) \ Mates(r), [type |-> "E", table |-> table[r]])
  /\ UNCHANGED <<table, fwd, on, port, phase, calm, outcome>>

(* The edge router of r's AS that startIBGP picks: the first of the        *)
(* cheapest, one that is not in the table counting as cost 0.              *)
Exit(r) ==
  LET own     == {i \in DOMAIN Edges : asID[Edges[i]] = asID[r]}
      cost(i) == IF Edges[i] \in DOMAIN table[r] THEN table[r][Edges[i]] ELSE 0
  IN Edges[CHOOSE i \in own :
             \A j \in own : cost(i) <= cost(j) /\ (j < i => cost(i) < cost(j))]

(* Only a router that did no eBGP sends what is foreign to its exit.       *)
StartIBGP(r) ==
  /\ Called(r, IBGP)
  /\ IF iseBGP[r]
       THEN UNCHANGED fwd
       ELSE LET known == DOMAIN fwd[r] \ Foreign(r)
                via   == IF Exit(r) \in DOMAIN fwd[r] THEN Foreign(r) ELSE {} IN
            fwd' = [fwd EXCEPT ![r] = [k \in known \cup via |->
                      IF k \in Foreign(r) THEN fwd[r][Exit(r)] ELSE fwd[r][k]]]
  /\ UNCHANGED <<table, on, iseBGP, buffer, port, phase, calm, outcome>>

-----------------------------------------------------------------------------
(* A router's thread: update, one turn of its loop over the ports in a     *)
(* step; the first takes the call, the last does what follows the loop.    *)

(* Mutant: the loop runs off the end of the ports. *)
TurnOn(r) == /\ IF port[r] = 1 THEN Called(r, Update) ELSE ~crashed /\ UNCHANGED calls
             /\ port' = [port EXCEPT ![r] = @ + 1]

Turn(r) == /\ IF port[r] = 1 THEN Called(r, Update) ELSE ~crashed /\ UNCHANGED calls
           /\ port' = [port EXCEPT ![r] = (@ % Len(Ports[r])) + 1]

Far(r)     == Ports[r][port[r]]
Nothing(r) == buffer[r][Far(r)] = <<>>
Front(r)   == Head(buffer[r][Far(r)])
Rest(r)    == [buffer EXCEPT ![r][Far(r)] = Tail(@)]

(* updateDistanceVector with a table that came by the port of this turn.   *)
Merge(r, new) ==
  /\ table' = [table EXCEPT ![r] = MergeCosts(r, table[r], new)]
  /\ fwd' = [fwd EXCEPT ![r] = MergePorts(r, table[r], fwd[r], new, Far(r))]

(* Mutant: a packet without a route goes to the first port. *)
ForwardSomewhere(r, msg) ==
  LET to == IF Dst[msg.packet] \in DOMAIN fwd[r] THEN fwd[r][Dst[msg.packet]] ELSE Ports[r][1] IN
  /\ buffer' = Push(Rest(r), r, to, [msg EXCEPT !.path = Append(@, r)])
  /\ UNCHANGED lost

(* forward: to the port of the destination, if there is one.               *)
Forward(r, msg) ==
  IF Dst[msg.packet] \in DOMAIN fwd[r]
    THEN /\ buffer' = Push(Rest(r), r, fwd[r][Dst[msg.packet]], [msg EXCEPT !.path = Append(@, r)])
         /\ UNCHANGED lost
    ELSE /\ buffer' = Rest(r)
         /\ lost' = lost \cup {<<msg.packet, r>>}

(* A RIP packet that comes late is taken and ignored. *)
UpdateForwarding(r) ==
  /\ ~on[r] /\ Turn(r)
  /\ \/ Nothing(r) /\ UNCHANGED <<table, fwd, buffer, lost>>
     \/ /\ ~Nothing(r)
        /\ \/ Front(r).type = "E" /\ Merge(r, Front(r).table)
                                 /\ buffer' = Rest(r) /\ UNCHANGED lost
           \/ Front(r).type = "M" /\ Forward(r, Front(r)) /\ UNCHANGED <<table, fwd>>
           \/ Front(r).type = "P" /\ buffer' = Rest(r) /\ UNCHANGED <<table, fwd, lost>>
  /\ UNCHANGED <<on, iseBGP, phase, calm, arrived, misread, crashed>>

Without(t, k) == [i \in DOMAIN t \ {k} |-> t[i]]

(* Mutant: the vector goes out of every port. *)
EndRIPEverywhere(r, rest) ==
  \/ port[r] < Len(Ports[r]) /\ buffer' = rest /\ UNCHANGED on
  \/ /\ port[r] = Len(Ports[r])
     /\ buffer' = PushAll(rest, r, Neighbours(r), [type |-> "P", table |-> table'[r]])
     /\ UNCHANGED on

(* After the last port updateRIP sends the vector, or finds RIP finished   *)
(* (the count of quiet ticks that decides is left open here, see Rip).     *)
EndRIP(r, rest) ==
  \/ port[r] < Len(Ports[r]) /\ buffer' = rest /\ UNCHANGED on
  \/ /\ port[r] = Len(Ports[r])
     /\ buffer' = PushAll(rest, r, Mates(r), [type |-> "P", table |-> table'[r]])
     /\ UNCHANGED on
  \/ port[r] = Len(Ports[r]) /\ buffer' = rest /\ on' = [on EXCEPT ![r] = FALSE]

(* updateRIP takes whatever comes for a table.  In "E#k c, ..." the first  *)
(* pair is misread and its key, any one in QHash's order, is lost; a       *)
(* packet has no pairs at all.  (The key 0 that "E#k" decodes to is no     *)
(* node and is left out.)                                                  *)
UpdateRIP(r) ==
  /\ on[r] /\ Protocol[asID[r]] = "RIP" /\ Turn(r)
  /\ \/ Nothing(r) /\ UNCHANGED <<table, fwd, lost, misread>> /\ EndRIP(r, buffer)
     \/ /\ ~Nothing(r)
        /\ \/ Front(r).type = "P" /\ Merge(r, Front(r).table) /\ UNCHANGED <<lost, misread>>
           \/ /\ Front(r).type = "E"
              /\ \E k \in DOMAIN Front(r).table : Merge(r, Without(Front(r).table, k))
              /\ misread' = TRUE
              /\ UNCHANGED lost
           \/ /\ Front(r).type = "M"
              /\ lost' = lost \cup {<<Front(r).packet, r>>}
              /\ UNCHANGED <<table, fwd, misread>>
        /\ EndRIP(r, Rest(r))
  /\ UNCHANGED <<iseBGP, phase, calm, arrived, crashed>>

(* What comes while OSPF waits to be turned off is no token any more:      *)
(* lsp::decode indexes the missing second section.                         *)
UpdateOSPF(r) ==
  /\ on[r] /\ Protocol[asID[r]] = "OSPF" /\ Turn(r)
  /\ \/ Nothing(r) /\ UNCHANGED <<buffer, crashed>>
     \/ ~Nothing(r) /\ buffer' = Rest(r) /\ crashed' = TRUE
  /\ UNCHANGED <<routes, phase, calm, arrived, lost, misread>>

-----------------------------------------------------------------------------
(* A PC's thread. *)

StartPCs(p) ==
  \E packet \in Packets :
    /\ Called(p, packet)
    /\ buffer' = Push(buffer, p, Link(p), [type |-> "M", packet |-> packet, path |-> <<>>])
    /\ UNCHANGED <<routes, port, phase, calm, outcome>>

(* pc::update prints whatever comes, its destination unread; packet::decode *)
(* indexes past the end of anything but a packet.                           *)
UpdatePC(p) ==
  LET msg == Head(buffer[p][Link(p)]) IN
  /\ Called(p, Update)
  /\ IF buffer[p][Link(p)] = <<>>
       THEN UNCHANGED <<buffer, outcome>>
       ELSE /\ buffer' = [buffer EXCEPT ![p][Link(p)] = Tail(@)]
            /\ IF msg.type = "M"
                 THEN arrived' = arrived \cup {<<msg.packet, p>>} /\ UNCHANGED crashed
                 ELSE crashed' = TRUE /\ UNCHANGED arrived
            /\ UNCHANGED <<lost, misread>>
  /\ UNCHANGED <<routes, port, phase, calm>>

-----------------------------------------------------------------------------
Main == ~crashed /\ (PostUpdate \/ PostEBGP \/ PostIBGP \/ PostPackets)

RouterThread(r) == \/ TurnOffProtocols(r) \/ StartEBGP(r) \/ StartIBGP(r)
                   \/ UpdateForwarding(r) \/ UpdateRIP(r) \/ UpdateOSPF(r)

PCThread(p) == StartPCs(p) \/ UpdatePC(p)

Next == Main \/ (\E r \in Router : RouterThread(r)) \/ (\E p \in PC : PCThread(p))

Spec == Init /\ [][Next]_vars

(* Every event loop keeps running and main's timers keep firing.           *)
Fairness == /\ WF_vars(~crashed /\ PostUpdate)
            /\ WF_vars(~crashed /\ (PostEBGP \/ PostIBGP \/ PostPackets))
            /\ \A r \in Router : WF_vars(RouterThread(r))
            /\ \A p \in PC : WF_vars(PCThread(p))

FairSpec == Spec /\ Fairness

-----------------------------------------------------------------------------
(* Properties. *)

(* The type invariant: costs and ports stay functions on nodes, a buffer   *)
(* holds messages of the three kinds, a loop stays on the router's ports.  *)
TypeOK ==
  /\ \A r \in Router : IsTable(table[r]) /\ fwd[r] \in [DOMAIN fwd[r] -> Neighbours(r)]
  /\ \A n \in Node : \A m \in Links(n) : \A msg \in Range(buffer[n][m]) :
       CASE msg.type \in {"P", "E"} -> m \in Router /\ IsTable(msg.table)
         [] msg.type = "M" -> msg.packet \in Packets /\ msg.path \in Seq(Router)
  /\ calls \in [Node -> Seq(Slots \cup Packets)]
  /\ port \in [Router -> Nat] /\ \A r \in Router : port[r] \in DOMAIN Ports[r]
  /\ {on, iseBGP} \subseteq [Router -> BOOLEAN]
  /\ phase \in {EBGP, IBGP, "send", "done"}
  /\ arrived \subseteq Packets \X PC /\ lost \subseteq Packets \X Router
  /\ {calm, misread, crashed} \subseteq BOOLEAN

(* A packet never visits a router twice, though every router may be in     *)
(* another phase of the set-up (forward, startIBGP, updateDistanceVector). *)
NoPacketLoops ==
  \A n \in Node : \A m \in Links(n) : \A i \in DOMAIN buffer[n][m] :
    LET msg == buffer[n][m][i] IN msg.type = "M" => IsInjective(msg.path)

(* A PC is handed only packets that are addressed to it: pc::update prints *)
(* whatever comes.                                                         *)
HandedOnlyOwn == \A pair \in arrived : Dst[pair[1]] = pair[2]

(* The program ends on a bad decode only where OSPF still waits for its    *)
(* turnOffProtocols (given that no edge router has a PC, as in             *)
(* Topology.txt: startEBGP would send it a table).                         *)
CrashOnlyInOSPF == crashed => \E r \in Router : on[r] /\ Protocol[asID[r]] = "OSPF"

(* From the complete tables of Init, a packet is lost only at a router   *)
(* with set-up left to do or to hear, or after an eBGP table was misread.  *)
LostOnlyUnsettled == [][\A pair \in lost' \ lost : misread \/ ~Settled(pair[2])]_vars

(* If all set-up was over when main let the PCs send, and no eBGP table    *)
(* overtook a turnOffProtocols, every packet reaches its PC (from the      *)
(* complete tables of Init).                                               *)
AllArriveWhenCalm ==
  <>(\/ crashed \/ misread \/ (phase = "done" /\ ~calm)
     \/ \A h \in Packets : <<h, Dst[h]>> \in arrived)
=============================================================================
