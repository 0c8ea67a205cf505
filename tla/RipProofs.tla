----------------------------- MODULE RipProofs ------------------------------
(***************************************************************************)
(* For every topology, threshold, lag and number of interfering buffer     *)
(* accesses: RIP implements the abstract routing specification, so it      *)
(* never forwards in a loop; its costs are lengths of ways; off stays off; *)
(* and no buffer outgrows the lag of its two threads.  The refinement      *)
(* rests on packets in flight never offering less than their sender has    *)
(* (InFlight): without it a router could learn a route cheaper than the    *)
(* next hop's own.  Each of the others has an invariant of its own below.  *)
(***************************************************************************)
EXTENDS Rip, RouteTableProofs, FiniteSetTheorems, FunctionTheorems

Inv == TypeOK /\ Routes!NoOwnRoute /\ InFlight

(* The instance's operators are the ones this module uses itself. *)
LEMMA SameOperators ==
  /\ Routes!Node = Node
  /\ \A r : /\ Routes!Neighbours(r) = Neighbours(r)
            /\ Routes!Peers(r) = Peers(r)
            /\ Routes!LinkCosts(r) = LinkCosts(r)
            /\ Routes!LinkPorts(r) = LinkPorts(r)
  /\ \A t : Routes!IsTable(t) <=> IsTable(t)
BY DEF Routes!Node, Node, Routes!Neighbours, Neighbours, Routes!Peers, Peers,
       Routes!LinkCosts, LinkCosts, Routes!LinkPorts, LinkPorts,
       Routes!IsTable, IsTable, Routes!Cost, Cost, Routes!Range, Range

-----------------------------------------------------------------------------
(* The control variables of threads and of main keep their types. *)

LEMMA LoopControl ==
  ASSUME ControlOK, NEW r \in Router, NEW s \in Stages
  PROVE  /\ EnterLoop(r, s) =>
              /\ stage' \in [Router -> Stages]
              /\ port' \in [Router -> Nat]
              /\ \A q \in Router : port'[q] \in DOMAIN Ports[q]
         /\ NextPort(r, s) =>
              /\ stage' \in [Router -> Stages]
              /\ port' \in [Router -> Nat]
              /\ \A q \in Router : port'[q] \in DOMAIN Ports[q]
<1>1. \A q \in Router : DOMAIN Ports[q] = 1..Len(Ports[q]) /\ Len(Ports[q]) \in Nat \ {0}
  BY TopologyAssumption
<1>2. EnterLoop(r, s) => /\ stage' \in [Router -> Stages]
                         /\ port' \in [Router -> Nat]
                         /\ \A q \in Router : port'[q] \in DOMAIN Ports[q]
  BY <1>1 DEF EnterLoop, ControlOK
<1>3. ASSUME port[r] < Len(Ports[r]), port' = [port EXCEPT ![r] = port[r] + 1], stage' = stage
      PROVE  /\ stage' \in [Router -> Stages]
             /\ port' \in [Router -> Nat]
             /\ \A q \in Router : port'[q] \in DOMAIN Ports[q]
  BY <1>1, <1>3 DEF ControlOK
<1> QED
  BY <1>2, <1>3 DEF NextPort

LEMMA CallsControl ==
  ASSUME ControlOK, NEW call \in {Update, Start, Off}
  PROVE  /\ PostToAll(call) => calls' \in [Router -> Seq({Update, Start, Off})]
         /\ \A r \in Router :
              Called(r, call) => calls' \in [Router -> Seq({Update, Start, Off})]
<1>1. PostToAll(call) => calls' \in [Router -> Seq({Update, Start, Off})]
  BY DEF PostToAll, ControlOK
<1>2. ASSUME NEW r \in Router, Called(r, call)
      PROVE  calls' \in [Router -> Seq({Update, Start, Off})]
  <2>1. calls[r] \in Seq({Update, Start, Off}) /\ calls[r] # <<>>
    BY <1>2 DEF Called, ControlOK
  <2>2. Tail(calls[r]) \in Seq({Update, Start, Off})
    BY <2>1
  <2> QED
    BY <1>2, <2>2 DEF Called, ControlOK
<1> QED
  BY <1>1, <1>2

LEMMA ControlInv == ControlOK /\ [Next]_vars => ControlOK'
<1> SUFFICES ASSUME ControlOK, [Next]_vars PROVE ControlOK'
  OBVIOUS
<1> USE DEF tables, shared, control, main
<1>1. CASE UNCHANGED vars
  BY <1>1 DEF vars, ControlOK
<1>2. CASE PostUpdate
  BY <1>2, CallsControl DEF PostUpdate, ControlOK
<1>3. CASE PostStart
  BY <1>3, CallsControl DEF PostStart, ControlOK
<1>4. CASE PostTurnOff
  BY <1>4, CallsControl DEF PostTurnOff, ControlOK
<1>5. ASSUME NEW r \in Router, Thread(r) PROVE ControlOK'
  <2>1. CASE BeginUpdateRIP(r)
    BY <2>1, CallsControl, LoopControl DEF BeginUpdateRIP, ControlOK, Stages
  <2>2. CASE BeginUpdateForwarding(r)
    BY <2>2, CallsControl, LoopControl DEF BeginUpdateForwarding, ControlOK, Stages
  <2>3. CASE StartRIP(r)
    BY <2>3, CallsControl, LoopControl DEF StartRIP, ControlOK, Stages
  <2>4. CASE TurnOffProtocols(r)
    BY <2>4, CallsControl DEF TurnOffProtocols, ControlOK
  <2>5. CASE Receive(r)
    <3>1. heard' \in [Router -> BOOLEAN] /\ changed' \in [Router -> BOOLEAN]
      BY <2>5 DEF Receive, ControlOK
    <3>2. NextPort(r, "conclude") /\ UNCHANGED <<calls, conv, ripFinished,
            ripFinishSignalEmited, isRIPstart, started, asFinished, turnedOff>>
      BY <2>5 DEF Receive
    <3> QED
      BY <3>1, <3>2, LoopControl DEF ControlOK, Stages
  <2>6. CASE Conclude(r)
    <3>1. conv' \in [Router -> Nat]
      BY <2>6 DEF Conclude, Quiet, ControlOK
    <3>2. /\ ripFinished' \in [Router -> BOOLEAN]
          /\ ripFinishSignalEmited' \in [Router -> BOOLEAN]
          /\ isRIPstart' \in [Router -> BOOLEAN]
          /\ asFinished' \in BOOLEAN
      BY <2>6, Zenon DEF Conclude, Quiet, ControlOK
    <3>3. EnterLoop(r, "idle") \/ EnterLoop(r, "send")
      BY <2>6 DEF Conclude, Quiet, Leave
    <3>4. UNCHANGED <<calls, heard, changed, started, turnedOff>>
      BY <2>6 DEF Conclude, Quiet
    <3> QED
      BY <3>1, <3>2, <3>3, <3>4, LoopControl DEF ControlOK, Stages
  <2>7. CASE Send(r)
    BY <2>7, LoopControl DEF Send, ControlOK, Stages
  <2>8. CASE Drop(r)
    BY <2>8, LoopControl DEF Drop, ControlOK, Stages
  <2> QED
    BY <1>5, <2>1, <2>2, <2>3, <2>4, <2>5, <2>6, <2>7, <2>8 DEF Thread
<1> QED
  BY <1>1, <1>2, <1>3, <1>4, <1>5 DEF Next

-----------------------------------------------------------------------------
(* Buffers only lose packets when popped and gain the pushed one. *)

LEMMA PopKeeps ==
  ASSUME BuffersOK, NEW r \in Router, NEW m \in Neighbours(r),
         buffer[r][m] # <<>>, Pop(r, m)
  PROVE  /\ BuffersOK'
         /\ \A q \in Router : \A n \in Neighbours(q) :
              Range(buffer'[q][n]) \subseteq Range(buffer[q][n])
<1>1. CASE buffer' = [buffer EXCEPT ![r][m] = Tail(buffer[r][m])] /\ races' = races
  <2>1. IsBuffer(buffer[r][m])
    BY DEF BuffersOK
  <2>2. IsBuffer(Tail(buffer[r][m])) /\ Range(Tail(buffer[r][m])) \subseteq Range(buffer[r][m])
    BY <2>1, PopBuffer
  <2>3. \A q \in Router : \A n \in Neighbours(q) :
          buffer'[q][n] = IF q = r /\ n = m THEN Tail(buffer[r][m]) ELSE buffer[q][n]
    BY <1>1 DEF BuffersOK
  <2>4. buffer' = [q \in Router |-> [n \in Neighbours(q) |-> buffer'[q][n]]]
    BY <1>1 DEF BuffersOK
  <2>5. races' \in Nat
    BY <1>1 DEF BuffersOK
  <2>6. \A q \in Router : \A n \in Neighbours(q) : IsBuffer(buffer'[q][n])
    BY <2>2, <2>3 DEF BuffersOK
  <2> QED
    BY <2>2, <2>3, <2>4, <2>5, <2>6 DEF BuffersOK
<1>2. CASE Interfere
  BY <1>2 DEF Interfere, BuffersOK
<1> QED
  BY <1>1, <1>2 DEF Pop

LEMMA PushAdds ==
  ASSUME BuffersOK, NEW r \in Router, NEW m \in Peers(r),
         NEW packet, IsTable(packet), Push(r, m, packet)
  PROVE  /\ BuffersOK'
         /\ \A q \in Router : \A n \in Neighbours(q) :
              Range(buffer'[q][n]) \subseteq
                Range(buffer[q][n]) \cup (IF q = m /\ n = r THEN {packet} ELSE {})
<1>1. m \in Router /\ r \in Neighbours(m)
  BY NeighboursAreNodes DEF Peers
<1>2. CASE buffer' = [buffer EXCEPT ![m][r] = Append(buffer[m][r], packet)] /\ races' = races
  <2>1. IsBuffer(buffer[m][r])
    BY <1>1 DEF BuffersOK
  <2>2. /\ IsBuffer(Append(buffer[m][r], packet))
        /\ Range(Append(buffer[m][r], packet)) \subseteq Range(buffer[m][r]) \cup {packet}
    BY <2>1, PushBuffer
  <2>3. \A q \in Router : \A n \in Neighbours(q) :
          buffer'[q][n] = IF q = m /\ n = r THEN Append(buffer[m][r], packet) ELSE buffer[q][n]
    BY <1>1, <1>2 DEF BuffersOK
  <2>4. buffer' = [q \in Router |-> [n \in Neighbours(q) |-> buffer'[q][n]]]
    BY <1>1, <1>2 DEF BuffersOK
  <2>5. races' \in Nat
    BY <1>2 DEF BuffersOK
  <2>6. \A q \in Router : \A n \in Neighbours(q) : IsBuffer(buffer'[q][n])
    BY <2>2, <2>3 DEF BuffersOK
  <2> QED
    BY <2>2, <2>3, <2>4, <2>5, <2>6 DEF BuffersOK
<1>3. CASE Interfere
  BY <1>3 DEF Interfere, BuffersOK
<1> QED
  BY <1>2, <1>3 DEF Push

-----------------------------------------------------------------------------
(* Taking a packet into the tables is a step of the abstract specification. *)

(* updateDistanceVector on a packet that offers nothing its sender lacks. *)
LEMMA MergeImproves ==
  ASSUME TypeOK, Routes!NoOwnRoute, NEW r \in Router, NEW m \in Peers(r),
         NEW packet, IsTable(packet),
         DOMAIN packet \subseteq DOMAIN table[m],
         \A k \in DOMAIN packet : packet[k] >= table[m][k],
         table' = [table EXCEPT ![r] = MergeCosts(r, table[r], packet)],
         fwd' = [fwd EXCEPT ![r] = MergePorts(r, table[r], fwd[r], packet, m)]
  PROVE  Routes!Improve(r)
<1>1. /\ IsTable(table[r]) /\ IsTable(table[m])
      /\ fwd[r] \in [DOMAIN table[r] -> Neighbours(r)]
      /\ r \notin DOMAIN table[r]
      /\ m \in Neighbours(r)
      /\ m \in Router
  BY SameOperators DEF TypeOK, Routes!TypeOK, Routes!NoOwnRoute, Peers
<1>2. /\ table'[r] = MergeCosts(r, table[r], packet)
      /\ fwd'[r] = MergePorts(r, table[r], fwd[r], packet, m)
      /\ table' = [table EXCEPT ![r] = table'[r]]
      /\ fwd' = [fwd EXCEPT ![r] = fwd'[r]]
  BY DEF TypeOK, Routes!TypeOK
<1>3. /\ IsTable(table'[r])
      /\ DOMAIN table[r] \subseteq DOMAIN table'[r]
      /\ fwd'[r] \in [DOMAIN table'[r] -> Neighbours(r)]
  BY <1>1, <1>2, MergeIsTable
<1>4. ASSUME NEW k \in DOMAIN table'[r]
      PROVE  Routes!Kept(r, k) \/ Routes!Learned(r, k, m)
  <2>1. k \in DOMAIN MergeCosts(r, table[r], packet)
    BY <1>2, <1>4
  <2>2. CASE /\ k \in DOMAIN table[r]
             /\ table'[r][k] = table[r][k]
             /\ fwd'[r][k] = fwd[r][k]
    BY <2>2 DEF Routes!Kept
  <2>3. CASE /\ k # r
             /\ k \in DOMAIN packet
             /\ table'[r][k] = packet[k] + 1
             /\ k \in DOMAIN table[r] => table'[r][k] < table[r][k]
             /\ fwd'[r][k] = m
    <3>1. k \in DOMAIN table[m] /\ packet[k] >= table[m][k]
      BY <2>3
    <3>2. packet[k] \in Nat /\ table[m][k] \in Nat
      BY <1>1, <2>3, <3>1 DEF IsTable, Cost
    <3>3. table'[r][k] > table[m][k]
      BY <2>3, <3>1, <3>2
    <3> QED
      BY <2>3, <3>1, <3>3 DEF Routes!Learned
  <2> QED
    BY <1>1, <1>2, <2>1, <2>2, <2>3, MergeEntries
<1> QED
  BY <1>2, <1>3, <1>4, SameOperators DEF Routes!Improve

LEMMA ReceiveImproves ==
  ASSUME Inv, NEW r \in Router, Receive(r)
  PROVE  /\ Routes!Improve(r) \/ UNCHANGED tables
         /\ BuffersOK'
         /\ \A q \in Router : \A n \in Neighbours(q) :
              Range(buffer'[q][n]) \subseteq Range(buffer[q][n])
<1> DEFINE m == Ports[r][port[r]]
           new == Head(buffer[r][m])
<1>1. m \in Neighbours(r)
  BY DEF Inv, TypeOK, ControlOK, Neighbours, Range
<1>2. BuffersOK
  BY DEF Inv, TypeOK
<1>3. CASE buffer[r][m] = <<>>
  <2>1. UNCHANGED <<tables, shared>>
    BY <1>3 DEF Receive
  <2> QED
    BY <1>2, <2>1 DEF BuffersOK, shared
<1>4. CASE buffer[r][m] # <<>>
  <2>1. /\ Pop(r, m)
        /\ table' = [table EXCEPT ![r] = MergeCosts(r, table[r], new)]
        /\ fwd' = [fwd EXCEPT ![r] = MergePorts(r, table[r], fwd[r], new, m)]
    BY <1>4 DEF Receive
  <2>2. IsBuffer(buffer[r][m])
    BY <1>1, <1>2 DEF BuffersOK
  <2>3. new \in Range(buffer[r][m])
    BY <1>4, <2>2, PopBuffer
  <2>4. IsTable(new)
    BY <2>2, <2>3 DEF IsBuffer
  <2>5. /\ m \in Peers(r)
        /\ DOMAIN new \subseteq DOMAIN table[m]
        /\ \A k \in DOMAIN new : new[k] >= table[m][k]
    BY <1>1, <2>3 DEF Inv, InFlight, Peers
  <2>6. Routes!Improve(r)
    BY <2>1, <2>4, <2>5, MergeImproves DEF Inv
  <2> QED
    BY <1>1, <1>2, <1>4, <2>1, <2>6, PopKeeps
<1> QED
  BY <1>3, <1>4

(* Every step is a step of the abstract specification or leaves the tables,*)
(* and what is in buffers afterwards was there or is its sender's vector.  *)
LEMMA StepTables ==
  ASSUME Inv, [Next]_vars
  PROVE  /\ (\E r \in Router : Routes!Improve(r)) \/ UNCHANGED tables
         /\ BuffersOK'
         /\ \A q \in Router : \A n \in Neighbours(q) :
              \A packet \in Range(buffer'[q][n]) :
                \/ packet \in Range(buffer[q][n])
                \/ n \in Router /\ packet = table[n] /\ UNCHANGED tables
<1> USE DEF shared
<1>1. BuffersOK
  BY DEF Inv, TypeOK
<1>2. CASE UNCHANGED <<tables, shared>>
  BY <1>1, <1>2 DEF BuffersOK
<1>3. CASE UNCHANGED vars
  BY <1>2, <1>3 DEF vars
<1>4. CASE PostUpdate \/ PostStart \/ PostTurnOff
  BY <1>2, <1>4 DEF PostUpdate, PostStart, PostTurnOff
<1>5. ASSUME NEW r \in Router,
             \/ BeginUpdateRIP(r) \/ BeginUpdateForwarding(r) \/ StartRIP(r)
             \/ TurnOffProtocols(r) \/ Conclude(r)
      PROVE  UNCHANGED <<tables, shared>>
  BY <1>5 DEF BeginUpdateRIP, BeginUpdateForwarding, StartRIP, TurnOffProtocols, Conclude
<1>6. ASSUME NEW r \in Router, Receive(r)
      PROVE  /\ Routes!Improve(r) \/ UNCHANGED tables
             /\ BuffersOK'
             /\ \A q \in Router : \A n \in Neighbours(q) :
                  Range(buffer'[q][n]) \subseteq Range(buffer[q][n])
  BY <1>6, ReceiveImproves
<1>7. \A r \in Router : Ports[r][port[r]] \in Neighbours(r)
  BY DEF Inv, TypeOK, ControlOK, Neighbours, Range
<1>8. ASSUME NEW r \in Router, Send(r)
      PROVE  /\ UNCHANGED tables
             /\ BuffersOK'
             /\ \A q \in Router : \A n \in Neighbours(q) :
                  Range(buffer'[q][n]) \subseteq Range(buffer[q][n])
                    \cup (IF n = r THEN {table[r]} ELSE {})
  <2> DEFINE m == Ports[r][port[r]]
  <2>1. UNCHANGED tables
    BY <1>8 DEF Send
  <2>2. CASE m \in Router
    <3>1. m \in Peers(r)
      BY <1>7, <2>2 DEF Peers
    <3>2. IsTable(table[r])
      BY SameOperators DEF Inv, TypeOK, Routes!TypeOK
    <3>3. Push(r, m, table[r])
      BY <1>8, <2>2 DEF Send
    <3> HIDE DEF m
    <3> QED
      BY <1>1, <2>1, <3>1, <3>2, <3>3, PushAdds
  <2>3. CASE m \notin Router
    <3>1. UNCHANGED shared
      BY <1>8, <2>3 DEF Send
    <3> QED
      BY <1>1, <2>1, <3>1 DEF BuffersOK
  <2> QED
    BY <2>2, <2>3
<1>9. ASSUME NEW r \in Router, Drop(r)
      PROVE  /\ UNCHANGED tables
             /\ BuffersOK'
             /\ \A q \in Router : \A n \in Neighbours(q) :
                  Range(buffer'[q][n]) \subseteq Range(buffer[q][n])
  <2> DEFINE m == Ports[r][port[r]]
  <2>1. UNCHANGED tables
    BY <1>9 DEF Drop
  <2>2. UNCHANGED shared \/ (buffer[r][m] # <<>> /\ Pop(r, m))
    BY <1>9 DEF Drop
  <2>3. CASE UNCHANGED shared
    BY <1>1, <2>1, <2>3 DEF BuffersOK
  <2>4. CASE buffer[r][m] # <<>> /\ Pop(r, m)
    BY <1>1, <1>7, <2>1, <2>4, PopKeeps
  <2> QED
    BY <2>2, <2>3, <2>4
<1>10. ASSUME NEW r \in Router, Thread(r)
       PROVE  /\ Routes!Improve(r) \/ UNCHANGED tables
              /\ BuffersOK'
              /\ \A q \in Router : \A n \in Neighbours(q) :
                   \A packet \in Range(buffer'[q][n]) :
                     \/ packet \in Range(buffer[q][n])
                     \/ n \in Router /\ packet = table[n] /\ UNCHANGED tables
  <2>1. CASE UNCHANGED <<tables, shared>>
    BY <1>1, <2>1 DEF BuffersOK
  <2>2. CASE Receive(r)
    BY <1>6, <2>2
  <2>3. CASE Send(r)
    BY <1>8, <2>3
  <2>4. CASE Drop(r)
    BY <1>9, <2>4
  <2> QED
    BY <1>5, <1>10, <2>1, <2>2, <2>3, <2>4 DEF Thread
<1> QED
  BY <1>3, <1>4, <1>10 DEF Next

(* An Improve step only lowers costs, keeps types and adds no own route. *)
LEMMA ImproveLowers ==
  ASSUME Routes!TypeOK, Routes!NoOwnRoute, NEW r \in Router, Routes!Improve(r)
  PROVE  /\ Routes!TypeOK'
         /\ Routes!NoOwnRoute'
         /\ \A q \in Router : \A k \in DOMAIN table[q] :
              k \in DOMAIN table'[q] /\ table'[q][k] <= table[q][k]
<1>1. /\ table' = [q \in Router |-> table'[q]]
      /\ fwd' = [q \in Router |-> fwd'[q]]
      /\ \A q \in Router \ {r} : table'[q] = table[q] /\ fwd'[q] = fwd[q]
  BY DEF Routes!Improve, Routes!TypeOK
<1>2. /\ IsTable(table'[r])
      /\ DOMAIN table[r] \subseteq DOMAIN table'[r]
      /\ fwd'[r] \in [DOMAIN table'[r] -> Neighbours(r)]
      /\ \A k \in DOMAIN table'[r] :
           Routes!Kept(r, k) \/ \E m \in Peers(r) : Routes!Learned(r, k, m)
  BY SameOperators DEF Routes!Improve
<1>3. \A q \in Router : IsTable(table[q]) /\ fwd[q] \in [DOMAIN table[q] -> Neighbours(q)]
  BY SameOperators DEF Routes!TypeOK
<1>4. \A q \in Router : IsTable(table'[q]) /\ fwd'[q] \in [DOMAIN table'[q] -> Neighbours(q)]
  BY <1>1, <1>2, <1>3
<1>5. Routes!TypeOK'
  <2>1. \A q \in Router : /\ Routes!IsTable(table'[q])
                          /\ fwd'[q] \in [DOMAIN table'[q] -> Routes!Neighbours(q)]
    BY <1>4, SameOperators
  <2> QED
    BY <1>1, <2>1 DEF Routes!TypeOK, Routes!IsTable, Routes!Cost, Routes!Node,
                      Routes!Neighbours, Routes!Range
<1>6. Routes!NoOwnRoute'
  <2>1. r \notin DOMAIN table'[r]
    BY <1>2 DEF Routes!NoOwnRoute, Routes!Kept, Routes!Learned
  <2> QED
    BY <1>1, <2>1 DEF Routes!NoOwnRoute
<1>7. \A q \in Router : \A k \in DOMAIN table[q] :
        table[q][k] \in Nat /\ (k \in DOMAIN table'[q] => table'[q][k] \in Nat)
  BY <1>3, <1>4 DEF IsTable, Cost
<1>8. \A k \in DOMAIN table[r] : table'[r][k] <= table[r][k]
  BY <1>2, <1>7 DEF Routes!Kept, Routes!Learned
<1> QED
  BY <1>1, <1>2, <1>5, <1>6, <1>7, <1>8

-----------------------------------------------------------------------------
(* The inductive invariant. *)

LEMMA InitInv == Init => Inv /\ Routes!Init
<1> SUFFICES ASSUME Init PROVE Inv /\ Routes!Init
  OBVIOUS
<1>1. Routes!Init
  BY SameOperators DEF Init, Routes!Init
<1>2. \A r \in Router : table[r] = LinkCosts(r) /\ fwd[r] = LinkPorts(r)
  BY DEF Init
<1>3. Routes!TypeOK /\ Routes!NoOwnRoute
  <2>1. \A r \in Router : /\ IsTable(table[r])
                          /\ fwd[r] \in [DOMAIN table[r] -> Neighbours(r)]
                          /\ r \notin DOMAIN table[r]
    BY <1>2, LinkTables
  <2> QED
    BY <2>1, SameOperators DEF Init, Routes!TypeOK, Routes!NoOwnRoute
<1>4. \A r \in Router : \A m \in Neighbours(r) :
        buffer[r][m] = <<>> /\ Range(buffer[r][m]) = {}
  BY DEF Init, Range
<1>5. BuffersOK
  <2>1. \A r \in Router : \A m \in Neighbours(r) : IsBuffer(buffer[r][m])
    BY <1>4, EmptySeq DEF IsBuffer
  <2> QED
    BY <2>1 DEF Init, BuffersOK
<1>6. ControlOK
  <2>1. \A r \in Router : 1 \in DOMAIN Ports[r]
    BY TopologyAssumption
  <2>2. <<>> \in Seq({Update, Start, Off})
    BY EmptySeq
  <2>3. calls \in [Router -> Seq({Update, Start, Off})]
    BY <2>2 DEF Init
  <2>4. {heard, changed, ripFinished, ripFinishSignalEmited, isRIPstart}
          \subseteq [Router -> BOOLEAN]
    BY DEF Init
  <2>5. \A r \in Router : port[r] \in DOMAIN Ports[r]
    BY <2>1 DEF Init
  <2>6. {started, asFinished, turnedOff} \subseteq BOOLEAN
    BY DEF Init
  <2> QED
    BY <2>3, <2>4, <2>5, <2>6 DEF Init, ControlOK, Stages
<1>7. InFlight
  BY <1>4 DEF InFlight
<1> QED
  BY <1>1, <1>3, <1>5, <1>6, <1>7 DEF Inv, TypeOK

LEMMA NextInv == Inv /\ [Next]_vars => Inv'
<1> SUFFICES ASSUME Inv, [Next]_vars PROVE Inv'
  OBVIOUS
<1>1. ControlOK'
  BY ControlInv DEF Inv, TypeOK
<1>2. BuffersOK'
  BY StepTables
<1>3. /\ Routes!TypeOK'
      /\ Routes!NoOwnRoute'
      /\ \A q \in Router : \A k \in DOMAIN table[q] :
           k \in DOMAIN table'[q] /\ table'[q][k] <= table[q][k]
  <2>1. CASE \E r \in Router : Routes!Improve(r)
    BY <2>1, ImproveLowers DEF Inv, TypeOK
  <2>2. CASE UNCHANGED tables
    <3>1. table' = table /\ fwd' = fwd
      BY <2>2 DEF tables
    <3>2. \A q \in Router : \A k \in DOMAIN table[q] : table[q][k] \in Nat
      BY SameOperators DEF Inv, TypeOK, Routes!TypeOK, IsTable, Cost
    <3> QED
      BY <3>1, <3>2 DEF Inv, TypeOK, Routes!TypeOK, Routes!NoOwnRoute
  <2> QED
    BY <2>1, <2>2, StepTables
<1>4. \A q \in Router : \A k \in DOMAIN table[q] \cup DOMAIN table'[q] :
        (k \in DOMAIN table[q] => table[q][k] \in Nat) /\
        (k \in DOMAIN table'[q] => table'[q][k] \in Nat)
  <2>1. \A q \in Router : IsTable(table[q])
    BY SameOperators DEF Inv, TypeOK, Routes!TypeOK
  <2>2. \A q \in Router : IsTable(table'[q])
    BY <1>3, SameOperators DEF Routes!TypeOK, Routes!IsTable, Routes!Node, Node,
         Routes!Cost, Cost, IsTable
  <2> QED
    BY <2>1, <2>2 DEF IsTable, Cost
<1>5. InFlight'
  <2> SUFFICES ASSUME NEW r \in Router, NEW m \in Neighbours(r),
                      NEW packet \in Range(buffer'[r][m])
               PROVE  /\ m \in Router
                      /\ DOMAIN packet \subseteq DOMAIN table'[m] \ {m}
                      /\ \A k \in DOMAIN packet : packet[k] >= table'[m][k]
    BY DEF InFlight
  <2>1. IsTable(packet)
    BY <1>2 DEF BuffersOK, IsBuffer
  <2>2. \A k \in DOMAIN packet : packet[k] \in Nat
    BY <2>1 DEF IsTable, Cost
  <2>3. CASE packet \in Range(buffer[r][m])
    <3>1. /\ m \in Router
          /\ DOMAIN packet \subseteq DOMAIN table[m] \ {m}
          /\ \A k \in DOMAIN packet : packet[k] >= table[m][k]
      BY <2>3 DEF Inv, InFlight
    <3> QED
      BY <1>3, <1>4, <2>2, <3>1
  <2>4. CASE m \in Router /\ packet = table[m] /\ UNCHANGED tables
    <3>1. m \notin DOMAIN table[m] /\ table' = table
      BY <2>4 DEF Inv, Routes!NoOwnRoute, tables
    <3> QED
      BY <2>2, <2>4, <3>1
  <2> QED
    BY <2>3, <2>4, StepTables
<1> QED
  BY <1>1, <1>2, <1>3, <1>5 DEF Inv, TypeOK

LEMMA Invariance == Spec => []Inv
<1>1. Init => Inv
  BY InitInv
<1> QED
  BY <1>1, NextInv, PTL DEF Spec

-----------------------------------------------------------------------------
(* The theorems. *)

(* Types hold in every reachable state: in particular the two tables of a  *)
(* router always know the same destinations.                               *)
THEOREM TypeCorrect == Spec => []TypeOK
BY Invariance, PTL DEF Inv

(* No packet in a port's buffer ever offers a route its sender lacks, or a *)
(* cost below the sender's.                                                *)
THEOREM PacketsAreOld == Spec => []InFlight
BY Invariance, PTL DEF Inv

(* RIP, races on its buffers included, implements the abstract routing     *)
(* specification.                                                          *)
THEOREM Refinement == Spec => RefinesRouting
<1>1. Init => Routes!Init
  BY InitInv
<1>2. Inv /\ [Next]_vars => [Routes!Next]_Routes!vars
  BY StepTables DEF Routes!Next, Routes!vars, tables
<1> QED
  BY <1>1, <1>2, Invariance, PTL DEF Spec, RefinesRouting, Routes!Spec

(* Routing, in the terms of the lemmas about tables that improve.          *)
LEMMA SameRouting ==
  /\ Routes!Init => WellRouted(table, fwd)
  /\ WellRouted(table, fwd) <=> Routes!TypeOK /\ Routes!NoOwnRoute /\ Routes!NextHopCloser
  /\ \A r : Routes!Improve(r) <=> Improves(r, table, fwd, table', fwd')
<1>1. Routes!Init => WellRouted(table, fwd)
  BY LinksWellRouted, SameOperators DEF Routes!Init
<1>2. WellRouted(table, fwd) <=> Routes!TypeOK /\ Routes!NoOwnRoute /\ Routes!NextHopCloser
  BY SameOperators DEF WellRouted, Routes!TypeOK, Routes!NoOwnRoute, Routes!NextHopCloser
<1>3. \A r : Routes!Improve(r) <=> Improves(r, table, fwd, table', fwd')
  BY SameOperators DEF Routes!Improve, Improves, Routes!Kept, Routes!Learned
<1> QED
  BY <1>1, <1>2, <1>3

(* Loop-free forwarding follows from the abstract specification alone: at  *)
(* every moment its hops lead to strictly cheaper routers.                 *)
THEOREM RoutingInvariant ==
  Routes!Spec => [](Routes!TypeOK /\ Routes!NoOwnRoute /\ Routes!NextHopCloser)
<1>1. WellRouted(table, fwd) /\ [Routes!Next]_Routes!vars => WellRouted(table, fwd)'
  <2> SUFFICES ASSUME WellRouted(table, fwd), [Routes!Next]_Routes!vars
               PROVE  WellRouted(table', fwd')
    BY DEF WellRouted
  <2>1. CASE UNCHANGED Routes!vars
    BY <2>1 DEF Routes!vars
  <2>2. CASE \E r \in Router : Routes!Improve(r)
    BY <2>2, SameRouting, ImprovesWellRouted
  <2> QED
    BY <2>1, <2>2 DEF Routes!Next
<1> QED
  BY <1>1, SameRouting, PTL DEF Routes!Spec

(* So no group of routers ever traps the packets of a destination.         *)
THEOREM RoutingLoopFree == Routes!Spec => []Routes!NoForwardingLoop
<1>1. WellRouted(table, fwd) => Routes!NoForwardingLoop
  BY NoWayRound, SameOperators DEF Routes!NoForwardingLoop
<1> QED
  BY <1>1, RoutingInvariant, SameRouting, PTL

(* Whatever the interleaving, forwarding gets strictly cheaper hop by hop. *)
THEOREM EveryHopCloser == Spec => []NextHopCloser
BY Refinement, RoutingInvariant, PTL DEF RefinesRouting, NextHopCloser

(* Whatever the interleaving, no group of routers traps a packet.          *)
THEOREM NoLoop == Spec => []NoForwardingLoop
BY Refinement, RoutingLoopFree, PTL DEF RefinesRouting, NoForwardingLoop

-----------------------------------------------------------------------------
(* Costs are lengths of ways.  Inductive with it: so are the costs in every *)
(* packet, seen from the router that sent it, for a merge adds the one link *)
(* the packet came by.                                                      *)

PacketsSound ==
  \A r \in Router : \A m \in Neighbours(r) :
    \A packet \in Range(buffer[r][m]) :
      \A k \in DOMAIN packet : IsWay(m, k, packet[k])

(* A step changes at most one table, by merging a packet of a peer into it. *)
LEMMA StepLearns ==
  ASSUME Inv, [Next]_vars
  PROVE  \/ table' = table
         \/ \E r \in Router : \E m \in Peers(r) : \E packet \in Range(buffer[r][m]) :
              /\ IsTable(packet)
              /\ table' = [table EXCEPT ![r] = MergeCosts(r, table[r], packet)]
<1> USE DEF tables
<1>1. CASE UNCHANGED vars
  BY <1>1 DEF vars
<1>2. CASE PostUpdate \/ PostStart \/ PostTurnOff
  BY <1>2 DEF PostUpdate, PostStart, PostTurnOff
<1>3. ASSUME NEW r \in Router, Thread(r), table' # table
      PROVE  \E m \in Peers(r) : \E packet \in Range(buffer[r][m]) :
               /\ IsTable(packet)
               /\ table' = [table EXCEPT ![r] = MergeCosts(r, table[r], packet)]
  <2> DEFINE m == Ports[r][port[r]]
             new == Head(buffer[r][m])
  <2>1. Receive(r)
    BY <1>3 DEF Thread, BeginUpdateRIP, BeginUpdateForwarding, StartRIP,
                TurnOffProtocols, Conclude, Send, Drop
  <2>2. /\ buffer[r][m] # <<>>
        /\ table' = [table EXCEPT ![r] = MergeCosts(r, table[r], new)]
    BY <1>3, <2>1 DEF Receive
  <2>3. m \in Neighbours(r)
    BY DEF Inv, TypeOK, ControlOK, Neighbours, Range
  <2>4. IsBuffer(buffer[r][m])
    BY <2>3 DEF Inv, TypeOK, BuffersOK
  <2>5. new \in Range(buffer[r][m])
    BY <2>2, <2>4, PopBuffer
  <2>6. IsTable(new) /\ m \in Peers(r)
    BY <2>3, <2>4, <2>5 DEF IsBuffer, Inv, InFlight, Peers
  <2> HIDE DEF m, new
  <2> QED
    BY <2>2, <2>5, <2>6
<1> QED
  BY <1>1, <1>2, <1>3 DEF Next

LEMMA WaysInit == Init => CostsSound /\ PacketsSound
<1> SUFFICES ASSUME Init PROVE CostsSound /\ PacketsSound
  OBVIOUS
<1>1. \A r \in Router : table[r] = LinkCosts(r)
  BY DEF Init
<1>2. CostsSound
  BY <1>1, LinkWay DEF CostsSound, LinkCosts
<1>3. \A r \in Router : \A m \in Neighbours(r) : Range(buffer[r][m]) = {}
  BY DEF Init, Range
<1> QED
  BY <1>2, <1>3 DEF PacketsSound

LEMMA WaysNext == Inv /\ CostsSound /\ PacketsSound /\ [Next]_vars => CostsSound' /\ PacketsSound'
<1> SUFFICES ASSUME Inv, CostsSound, PacketsSound, [Next]_vars
             PROVE  CostsSound' /\ PacketsSound'
  OBVIOUS
<1>1. CostsSound'
  <2>1. CASE table' = table
    BY <2>1 DEF CostsSound
  <2>2. ASSUME NEW r \in Router, NEW m \in Peers(r), NEW packet \in Range(buffer[r][m]),
               IsTable(packet),
               table' = [table EXCEPT ![r] = MergeCosts(r, table[r], packet)]
        PROVE  CostsSound'
    <3>1. /\ IsTable(table[r])
          /\ fwd[r] \in [DOMAIN table[r] -> Neighbours(r)]
          /\ m \in Neighbours(r)
      BY SameOperators DEF Inv, TypeOK, Routes!TypeOK, Peers
    <3>2. /\ table'[r] = MergeCosts(r, table[r], packet)
          /\ \A q \in Router \ {r} : table'[q] = table[q]
      BY <2>2 DEF Inv, TypeOK, Routes!TypeOK
    <3>3. ASSUME NEW k \in DOMAIN table'[r] PROVE IsWay(r, k, table'[r][k])
      <4>1. k \in DOMAIN MergeCosts(r, table[r], packet)
        BY <3>2, <3>3
      <4>2. CASE k \in DOMAIN table[r] /\ table'[r][k] = table[r][k]
        BY <4>2 DEF CostsSound
      <4>3. CASE k \in DOMAIN packet /\ table'[r][k] = packet[k] + 1
        <5>1. IsWay(m, k, packet[k]) /\ packet[k] \in Nat
          BY <2>2, <3>1, <4>3 DEF PacketsSound, IsTable, Cost
        <5>2. IsWay(r, k, packet[k] + 1)
          BY <5>1, LongerWay
        <5> QED
          BY <4>3, <5>2
      <4>4. \/ /\ k \in DOMAIN table[r]
               /\ MergeCosts(r, table[r], packet)[k] = table[r][k]
               /\ MergePorts(r, table[r], fwd[r], packet, m)[k] = fwd[r][k]
            \/ /\ k \in DOMAIN packet
               /\ MergeCosts(r, table[r], packet)[k] = packet[k] + 1
               /\ MergePorts(r, table[r], fwd[r], packet, m)[k] = m
        BY <2>2, <3>1, <4>1, MergeEntries
      <4> QED
        BY <3>2, <4>2, <4>3, <4>4
    <3> QED
      BY <3>2, <3>3 DEF CostsSound
  <2> QED
    BY <2>1, <2>2, StepLearns
<1>2. PacketsSound'
  <2> SUFFICES ASSUME NEW r \in Router, NEW m \in Neighbours(r),
                      NEW packet \in Range(buffer'[r][m]), NEW k \in DOMAIN packet
               PROVE  IsWay(m, k, packet[k])
    BY DEF PacketsSound
  <2>1. CASE packet \in Range(buffer[r][m])
    BY <2>1 DEF PacketsSound
  <2>2. CASE m \in Router /\ packet = table[m]
    BY <2>2 DEF CostsSound
  <2> QED
    BY <2>1, <2>2, StepTables
<1> QED
  BY <1>1, <1>2

(* However old and however interleaved the vectors merged, every cost of   *)
(* every table is the length of a way there is.                            *)
THEOREM CostsAreWays == Spec => []CostsSound
<1>1. Init => CostsSound /\ PacketsSound
  BY WaysInit
<1>2. Inv /\ CostsSound /\ PacketsSound /\ [Next]_vars => CostsSound' /\ PacketsSound'
  BY WaysNext
<1> QED
  BY <1>1, <1>2, Invariance, PTL DEF Spec

-----------------------------------------------------------------------------
(* Off stays off.  A call to turn off is queued behind every call to start *)
(* (main posts the one start first), so when it is handled nothing is left *)
(* that could set isRIPstart again.                                        *)

NoneWaits(r, call) == \A i \in DOMAIN calls[r] : calls[r][i] # call

StartsFirst(r) ==
  \A i, j \in DOMAIN calls[r] : calls[r][i] = Start /\ calls[r][j] = Off => i < j

OffLast ==
  /\ turnedOff => started
  /\ \A r \in Router :
       /\ ~started => NoneWaits(r, Start)
       /\ ~turnedOff => NoneWaits(r, Off)
       /\ StartsFirst(r)
       /\ turnedOff /\ NoneWaits(r, Off) => NoneWaits(r, Start) /\ ~isRIPstart[r]

LEMMA Posted ==
  ASSUME ControlOK, NEW call \in {Update, Start, Off}, PostToAll(call), NEW r \in Router
  PROVE  /\ \A c : NoneWaits(r, c)' <=> NoneWaits(r, c) /\ call # c
         /\ StartsFirst(r) /\ (call = Start => NoneWaits(r, Off)) => StartsFirst(r)'
<1>1. PICK s \in Seq({Update, Start, Off}) : s = calls[r]
  BY DEF ControlOK
<1>2. calls'[r] = Append(s, call)
  BY <1>1 DEF PostToAll
<1>3. /\ DOMAIN s = 1..Len(s) /\ Len(s) \in Nat
      /\ DOMAIN Append(s, call) = 1..(Len(s) + 1)
      /\ \A i \in 1..Len(s) : Append(s, call)[i] = s[i]
      /\ Append(s, call)[Len(s) + 1] = call
  OBVIOUS
<1>4. ASSUME NEW c PROVE NoneWaits(r, c)' <=> NoneWaits(r, c) /\ call # c
  BY <1>1, <1>2, <1>3 DEF NoneWaits
<1>5. ASSUME StartsFirst(r), call = Start => NoneWaits(r, Off) PROVE StartsFirst(r)'
  <2>1. Start # Off
    BY DEF Start, Off
  <2> QED
    BY <1>1, <1>2, <1>3, <1>5, <2>1 DEF StartsFirst, NoneWaits
<1> QED
  BY <1>4, <1>5

LEMMA Taken ==
  ASSUME ControlOK, NEW q \in Router, NEW call, Called(q, call), NEW r \in Router
  PROVE  /\ ~NoneWaits(q, call)
         /\ \A c : NoneWaits(r, c) => NoneWaits(r, c)'
         /\ \A c : c # call /\ NoneWaits(r, c)' => NoneWaits(r, c)
         /\ StartsFirst(r) => StartsFirst(r)'
         /\ StartsFirst(q) /\ call = Off => NoneWaits(q, Start)
<1>1. PICK s \in Seq({Update, Start, Off}) : s = calls[q]
  BY DEF ControlOK
<1>2. s # <<>> /\ s[1] = call /\ calls' = [calls EXCEPT ![q] = Tail(s)]
  BY <1>1 DEF Called
<1>3. \A p \in Router : calls'[p] = IF p = q THEN Tail(s) ELSE calls[p]
  BY <1>2 DEF ControlOK
<1>4. /\ DOMAIN s = 1..Len(s) /\ Len(s) \in Nat /\ Len(s) >= 1
      /\ DOMAIN Tail(s) = 1..(Len(s) - 1)
      /\ \A i \in 1..(Len(s) - 1) : Tail(s)[i] = s[i + 1]
  BY <1>2
<1>5. \A i \in DOMAIN Tail(s) : i + 1 \in DOMAIN s /\ Tail(s)[i] = s[i + 1]
  BY <1>4
<1>6. \A i \in DOMAIN s : i = 1 \/ (i - 1 \in DOMAIN Tail(s) /\ Tail(s)[i - 1] = s[i])
  BY <1>4
<1>7. ~NoneWaits(q, call)
  BY <1>1, <1>2, <1>4 DEF NoneWaits
<1>8. CASE r # q
  <2>1. calls'[r] = calls[r]
    BY <1>3, <1>8
  <2>2. StartsFirst(q) /\ call = Off => NoneWaits(q, Start)
    BY <1>1, <1>2, <1>4 DEF StartsFirst, NoneWaits
  <2> QED
    BY <1>7, <2>1, <2>2 DEF NoneWaits, StartsFirst
<1>9. CASE r = q
  <2>1. calls'[r] = Tail(s) /\ calls[r] = s
    BY <1>1, <1>3, <1>9
  <2>2. \A c : NoneWaits(r, c) => NoneWaits(r, c)'
    BY <1>5, <2>1 DEF NoneWaits
  <2>3. ASSUME NEW c, c # call, NoneWaits(r, c)' PROVE NoneWaits(r, c)
    <3>1. \A i \in DOMAIN Tail(s) : Tail(s)[i] # c
      BY <2>1, <2>3 DEF NoneWaits
    <3>2. ASSUME NEW i \in DOMAIN s PROVE s[i] # c
      BY <1>2, <1>6, <2>3, <3>1
    <3> QED
      BY <2>1, <3>2 DEF NoneWaits
  <2>4. StartsFirst(r) => StartsFirst(r)'
    BY <1>4, <1>5, <2>1 DEF StartsFirst
  <2>5. StartsFirst(q) /\ call = Off => NoneWaits(q, Start)
    BY <1>1, <1>2, <1>4 DEF StartsFirst, NoneWaits
  <2> QED
    BY <1>7, <2>2, <2>3, <2>4, <2>5
<1> QED
  BY <1>8, <1>9

LEMMA OffNext == ControlOK /\ OffLast /\ [Next]_vars => OffLast'
<1> SUFFICES ASSUME ControlOK, OffLast, [Next]_vars PROVE OffLast'
  OBVIOUS
<1> USE DEF control, main
<1>1. ASSUME UNCHANGED <<calls, started, turnedOff>>,
             \A r \in Router : isRIPstart'[r] => isRIPstart[r]
      PROVE  OffLast'
  BY <1>1 DEF OffLast, NoneWaits, StartsFirst
<1>2. CASE UNCHANGED vars
  BY <1>1, <1>2 DEF vars
<1>3. Update # Start /\ Update # Off /\ Start # Off
  BY DEF Update, Start, Off
<1>4. CASE PostUpdate
  <2>1. PostToAll(Update) /\ UNCHANGED <<started, turnedOff, isRIPstart>>
    BY <1>4 DEF PostUpdate
  <2> QED
    BY <1>3, <2>1, Posted DEF OffLast
<1>5. CASE PostStart
  <2>1. PostToAll(Start) /\ UNCHANGED <<turnedOff, isRIPstart>> /\ ~started /\ started'
    BY <1>5 DEF PostStart
  <2> QED
    BY <1>3, <2>1, Posted DEF OffLast
<1>6. CASE PostTurnOff
  <2>1. PostToAll(Off) /\ UNCHANGED <<started, isRIPstart>> /\ started /\ turnedOff'
    BY <1>6 DEF PostTurnOff
  <2> QED
    BY <1>3, <2>1, Posted DEF OffLast
<1>7. ASSUME NEW q \in Router, Thread(q) PROVE OffLast'
  <2>1. CASE BeginUpdateRIP(q) \/ BeginUpdateForwarding(q)
    <3>1. Called(q, Update) /\ UNCHANGED <<started, turnedOff, isRIPstart>>
      BY <2>1 DEF BeginUpdateRIP, BeginUpdateForwarding
    <3> QED
      BY <1>3, <3>1, Taken DEF OffLast
  <2>2. CASE StartRIP(q)
    <3>1. Called(q, Start) /\ UNCHANGED <<started, turnedOff>>
      BY <2>2 DEF StartRIP
    <3>2. \A r \in Router : r # q => isRIPstart'[r] = isRIPstart[r]
      BY <2>2 DEF StartRIP, ControlOK
    <3>3. ~(turnedOff /\ NoneWaits(q, Off))
      BY <3>1, Taken DEF OffLast
    <3>4. ~(turnedOff /\ NoneWaits(q, Off)')
      BY <1>3, <3>1, <3>3, Taken
    <3> QED
      BY <1>3, <3>1, <3>2, <3>4, Taken DEF OffLast
  <2>3. CASE TurnOffProtocols(q)
    <3>1. Called(q, Off) /\ UNCHANGED <<started, turnedOff>>
      BY <2>3 DEF TurnOffProtocols
    <3>2. isRIPstart'[q] = FALSE /\ \A r \in Router : r # q => isRIPstart'[r] = isRIPstart[r]
      BY <2>3 DEF TurnOffProtocols, ControlOK
    <3>3. NoneWaits(q, Start)'
      BY <3>1, Taken DEF OffLast
    <3>4. ASSUME NEW r \in Router, turnedOff', NoneWaits(r, Off)'
          PROVE  NoneWaits(r, Start)' /\ ~isRIPstart'[r]
      <4>1. CASE r = q
        BY <3>2, <3>3, <4>1
      <4>2. CASE r # q
        <5>1. calls'[r] = calls[r]
          BY <3>1, <4>2 DEF Called, ControlOK
        <5> QED
          BY <3>1, <3>2, <3>4, <4>2, <5>1 DEF OffLast, NoneWaits
      <4> QED
        BY <4>1, <4>2
    <3> QED
      BY <1>3, <3>1, <3>4, Taken DEF OffLast
  <2>4. CASE Conclude(q)
    <3>1. UNCHANGED <<calls, started, turnedOff>>
      BY <2>4 DEF Conclude
    <3>2. \A r \in Router : isRIPstart'[r] => isRIPstart[r]
      BY <2>4 DEF Conclude, ControlOK
    <3> QED
      BY <1>1, <3>1, <3>2
  <2>5. CASE Receive(q) \/ Send(q) \/ Drop(q)
    BY <1>1, <2>5 DEF Receive, Send, Drop
  <2> QED
    BY <1>7, <2>1, <2>2, <2>3, <2>4, <2>5 DEF Thread
<1> QED
  BY <1>2, <1>4, <1>5, <1>6, <1>7 DEF Next

(* RIP never runs again once turnOffProtocols was handled, however many    *)
(* calls wait in a queue and whatever the threads are in the middle of.    *)
THEOREM StaysOff == Spec => []OffStaysOff
<1>1. Init => OffLast
  BY DEF Init, OffLast, NoneWaits, StartsFirst
<1>2. OffLast => OffStaysOff
  BY DEF OffLast, NoneWaits, OffStaysOff
<1>3. Inv => ControlOK
  BY DEF Inv, TypeOK
<1> QED
  BY <1>1, <1>2, <1>3, OffNext, Invariance, PTL DEF Spec

-----------------------------------------------------------------------------
(* Counting the calls in a queue.                                          *)

One(b) == IF b THEN 1 ELSE 0

Count(s, c) == Cardinality({i \in DOMAIN s : s[i] = c})

LEMMA CountNat ==
  ASSUME NEW S, NEW s \in Seq(S), NEW c
  PROVE  IsFiniteSet({i \in DOMAIN s : s[i] = c}) /\ Count(s, c) \in Nat
<1>1. IsFiniteSet(1..Len(s)) /\ DOMAIN s = 1..Len(s)
  BY FS_Interval
<1>2. {i \in DOMAIN s : s[i] = c} \subseteq 1..Len(s)
  BY <1>1
<1>3. IsFiniteSet({i \in DOMAIN s : s[i] = c})
  BY <1>1, <1>2, FS_Subset
<1> QED
  BY <1>3, FS_CardinalityType DEF Count

LEMMA CountAppend ==
  ASSUME NEW S, NEW s \in Seq(S), NEW d \in S, NEW c
  PROVE  Count(Append(s, d), c) = Count(s, c) + One(d = c)
<1> DEFINE P == {i \in DOMAIN s : s[i] = c}
           Q == {i \in DOMAIN Append(s, d) : Append(s, d)[i] = c}
<1>1. IsFiniteSet(P) /\ Cardinality(P) \in Nat
  BY CountNat DEF Count
<1>2. /\ DOMAIN s = 1..Len(s) /\ Len(s) \in Nat
      /\ DOMAIN Append(s, d) = 1..(Len(s) + 1)
      /\ \A i \in 1..Len(s) : Append(s, d)[i] = s[i]
      /\ Append(s, d)[Len(s) + 1] = d
  OBVIOUS
<1>3. Q = (IF d = c THEN P \cup {Len(s) + 1} ELSE P) /\ Len(s) + 1 \notin P
  BY <1>2
<1> HIDE DEF P, Q
<1>4. Cardinality(P \cup {Len(s) + 1}) = Cardinality(P) + 1
  BY <1>1, <1>3, FS_AddElement
<1>5. Cardinality(Q) = Cardinality(P) + One(d = c)
  BY <1>1, <1>3, <1>4 DEF One
<1> QED
  BY <1>5 DEF Count, P, Q

LEMMA CountTail ==
  ASSUME NEW S, NEW s \in Seq(S), s # <<>>, NEW c
  PROVE  Count(Tail(s), c) + One(Head(s) = c) = Count(s, c)
<1> DEFINE T == {i \in DOMAIN Tail(s) : Tail(s)[i] = c}
           P == {i \in 2..Len(s) : s[i] = c}
           Q == {i \in DOMAIN s : s[i] = c}
           f == [i \in T |-> i + 1]
<1>1. /\ DOMAIN s = 1..Len(s) /\ Len(s) \in Nat /\ Len(s) >= 1 /\ Head(s) = s[1]
      /\ Tail(s) \in Seq(S)
      /\ DOMAIN Tail(s) = 1..(Len(s) - 1)
      /\ \A i \in 1..(Len(s) - 1) : Tail(s)[i] = s[i + 1]
  OBVIOUS
<1>2. f \in [T -> P]
  BY <1>1
<1>3. \A i, j \in T : f[i] = f[j] => i = j
  BY <1>1
<1>4. \A t \in P : \E i \in T : f[i] = t
  <2> SUFFICES ASSUME NEW t \in P PROVE \E i \in T : f[i] = t
    OBVIOUS
  <2>1. t - 1 \in 1..(Len(s) - 1) /\ s[t] = c /\ (t - 1) + 1 = t
    BY <1>1
  <2>2. t - 1 \in T
    BY <1>1, <2>1
  <2> QED
    BY <2>1, <2>2
<1>5. IsFiniteSet(T)
  BY <1>1, CountNat
<1>6. Q = (IF s[1] = c THEN P \cup {1} ELSE P) /\ 1 \notin P
  BY <1>1
<1> HIDE DEF T, P, Q, f
<1>7. f \in Bijection(T, P)
  BY <1>2, <1>3, <1>4, Fun_IsBij
<1>8. Cardinality(P) = Cardinality(T) /\ IsFiniteSet(P)
  BY <1>5, <1>7, FS_Bijection, Fun_ExistsBij
<1>9. Cardinality(P) \in Nat /\ Cardinality(P \cup {1}) = Cardinality(P) + 1
  BY <1>6, <1>8, FS_CardinalityType, FS_AddElement
<1>10. Cardinality(T) + One(s[1] = c) = Cardinality(Q)
  BY <1>6, <1>8, <1>9 DEF One
<1> QED
  BY <1>1, <1>10 DEF Count, T, Q

LEMMA PostedCount ==
  ASSUME ControlOK, NEW call \in {Update, Start, Off}, PostToAll(call), NEW r \in Router, NEW c
  PROVE  Count(calls'[r], c) = Count(calls[r], c) + One(call = c)
<1>1. calls[r] \in Seq({Update, Start, Off}) /\ calls'[r] = Append(calls[r], call)
  BY DEF ControlOK, PostToAll
<1> QED
  BY <1>1, CountAppend

LEMMA TakenCount ==
  ASSUME ControlOK, NEW q \in Router, NEW call, Called(q, call), NEW r \in Router, NEW c
  PROVE  /\ r = q /\ call = c => Count(calls'[r], c) + 1 = Count(calls[r], c)
         /\ r # q \/ call # c => Count(calls'[r], c) = Count(calls[r], c)
<1>1. /\ calls[q] \in Seq({Update, Start, Off}) /\ calls[q] # <<>> /\ Head(calls[q]) = call
      /\ calls'[r] = IF r = q THEN Tail(calls[q]) ELSE calls[r]
      /\ calls[r] \in Seq({Update, Start, Off})
  BY DEF ControlOK, Called
<1>2. CASE r = q
  <2>1. Count(Tail(calls[q]), c) + One(call = c) = Count(calls[q], c)
    BY <1>1, CountTail
  <2>2. Tail(calls[q]) \in Seq({Update, Start, Off})
    BY <1>1
  <2>3. Count(Tail(calls[q]), c) \in Nat
    BY <2>2, CountNat
  <2> QED
    BY <1>1, <1>2, <2>1, <2>3 DEF One
<1>3. CASE r # q
  BY <1>1, <1>3
<1> QED
  BY <1>2, <1>3

-----------------------------------------------------------------------------
(* The backlog.  What is in r's port towards m, with what m may still push *)
(* into it, is bounded by what r will still take, the calls the timer may  *)
(* be ahead by, m's first vector and its start, and one for every race.    *)

(* r's port towards m is at or after the one its running loop is at. *)
Ahead(r, m) == \E i \in DOMAIN Ports[r] : Ports[r][i] = m /\ port[r] <= i

ToTake(r, m) == One(stage[r] \in {"receive", "forward"} /\ Ahead(r, m))
ToSend(m, r) == One(stage[m] \in {"receive", "conclude"} \/ (stage[m] = "send" /\ Ahead(m, r)))

Takes(r, m)   == Count(calls[r], Update) + ToTake(r, m)
StartsLeft(r) == Count(calls[r], Start) + One(~started)
Sends(m, r)   == Count(calls[m], Update) + StartsLeft(m) + ToSend(m, r)

Slack(m)      == MaxQueue[m] + 2 + races

InReach(r, m) == Len(buffer[r][m]) + Sends(m, r) <= Takes(r, m) + Slack(m)

Backlog ==
  /\ races <= MaxRaces
  /\ \A r \in Router : /\ Count(calls[r], Update) <= MaxQueue[r]
                       /\ StartsLeft(r) <= 1
                       /\ \A m \in Peers(r) : InReach(r, m)

(* What is counted is a natural number. *)
Natural ==
  /\ \A r \in Router : /\ Count(calls[r], Update) \in Nat
                       /\ Count(calls[r], Start) \in Nat
                       /\ StartsLeft(r) \in Nat
                       /\ MaxQueue[r] \in Nat
                       /\ Slack(r) \in Nat
  /\ \A r \in Router : \A m \in Neighbours(r) :
       /\ Len(buffer[r][m]) \in Nat
       /\ ToTake(r, m) \in 0..1 /\ Takes(r, m) \in Nat
       /\ ToSend(r, m) \in 0..1 /\ Sends(r, m) \in Nat
  /\ races \in Nat /\ MaxRaces \in Nat

LEMMA Numbers == TypeOK => Natural
<1> SUFFICES ASSUME TypeOK PROVE Natural
  OBVIOUS
<1>1. races \in Nat /\ MaxRaces \in Nat
  BY RipAssumption DEF TypeOK, BuffersOK
<1>2. ASSUME NEW r \in Router
      PROVE  /\ Count(calls[r], Update) \in Nat
             /\ Count(calls[r], Start) \in Nat
             /\ StartsLeft(r) \in Nat
             /\ MaxQueue[r] \in Nat
             /\ Slack(r) \in Nat
  <2>1. calls[r] \in Seq({Update, Start, Off})
    BY DEF TypeOK, ControlOK
  <2>2. Count(calls[r], Update) \in Nat /\ Count(calls[r], Start) \in Nat
    BY <2>1, CountNat
  <2>3. StartsLeft(r) \in Nat
    BY <2>2 DEF StartsLeft, One
  <2>4. MaxQueue[r] \in Nat
    BY RipAssumption
  <2>5. Slack(r) \in Nat
    BY <1>1, <2>4 DEF Slack
  <2> QED
    BY <2>2, <2>3, <2>4, <2>5
<1>3. ASSUME NEW r \in Router, NEW m \in Neighbours(r)
      PROVE  /\ Len(buffer[r][m]) \in Nat
             /\ ToTake(r, m) \in 0..1 /\ Takes(r, m) \in Nat
             /\ ToSend(r, m) \in 0..1 /\ Sends(r, m) \in Nat
  <2>1. buffer[r][m] \in Seq(Range(buffer[r][m]))
    BY DEF TypeOK, BuffersOK, IsBuffer
  <2>2. Len(buffer[r][m]) \in Nat
    BY <2>1
  <2>3. ToTake(r, m) \in 0..1 /\ ToSend(r, m) \in 0..1
    BY DEF ToTake, ToSend, One
  <2>4. ToTake(r, m) \in Nat /\ ToSend(r, m) \in Nat
    BY <2>3
  <2>5. Takes(r, m) \in Nat
    BY <1>2, <2>4 DEF Takes
  <2>6. Sends(r, m) \in Nat
    BY <1>2, <2>4 DEF Sends
  <2> QED
    BY <2>2, <2>3, <2>5, <2>6
<1> QED
  BY <1>1, <1>2, <1>3 DEF Natural

LEMMA NumbersNext == TypeOK' => Natural'
BY Numbers, PTL

(* The loops: entering one puts every port ahead; a turn takes the port it *)
(* is at from those ahead.                                                 *)
LEMMA Elsewhere ==
  ASSUME ControlOK, NEW q \in Router, NEW s, NextPort(q, s) \/ EnterLoop(q, s),
         NEW p \in Router, p # q, NEW n
  PROVE  ToTake(p, n)' = ToTake(p, n) /\ ToSend(p, n)' = ToSend(p, n)
<1>1. stage'[p] = stage[p] /\ port'[p] = port[p]
  BY DEF NextPort, EnterLoop, ControlOK
<1> QED
  BY <1>1 DEF ToTake, ToSend, Ahead

LEMMA EnterAhead ==
  ASSUME ControlOK, NEW q \in Router, NEW s, EnterLoop(q, s), NEW n \in Neighbours(q)
  PROVE  stage'[q] = s /\ Ahead(q, n)'
<1>1. stage'[q] = s /\ port'[q] = 1
  BY DEF EnterLoop, ControlOK
<1>2. PICK i \in DOMAIN Ports[q] : Ports[q][i] = n
  BY DEF Neighbours, Range
<1>3. 1 <= i
  BY <1>2, TopologyAssumption
<1> QED
  BY <1>1, <1>2, <1>3 DEF Ahead

LEMMA NextAhead ==
  ASSUME ControlOK, NEW q \in Router, NEW s, NextPort(q, s), NEW n \in Neighbours(q)
  PROVE  /\ \/ /\ stage'[q] = stage[q]
               /\ Ahead(q, n)' <=> (Ahead(q, n) /\ n # Ports[q][port[q]])
            \/ stage'[q] = s /\ (Ahead(q, n) => n = Ports[q][port[q]])
         /\ n = Ports[q][port[q]] => Ahead(q, n)
<1>1. /\ DOMAIN Ports[q] = 1..Len(Ports[q]) /\ Len(Ports[q]) \in Nat
      /\ port[q] \in 1..Len(Ports[q])
  BY TopologyAssumption DEF ControlOK
<1>2. \A i, j \in 1..Len(Ports[q]) : Ports[q][i] = Ports[q][j] => i = j
  BY <1>1, TopologyAssumption
<1>3. n = Ports[q][port[q]] => Ahead(q, n)
  BY <1>1 DEF Ahead
<1>4. CASE port[q] < Len(Ports[q])
  <2>1. stage'[q] = stage[q] /\ port'[q] = port[q] + 1
    BY <1>4 DEF NextPort, ControlOK
  <2>2. Ahead(q, n)' <=> (Ahead(q, n) /\ n # Ports[q][port[q]])
    <3>1. \A i \in 1..Len(Ports[q]) :
            port[q] + 1 <= i <=> (port[q] <= i /\ i # port[q])
      BY <1>1
    <3> QED
      BY <1>1, <1>2, <2>1, <3>1 DEF Ahead
  <2> QED
    BY <1>3, <2>1, <2>2
<1>5. CASE ~(port[q] < Len(Ports[q]))
  <2>1. stage'[q] = s
    BY <1>5 DEF NextPort, EnterLoop, ControlOK
  <2>2. \A i \in 1..Len(Ports[q]) : port[q] <= i => i = port[q]
    BY <1>1, <1>5
  <2>3. Ahead(q, n) => n = Ports[q][port[q]]
    BY <1>1, <2>2 DEF Ahead
  <2> QED
    BY <1>3, <2>1, <2>3
<1> QED
  BY <1>4, <1>5

LEMMA TakeTurn ==
  ASSUME ControlOK, NEW q \in Router, NEW n \in Neighbours(q),
         \/ stage[q] = "receive" /\ NextPort(q, "conclude")
         \/ stage[q] = "forward" /\ NextPort(q, "idle")
  PROVE  /\ ToTake(q, n)' + One(n = Ports[q][port[q]]) = ToTake(q, n)
         /\ ToSend(q, n)' = ToSend(q, n)
<1>1. CASE stage[q] = "receive" /\ NextPort(q, "conclude")
  BY <1>1, NextAhead DEF ToTake, ToSend, One
<1>2. CASE stage[q] = "forward" /\ NextPort(q, "idle")
  BY <1>2, NextAhead DEF ToTake, ToSend, One
<1> QED
  BY <1>1, <1>2

LEMMA SendTurn ==
  ASSUME ControlOK, NEW q \in Router, NEW n \in Neighbours(q),
         stage[q] = "send", NextPort(q, "idle")
  PROVE  /\ ToTake(q, n)' = ToTake(q, n)
         /\ ToSend(q, n)' + One(n = Ports[q][port[q]]) = ToSend(q, n)
BY NextAhead DEF ToTake, ToSend, One

(* What an access does to the lengths; a race pays for what it spoils. *)
LEMMA PopLength ==
  ASSUME BuffersOK, NEW r \in Router, NEW m \in Neighbours(r),
         buffer[r][m] # <<>>, Pop(r, m)
  PROVE  \/ /\ races' = races
            /\ Len(buffer'[r][m]) \in Nat /\ Len(buffer'[r][m]) + 1 = Len(buffer[r][m])
            /\ \A p \in Router : \A n \in Neighbours(p) :
                 p # r \/ n # m => buffer'[p][n] = buffer[p][n]
         \/ races' = races + 1 /\ races < MaxRaces /\ buffer' = buffer
<1>1. CASE buffer' = [buffer EXCEPT ![r][m] = Tail(buffer[r][m])] /\ races' = races
  <2>1. buffer[r][m] \in Seq(Range(buffer[r][m]))
    BY DEF BuffersOK, IsBuffer
  <2>2. Len(Tail(buffer[r][m])) \in Nat /\ Len(Tail(buffer[r][m])) + 1 = Len(buffer[r][m])
    BY <2>1
  <2>3. \A p \in Router : \A n \in Neighbours(p) :
          buffer'[p][n] = IF p = r /\ n = m THEN Tail(buffer[r][m]) ELSE buffer[p][n]
    BY <1>1 DEF BuffersOK
  <2>4. buffer'[r][m] = Tail(buffer[r][m])
    BY <2>3
  <2>5. \A p \in Router : \A n \in Neighbours(p) :
          p # r \/ n # m => buffer'[p][n] = buffer[p][n]
    BY <2>3
  <2> QED
    BY <1>1, <2>2, <2>4, <2>5
<1>2. CASE Interfere
  BY <1>2 DEF Interfere
<1> QED
  BY <1>1, <1>2 DEF Pop

LEMMA PushLength ==
  ASSUME BuffersOK, NEW r \in Router, NEW m \in Peers(r), NEW packet, Push(r, m, packet)
  PROVE  \/ /\ races' = races
            /\ Len(buffer'[m][r]) = Len(buffer[m][r]) + 1
            /\ \A p \in Router : \A n \in Neighbours(p) :
                 p # m \/ n # r => buffer'[p][n] = buffer[p][n]
         \/ races' = races + 1 /\ races < MaxRaces /\ buffer' = buffer
<1>1. m \in Router /\ r \in Neighbours(m)
  BY NeighboursAreNodes DEF Peers
<1>2. CASE buffer' = [buffer EXCEPT ![m][r] = Append(buffer[m][r], packet)] /\ races' = races
  <2>1. buffer[m][r] \in Seq(Range(buffer[m][r]) \cup {packet})
    BY <1>1 DEF BuffersOK, IsBuffer
  <2>2. Len(Append(buffer[m][r], packet)) = Len(buffer[m][r]) + 1
    BY <2>1
  <2>3. \A p \in Router : \A n \in Neighbours(p) :
          buffer'[p][n] = IF p = m /\ n = r THEN Append(buffer[m][r], packet) ELSE buffer[p][n]
    BY <1>1, <1>2 DEF BuffersOK
  <2>4. buffer'[m][r] = Append(buffer[m][r], packet)
    BY <1>1, <2>3
  <2>5. \A p \in Router : \A n \in Neighbours(p) :
          p # m \/ n # r => buffer'[p][n] = buffer[p][n]
    BY <2>3
  <2> QED
    BY <1>2, <2>2, <2>4, <2>5
<1>3. CASE Interfere
  BY <1>3 DEF Interfere
<1> QED
  BY <1>2, <1>3 DEF Push

(* Steps that leave buffers alone. *)
LEMMA BacklogQueues ==
  ASSUME Natural, Natural', Backlog, UNCHANGED shared, NEW d \in {0, 1},
         \A r \in Router : /\ Count(calls'[r], Update) <= MaxQueue[r]
                           /\ StartsLeft(r)' <= 1
                           /\ \A m \in Neighbours(r) :
                                /\ Takes(r, m) + d <= Takes(r, m)'
                                /\ Sends(r, m)' <= Sends(r, m) + d
  PROVE  Backlog'
<1>1. \A b, s, t, s1, t1, k \in Nat :
        b + s <= t + k /\ s1 <= s + d /\ t + d <= t1 => b + s1 <= t1 + k
  OBVIOUS
<1>2. ASSUME NEW r \in Router, NEW m \in Peers(r) PROVE InReach(r, m)'
  <2>1. m \in Router /\ m \in Neighbours(r) /\ r \in Neighbours(m)
    BY NeighboursAreNodes DEF Peers
  <2>2. /\ Len(buffer[r][m]) \in Nat /\ Slack(m) \in Nat
        /\ Takes(r, m) \in Nat /\ Sends(m, r) \in Nat
    BY <2>1 DEF Natural
  <2>3. buffer' = buffer /\ Slack(m)' = Slack(m)
    BY DEF shared, Slack
  <2>4. Len(buffer[r][m]) + Sends(m, r) <= Takes(r, m) + Slack(m)
    BY DEF Backlog, InReach
  <2>5. Takes(r, m)' \in Nat /\ Sends(m, r)' \in Nat
    BY <2>1 DEF Natural
  <2>6. Takes(r, m) + d <= Takes(r, m)' /\ Sends(m, r)' <= Sends(m, r) + d
    BY <2>1
  <2>7. Len(buffer[r][m]) + Sends(m, r)' <= Takes(r, m)' + Slack(m)
    BY <1>1, <2>2, <2>4, <2>5, <2>6
  <2> QED
    BY <2>3, <2>7 DEF InReach
<1> QED
  BY <1>2 DEF Backlog, shared

LEMMA PostedBacklog ==
  ASSUME TypeOK, Natural, Natural', Backlog, PostUpdate \/ PostStart \/ PostTurnOff
  PROVE  Backlog'
<1>1. UNCHANGED <<shared, stage, port>>
  BY DEF PostUpdate, PostStart, PostTurnOff
<1>2. \A r, m : ToTake(r, m)' = ToTake(r, m) /\ ToSend(r, m)' = ToSend(r, m)
  BY <1>1 DEF ToTake, ToSend, Ahead
<1>3. Update # Start /\ Update # Off /\ Start # Off /\ ControlOK
  BY DEF Update, Start, Off, TypeOK
<1>4. CASE PostUpdate
  <2>1. PostToAll(Update) /\ started' = started
    BY <1>4 DEF PostUpdate, main
  <2>2. \A r \in Router : /\ Count(calls'[r], Update) = Count(calls[r], Update) + 1
                          /\ Count(calls'[r], Start) = Count(calls[r], Start) + 0
    BY <1>3, <2>1, PostedCount DEF One
  <2>3. \A r \in Router : Count(calls[r], Update) < MaxQueue[r]
    BY <1>4 DEF PostUpdate, Updates, Count
  <2>4. \A r \in Router : Count(calls'[r], Update) <= MaxQueue[r]
    BY <2>2, <2>3 DEF Natural
  <2>5. \A r \in Router : StartsLeft(r)' = StartsLeft(r)
    BY <2>1, <2>2 DEF StartsLeft, Natural
  <2>6. ASSUME NEW r \in Router, NEW m \in Neighbours(r)
        PROVE  /\ Takes(r, m) + 1 <= Takes(r, m)'
               /\ Sends(r, m)' <= Sends(r, m) + 1
    <3>1. Takes(r, m)' = Takes(r, m) + 1
      BY <1>2, <2>2 DEF Takes, Natural
    <3>2. Sends(r, m)' = Sends(r, m) + 1
      BY <1>2, <2>2, <2>5 DEF Sends, Natural
    <3> QED
      BY <3>1, <3>2 DEF Natural
  <2> QED
    BY <1>1, <2>4, <2>5, <2>6, BacklogQueues DEF Backlog
<1>5. CASE PostStart \/ PostTurnOff
  <2>1. \A r \in Router : Count(calls'[r], Update) = Count(calls[r], Update)
    <3>1. PICK call \in {Start, Off} : PostToAll(call)
      BY <1>5 DEF PostStart, PostTurnOff
    <3>2. \A r \in Router : Count(calls'[r], Update) = Count(calls[r], Update) + 0
      BY <1>3, <3>1, PostedCount DEF One
    <3> QED
      BY <3>2 DEF Natural
  <2>2. \A r \in Router : StartsLeft(r)' = StartsLeft(r)
    <3>1. CASE PostStart
      <4>1. PostToAll(Start) /\ ~started /\ started'
        BY <3>1 DEF PostStart
      <4>2. \A r \in Router : Count(calls'[r], Start) = Count(calls[r], Start) + 1
        BY <1>3, <4>1, PostedCount DEF One
      <4> QED
        BY <4>1, <4>2 DEF StartsLeft, One, Natural
    <3>2. CASE PostTurnOff
      <4>1. PostToAll(Off) /\ started' = started
        BY <3>2 DEF PostTurnOff
      <4>2. \A r \in Router : Count(calls'[r], Start) = Count(calls[r], Start) + 0
        BY <1>3, <4>1, PostedCount DEF One
      <4> QED
        BY <4>1, <4>2 DEF StartsLeft, Natural
    <3> QED
      BY <1>5, <3>1, <3>2
  <2>3. \A r \in Router : \A m \in Neighbours(r) :
          Takes(r, m)' = Takes(r, m) /\ Sends(r, m)' = Sends(r, m)
    BY <1>2, <2>1, <2>2 DEF Takes, Sends
  <2>4. \A r \in Router : \A m \in Neighbours(r) :
          Takes(r, m) + 0 <= Takes(r, m)' /\ Sends(r, m)' <= Sends(r, m) + 0
    BY <2>3 DEF Natural
  <2> QED
    BY <1>1, <2>1, <2>2, <2>4, BacklogQueues DEF Backlog
<1> QED
  BY <1>4, <1>5

LEMMA CalledBacklog ==
  ASSUME TypeOK, Natural, Natural', Backlog, NEW q \in Router,
         \/ BeginUpdateRIP(q) \/ BeginUpdateForwarding(q)
         \/ StartRIP(q) \/ TurnOffProtocols(q)
  PROVE  Backlog'
<1>1. ControlOK /\ UNCHANGED <<shared, started>> /\ stage[q] = "idle"
  BY DEF TypeOK, BeginUpdateRIP, BeginUpdateForwarding, StartRIP, TurnOffProtocols, Called, main
<1>2. Update # Start /\ Update # Off /\ Start # Off
  BY DEF Update, Start, Off
<1>3. PICK call : Called(q, call)
  BY DEF BeginUpdateRIP, BeginUpdateForwarding, StartRIP, TurnOffProtocols
<1>4. \A r \in Router :
        /\ Count(calls'[r], Update) + 1 = Count(calls[r], Update)
           \/ Count(calls'[r], Update) = Count(calls[r], Update)
        /\ Count(calls'[r], Start) + 1 = Count(calls[r], Start)
           \/ Count(calls'[r], Start) = Count(calls[r], Start)
  BY <1>1, <1>3, TakenCount
<1>5. \A r \in Router : /\ Count(calls'[r], Update) \in Nat
                        /\ Count(calls'[r], Start) \in Nat
  BY DEF Natural
<1>6. ASSUME NEW r \in Router
      PROVE  Count(calls'[r], Update) <= MaxQueue[r] /\ StartsLeft(r)' <= 1
  <2>1. Count(calls'[r], Update) <= Count(calls[r], Update)
    BY <1>4, <1>5
  <2>2. Count(calls'[r], Start) <= Count(calls[r], Start)
    BY <1>4, <1>5
  <2>3. Count(calls'[r], Update) <= MaxQueue[r]
    BY <1>5, <2>1 DEF Backlog, Natural
  <2>4. StartsLeft(r)' <= StartsLeft(r)
    <3>1. PICK o \in 0..1 : o = One(~started) /\ o = One(~started')
      BY <1>1 DEF One
    <3>2. /\ StartsLeft(r)' = Count(calls'[r], Start) + o
          /\ StartsLeft(r) = Count(calls[r], Start) + o
      BY <3>1 DEF StartsLeft
    <3> QED
      BY <1>5, <2>2, <3>2 DEF Natural
  <2>5. StartsLeft(r) \in Nat /\ StartsLeft(r)' \in Nat
    BY DEF Natural
  <2>6. StartsLeft(r) <= 1
    BY DEF Backlog
  <2> QED
    BY <2>3, <2>4, <2>5, <2>6
<1>7. ASSUME NEW p \in Router, p # q, NEW n \in Neighbours(p)
      PROVE  Takes(p, n)' = Takes(p, n) /\ Sends(p, n)' = Sends(p, n)
  <2>1. stage'[p] = stage[p] /\ port'[p] = port[p] /\ calls'[p] = calls[p]
    BY <1>1, <1>3, <1>7 DEF BeginUpdateRIP, BeginUpdateForwarding, StartRIP, TurnOffProtocols,
       EnterLoop, Called, ControlOK
  <2> QED
    BY <1>1, <2>1 DEF Takes, Sends, StartsLeft, ToTake, ToSend, Ahead
<1>8. ASSUME NEW n \in Neighbours(q)
      PROVE  Takes(q, n)' = Takes(q, n) /\ Sends(q, n)' <= Sends(q, n)
  <2>1. ToTake(q, n) = 0 /\ ToSend(q, n) = 0
    BY <1>1 DEF ToTake, ToSend, One
  <2>2. /\ Takes(q, n) = Count(calls[q], Update) + 0
        /\ Sends(q, n) = Count(calls[q], Update) + StartsLeft(q) + 0
    BY <2>1 DEF Takes, Sends
  <2>3. CASE BeginUpdateRIP(q) \/ BeginUpdateForwarding(q)
    <3>1. Called(q, Update)
      BY <2>3 DEF BeginUpdateRIP, BeginUpdateForwarding
    <3>2. /\ Count(calls'[q], Update) + 1 = Count(calls[q], Update)
          /\ Count(calls'[q], Start) = Count(calls[q], Start)
      BY <1>1, <1>2, <3>1, TakenCount
    <3>3. StartsLeft(q)' = StartsLeft(q)
      BY <1>1, <1>5, <3>2 DEF StartsLeft
    <3>4. ToTake(q, n)' = 1 /\ ToSend(q, n)' <= 1 /\ ToSend(q, n)' \in 0..1
      <4>1. EnterLoop(q, "receive") \/ EnterLoop(q, "forward")
        BY <2>3 DEF BeginUpdateRIP, BeginUpdateForwarding
      <4> QED
        BY <1>1, <4>1, EnterAhead DEF ToTake, ToSend, One
    <3>5. Takes(q, n)' = Takes(q, n)
      BY <1>5, <2>2, <3>2, <3>4 DEF Takes, Natural
    <3>6. Sends(q, n)' = Count(calls'[q], Update) + StartsLeft(q) + ToSend(q, n)'
      BY <3>3 DEF Sends
    <3>7. Sends(q, n)' <= Sends(q, n)
      BY <1>5, <2>2, <3>2, <3>4, <3>6 DEF Natural
    <3> QED
      BY <3>5, <3>7
  <2>4. CASE StartRIP(q)
    <3>1. Called(q, Start)
      BY <2>4 DEF StartRIP
    <3>2. /\ Count(calls'[q], Update) = Count(calls[q], Update)
          /\ Count(calls'[q], Start) + 1 = Count(calls[q], Start)
      BY <1>1, <1>2, <3>1, TakenCount
    <3>3. StartsLeft(q)' + 1 = StartsLeft(q)
      BY <1>1, <1>5, <3>2 DEF StartsLeft, One
    <3>4. ToTake(q, n)' = 0 /\ ToSend(q, n)' = 1
      <4>1. EnterLoop(q, "send")
        BY <2>4 DEF StartRIP
      <4> QED
        BY <1>1, <4>1, EnterAhead DEF ToTake, ToSend, One
    <3>5. Takes(q, n)' = Takes(q, n)
      BY <1>5, <2>2, <3>2, <3>4 DEF Takes
    <3>6. Sends(q, n)' = Count(calls'[q], Update) + StartsLeft(q)' + 1
      BY <3>4 DEF Sends
    <3>7. Sends(q, n)' <= Sends(q, n)
      BY <1>5, <2>2, <3>2, <3>3, <3>6 DEF Natural
    <3> QED
      BY <3>5, <3>7
  <2>5. CASE TurnOffProtocols(q)
    <3>1. Called(q, Off) /\ stage' = stage /\ port' = port
      BY <2>5 DEF TurnOffProtocols
    <3>2. /\ Count(calls'[q], Update) = Count(calls[q], Update)
          /\ Count(calls'[q], Start) = Count(calls[q], Start)
      BY <1>1, <1>2, <3>1, TakenCount
    <3>4. ToTake(q, n)' = ToTake(q, n) /\ ToSend(q, n)' = ToSend(q, n)
      BY <3>1 DEF ToTake, ToSend, Ahead
    <3>5. Takes(q, n)' = Takes(q, n) /\ Sends(q, n)' = Sends(q, n)
      BY <1>1, <3>2, <3>4 DEF Takes, Sends, StartsLeft
    <3> QED
      BY <3>5 DEF Natural
  <2> QED
    BY <2>3, <2>4, <2>5
<1>9. ASSUME NEW p \in Router, NEW n \in Neighbours(p)
      PROVE  Takes(p, n) + 0 <= Takes(p, n)' /\ Sends(p, n)' <= Sends(p, n) + 0
  <2>1. Takes(p, n)' = Takes(p, n) /\ (Sends(p, n)' = Sends(p, n) \/ Sends(p, n)' <= Sends(p, n))
    BY <1>7, <1>8
  <2>2. Takes(p, n) \in Nat /\ Sends(p, n) \in Nat /\ Sends(p, n)' \in Nat
    BY DEF Natural
  <2> QED
    BY <2>1, <2>2
<1> QED
  BY <1>1, <1>6, <1>9, BacklogQueues

(* updateRIP goes on to send, or has nothing more to send. *)
LEMMA ConcludeBacklog ==
  ASSUME TypeOK, Natural, Natural', Backlog, NEW q \in Router, Conclude(q)
  PROVE  Backlog'
<1>1. /\ ControlOK /\ UNCHANGED <<shared, calls, started>> /\ stage[q] = "conclude"
      /\ EnterLoop(q, "idle") \/ EnterLoop(q, "send")
  BY DEF TypeOK, Conclude, Quiet, Leave
<1>2. ASSUME NEW p \in Router, p # q, NEW n \in Neighbours(p)
      PROVE  ToTake(p, n)' = ToTake(p, n) /\ ToSend(p, n)' = ToSend(p, n)
  BY <1>1, <1>2, Elsewhere
<1>3. ASSUME NEW n \in Neighbours(q)
      PROVE  ToTake(q, n)' = ToTake(q, n) /\ ToSend(q, n)' <= ToSend(q, n)
  BY <1>1, EnterAhead DEF ToTake, ToSend, One
<1>4. ASSUME NEW p \in Router, NEW n \in Neighbours(p)
      PROVE  ToTake(p, n)' = ToTake(p, n) /\ ToSend(p, n)' <= ToSend(p, n)
  <2>1. ToSend(p, n) \in 0..1
    BY DEF Natural
  <2> QED
    BY <1>2, <1>3, <2>1
<1>5. ASSUME NEW p \in Router, NEW n \in Neighbours(p)
      PROVE  Takes(p, n) + 0 <= Takes(p, n)' /\ Sends(p, n)' <= Sends(p, n) + 0
  <2>1. Takes(p, n)' = Takes(p, n)
    BY <1>1, <1>4 DEF Takes
  <2>2. Sends(p, n)' = Count(calls[p], Update) + StartsLeft(p) + ToSend(p, n)'
    BY <1>1 DEF Sends, StartsLeft
  <2>3. Sends(p, n) = Count(calls[p], Update) + StartsLeft(p) + ToSend(p, n)
    BY DEF Sends
  <2>4. ToSend(p, n)' <= ToSend(p, n) /\ ToSend(p, n) \in 0..1 /\ ToSend(p, n)' \in 0..1
    BY <1>4 DEF Natural
  <2>5. Takes(p, n) \in Nat /\ Count(calls[p], Update) \in Nat /\ StartsLeft(p) \in Nat
    BY DEF Natural
  <2>6. PICK b \in Nat : b = Count(calls[p], Update) + StartsLeft(p)
    BY <2>5
  <2>7. Sends(p, n)' <= Sends(p, n)
    BY <2>2, <2>3, <2>4, <2>6
  <2>8. Sends(p, n) \in Nat /\ Sends(p, n)' \in Nat
    BY DEF Natural
  <2> QED
    BY <2>1, <2>5, <2>7, <2>8
<1>6. \A r \in Router : /\ Count(calls'[r], Update) <= MaxQueue[r]
                        /\ StartsLeft(r)' <= 1
  BY <1>1 DEF Backlog, StartsLeft
<1> QED
  BY <1>1, <1>5, <1>6, BacklogQueues

(* A turn of updateRIP's or updateForwarding's loop. *)
LEMMA TakeBacklog ==
  ASSUME TypeOK, Natural, Natural', Backlog, NEW q \in Router, Receive(q) \/ Drop(q)
  PROVE  Backlog'
<1>1. PICK o : o = Ports[q][port[q]]
  OBVIOUS
<1>2. /\ BuffersOK /\ ControlOK /\ UNCHANGED <<calls, started>>
      /\ \/ stage[q] = "receive" /\ NextPort(q, "conclude")
         \/ stage[q] = "forward" /\ NextPort(q, "idle")
  BY DEF TypeOK, Receive, Drop, main
<1>3. IF buffer[q][o] = <<>> THEN UNCHANGED shared ELSE Pop(q, o)
  BY <1>1 DEF Receive, Drop, shared
<1>4. o \in Neighbours(q)
  BY <1>1, <1>2 DEF ControlOK, Neighbours, Range
<1>5. ASSUME NEW p \in Router, NEW n \in Neighbours(p)
      PROVE  /\ p = q /\ n = o => Takes(p, n)' + 1 = Takes(p, n)
             /\ p # q \/ n # o => Takes(p, n)' = Takes(p, n)
             /\ Sends(p, n)' = Sends(p, n)
  <2>1. CASE p # q
    BY <1>2, <2>1, Elsewhere DEF Takes, Sends, StartsLeft
  <2>2. CASE p = q
    <3>1. /\ ToTake(q, n)' + One(n = o) = ToTake(q, n)
          /\ ToSend(q, n)' = ToSend(q, n)
      BY <1>1, <1>2, <2>2, TakeTurn
    <3>2. ToTake(q, n)' \in 0..1 /\ ToTake(q, n) \in 0..1 /\ Count(calls[q], Update) \in Nat
      BY <2>2 DEF Natural
    <3>3. /\ n = o => ToTake(q, n)' + 1 = ToTake(q, n)
          /\ n # o => ToTake(q, n)' = ToTake(q, n)
      BY <3>1, <3>2 DEF One
    <3>4. Takes(q, n)' = Count(calls[q], Update) + ToTake(q, n)'
      BY <1>2 DEF Takes
    <3>5. Takes(q, n) = Count(calls[q], Update) + ToTake(q, n)
      BY DEF Takes
    <3>6. Sends(q, n)' = Sends(q, n)
      BY <1>2, <3>1 DEF Sends, StartsLeft
    <3>7. /\ n = o => Takes(q, n)' + 1 = Takes(q, n)
          /\ n # o => Takes(q, n)' = Takes(q, n)
      BY <3>2, <3>3, <3>4, <3>5
    <3> QED
      BY <2>2, <3>6, <3>7
  <2> QED
    BY <2>1, <2>2
<1>6. \A r \in Router : Count(calls'[r], Update) <= MaxQueue[r] /\ StartsLeft(r)' <= 1
  BY <1>2 DEF Backlog, StartsLeft
<1>7. \/ races' = races /\ (\A r \in Router : Slack(r)' = Slack(r))
      \/ /\ races' = races + 1 /\ races < MaxRaces /\ buffer' = buffer
         /\ \A r \in Router : Slack(r)' = Slack(r) + 1
  <2>1. races' = races \/ (races' = races + 1 /\ races < MaxRaces /\ buffer' = buffer)
    BY <1>2, <1>3, <1>4, PopLength DEF shared
  <2>2. races \in Nat /\ \A r \in Router : MaxQueue[r] \in Nat
    BY DEF Natural
  <2> QED
    BY <2>1, <2>2 DEF Slack
<1>8. races' <= MaxRaces
  BY <1>7 DEF Backlog, Natural
<1>9. ASSUME NEW r \in Router, NEW m \in Peers(r) PROVE InReach(r, m)'
  <2>1. m \in Router /\ m \in Neighbours(r) /\ r \in Neighbours(m)
    BY NeighboursAreNodes DEF Peers
  <2>2. Len(buffer[r][m]) + Sends(m, r) <= Takes(r, m) + Slack(m)
    BY DEF Backlog, InReach
  <2>3. /\ Len(buffer[r][m]) \in Nat /\ Slack(m) \in Nat
        /\ Takes(r, m) \in Nat /\ Takes(r, m)' \in Nat /\ Sends(m, r) \in Nat
    BY <2>1 DEF Natural
  <2>4. Sends(m, r)' = Sends(m, r)
    BY <1>5, <2>1
  <2>5. CASE r # q \/ m # o
    <3>1. Takes(r, m)' = Takes(r, m)
      BY <1>5, <2>1, <2>5
    <3>2. buffer'[r][m] = buffer[r][m]
      BY <1>2, <1>3, <1>4, <2>1, <2>5, PopLength DEF shared
    <3>3. Slack(m)' = Slack(m) \/ Slack(m)' = Slack(m) + 1
      BY <1>7, <2>1
    <3>4. Len(buffer[r][m]) + Sends(m, r) <= Takes(r, m) + Slack(m)'
      BY <2>2, <2>3, <3>3
    <3> QED
      BY <2>4, <3>1, <3>2, <3>4 DEF InReach
  <2>6. CASE r = q /\ m = o
    <3>1. Takes(r, m)' + 1 = Takes(r, m)
      BY <1>5, <2>1, <2>6
    <3>2. CASE buffer[q][o] = <<>>
      <4>1. buffer'[r][m] = <<>> /\ Slack(m)' = Slack(m)
        BY <1>3, <2>6, <3>2 DEF shared, Slack
      <4>2. /\ Sends(m, r) = Count(calls[m], Update) + StartsLeft(m) + ToSend(m, r)
            /\ Count(calls[m], Update) <= MaxQueue[m] /\ StartsLeft(m) <= 1
        BY <2>1 DEF Sends, Backlog
      <4>3. /\ Count(calls[m], Update) \in Nat /\ StartsLeft(m) \in Nat
            /\ ToSend(m, r) \in 0..1 /\ MaxQueue[m] \in Nat /\ races \in Nat
        BY <2>1 DEF Natural
      <4>4. Sends(m, r) <= MaxQueue[m] + 2
        BY <4>2, <4>3
      <4>5. Sends(m, r) <= Slack(m)
        BY <2>3, <4>3, <4>4 DEF Slack
      <4>6. 0 + Sends(m, r) <= Takes(r, m)' + Slack(m)
        BY <2>3, <4>5
      <4>7. Len(buffer'[r][m]) = 0
        BY <4>1
      <4> QED
        BY <2>4, <4>1, <4>6, <4>7 DEF InReach
    <3>3. CASE buffer[q][o] # <<>>
      <4>1. \/ /\ races' = races /\ Len(buffer'[r][m]) \in Nat
               /\ Len(buffer'[r][m]) + 1 = Len(buffer[r][m])
            \/ races' = races + 1 /\ buffer'[r][m] = buffer[r][m]
        BY <1>2, <1>3, <1>4, <2>6, <3>3, PopLength
      <4>2. CASE /\ races' = races /\ Len(buffer'[r][m]) \in Nat
                 /\ Len(buffer'[r][m]) + 1 = Len(buffer[r][m])
        <5>1. Slack(m)' = Slack(m)
          BY <4>2 DEF Slack
        <5>2. \A s, k, b1, t1 \in Nat : (b1 + 1) + s <= (t1 + 1) + k => b1 + s <= t1 + k
          OBVIOUS
        <5>3. (Len(buffer'[r][m]) + 1) + Sends(m, r) <= (Takes(r, m)' + 1) + Slack(m)
          BY <2>2, <3>1, <4>2
        <5>4. Len(buffer'[r][m]) + Sends(m, r) <= Takes(r, m)' + Slack(m)
          BY <2>3, <4>2, <5>2, <5>3
        <5> QED
          BY <2>4, <5>1, <5>4 DEF InReach
      <4>3. CASE races' = races + 1 /\ buffer'[r][m] = buffer[r][m]
        <5>1. Slack(m)' = Slack(m) + 1
          <6>1. races \in Nat
            BY DEF Natural
          <6> QED
            BY <1>7, <2>1, <4>3, <6>1
        <5>2. Len(buffer[r][m]) + Sends(m, r) <= Takes(r, m)' + (Slack(m) + 1)
          BY <2>2, <2>3, <3>1
        <5> QED
          BY <2>4, <4>3, <5>1, <5>2 DEF InReach
      <4> QED
        BY <4>1, <4>2, <4>3
    <3> QED
      BY <3>2, <3>3
  <2> QED
    BY <2>5, <2>6
<1> QED
  BY <1>6, <1>8, <1>9 DEF Backlog

(* A turn of sendRip's loop. *)
LEMMA SendBacklog ==
  ASSUME TypeOK, Natural, Natural', Backlog, NEW q \in Router, Send(q)
  PROVE  Backlog'
<1>1. PICK o : o = Ports[q][port[q]]
  OBVIOUS
<1>2. /\ BuffersOK /\ ControlOK /\ UNCHANGED <<calls, started>>
      /\ stage[q] = "send" /\ NextPort(q, "idle")
  BY DEF TypeOK, Send, main
<1>3. IF o \in Router THEN Push(q, o, table[q]) ELSE UNCHANGED shared
  BY <1>1 DEF Send
<1>4. o \in Neighbours(q) /\ (o \in Router => o \in Peers(q))
  BY <1>1, <1>2 DEF ControlOK, Neighbours, Range, Peers
<1>5. ASSUME NEW p \in Router, NEW n \in Neighbours(p)
      PROVE  /\ p = q /\ n = o => Sends(p, n)' + 1 = Sends(p, n)
             /\ p # q \/ n # o => Sends(p, n)' = Sends(p, n)
             /\ Takes(p, n)' = Takes(p, n)
  <2>1. CASE p # q
    BY <1>2, <2>1, Elsewhere DEF Takes, Sends, StartsLeft
  <2>2. CASE p = q
    <3>1. /\ ToTake(q, n)' = ToTake(q, n)
          /\ ToSend(q, n)' + One(n = o) = ToSend(q, n)
      BY <1>1, <1>2, <2>2, SendTurn
    <3>2. /\ ToSend(q, n)' \in 0..1 /\ ToSend(q, n) \in 0..1
          /\ Count(calls[q], Update) \in Nat /\ StartsLeft(q) \in Nat
      BY <2>2 DEF Natural
    <3>3. /\ n = o => ToSend(q, n)' + 1 = ToSend(q, n)
          /\ n # o => ToSend(q, n)' = ToSend(q, n)
      BY <3>1, <3>2 DEF One
    <3>4. Sends(q, n)' = Count(calls[q], Update) + StartsLeft(q) + ToSend(q, n)'
      BY <1>2 DEF Sends, StartsLeft
    <3>5. Sends(q, n) = Count(calls[q], Update) + StartsLeft(q) + ToSend(q, n)
      BY DEF Sends
    <3>6. Takes(q, n)' = Takes(q, n)
      BY <1>2, <3>1 DEF Takes
    <3>7. /\ n = o => Sends(q, n)' + 1 = Sends(q, n)
          /\ n # o => Sends(q, n)' = Sends(q, n)
      BY <3>2, <3>3, <3>4, <3>5
    <3> QED
      BY <2>2, <3>6, <3>7
  <2> QED
    BY <2>1, <2>2
<1>6. \A r \in Router : Count(calls'[r], Update) <= MaxQueue[r] /\ StartsLeft(r)' <= 1
  BY <1>2 DEF Backlog, StartsLeft
<1>7. \/ races' = races /\ (\A r \in Router : Slack(r)' = Slack(r))
      \/ /\ races' = races + 1 /\ races < MaxRaces /\ buffer' = buffer
         /\ \A r \in Router : Slack(r)' = Slack(r) + 1
  <2>1. races' = races \/ (races' = races + 1 /\ races < MaxRaces /\ buffer' = buffer)
    BY <1>2, <1>3, <1>4, PushLength DEF shared
  <2>2. races \in Nat /\ \A r \in Router : MaxQueue[r] \in Nat
    BY DEF Natural
  <2> QED
    BY <2>1, <2>2 DEF Slack
<1>8. races' <= MaxRaces
  BY <1>7 DEF Backlog, Natural
<1>9. ASSUME NEW r \in Router, NEW m \in Peers(r) PROVE InReach(r, m)'
  <2>1. m \in Router /\ m \in Neighbours(r) /\ r \in Neighbours(m)
    BY NeighboursAreNodes DEF Peers
  <2>2. Len(buffer[r][m]) + Sends(m, r) <= Takes(r, m) + Slack(m)
    BY DEF Backlog, InReach
  <2>3. /\ Len(buffer[r][m]) \in Nat /\ Slack(m) \in Nat /\ Takes(r, m) \in Nat
        /\ Sends(m, r) \in Nat /\ Sends(m, r)' \in Nat
    BY <2>1 DEF Natural
  <2>4. Takes(r, m)' = Takes(r, m)
    BY <1>5, <2>1
  <2>5. CASE m # q \/ r # o
    <3>1. Sends(m, r)' = Sends(m, r)
      BY <1>5, <2>1, <2>5
    <3>2. buffer'[r][m] = buffer[r][m]
      BY <1>2, <1>3, <1>4, <2>1, <2>5, PushLength DEF shared
    <3>3. Slack(m)' = Slack(m) \/ Slack(m)' = Slack(m) + 1
      BY <1>7, <2>1
    <3>4. Len(buffer[r][m]) + Sends(m, r) <= Takes(r, m) + Slack(m)'
      BY <2>2, <2>3, <3>3
    <3> QED
      BY <2>4, <3>1, <3>2, <3>4 DEF InReach
  <2>6. CASE m = q /\ r = o
    <3>1. Sends(m, r)' + 1 = Sends(m, r)
      BY <1>5, <2>1, <2>6
    <3>2. \/ races' = races /\ Len(buffer'[r][m]) = Len(buffer[r][m]) + 1
          \/ races' = races + 1 /\ buffer'[r][m] = buffer[r][m]
      BY <1>2, <1>3, <1>4, <2>6, PushLength
    <3>3. CASE races' = races /\ Len(buffer'[r][m]) = Len(buffer[r][m]) + 1
      <4>1. Slack(m)' = Slack(m)
        BY <3>3 DEF Slack
      <4>2. \A b, s : b \in Nat /\ s \in Nat => (b + 1) + s = b + (s + 1)
        OBVIOUS
      <4>3. (Len(buffer[r][m]) + 1) + Sends(m, r)' = Len(buffer[r][m]) + Sends(m, r)
        BY <2>3, <3>1, <4>2
      <4> QED
        BY <2>2, <2>4, <3>3, <4>1, <4>3 DEF InReach
    <3>4. CASE races' = races + 1 /\ buffer'[r][m] = buffer[r][m]
      <4>1. Slack(m)' = Slack(m) + 1
        <5>1. races \in Nat
          BY DEF Natural
        <5> QED
          BY <1>7, <2>1, <3>4, <5>1
      <4>2. Len(buffer[r][m]) + Sends(m, r)' <= Takes(r, m) + (Slack(m) + 1)
        BY <2>2, <2>3, <3>1
      <4> QED
        BY <2>4, <3>4, <4>1, <4>2 DEF InReach
    <3> QED
      BY <3>2, <3>3, <3>4
  <2> QED
    BY <2>5, <2>6
<1> QED
  BY <1>6, <1>8, <1>9 DEF Backlog

LEMMA BacklogInit == Init => Backlog
<1> SUFFICES ASSUME Init PROVE Backlog
  OBVIOUS
<1>1. Natural
  BY InitInv, Numbers DEF Inv
<1>2. \A r \in Router : calls[r] = <<>> /\ ~started /\ stage[r] = "idle" /\ races = 0
  BY DEF Init
<1>3. Cardinality({}) = 0
  BY FS_EmptySet
<1>4. \A c : Count(<<>>, c) = 0
  BY <1>3 DEF Count
<1>5. ASSUME NEW r \in Router
      PROVE  /\ Count(calls[r], Update) = 0 /\ StartsLeft(r) = 1
             /\ \A n : ToTake(r, n) = 0 /\ ToSend(r, n) = 0
  BY <1>2, <1>4 DEF StartsLeft, ToTake, ToSend, One
<1>6. ASSUME NEW r \in Router, NEW m \in Peers(r) PROVE InReach(r, m)
  <2>1. m \in Router /\ m \in Neighbours(r)
    BY NeighboursAreNodes DEF Peers
  <2>2. Len(buffer[r][m]) = 0
    BY <2>1 DEF Init
  <2>3. Sends(m, r) = 1 /\ Takes(r, m) = 0
    BY <1>5, <2>1 DEF Sends, Takes
  <2>4. Slack(m) >= 2
    BY <1>1, <2>1 DEF Natural, Slack
  <2> QED
    BY <1>1, <2>1, <2>2, <2>3, <2>4 DEF InReach, Natural
<1> QED
  BY <1>1, <1>2, <1>5, <1>6 DEF Backlog, Natural, Init

LEMMA BacklogNext == Inv /\ Backlog /\ [Next]_vars => Backlog'
<1> SUFFICES ASSUME Inv, Backlog, [Next]_vars PROVE Backlog'
  OBVIOUS
<1>1. TypeOK /\ Natural /\ Natural'
  BY NextInv, Numbers, NumbersNext DEF Inv
<1>2. CASE UNCHANGED vars
  BY <1>2 DEF vars, tables, shared, main, Backlog, InReach, Sends, Takes, StartsLeft, Slack,
              ToSend, ToTake, Ahead
<1>3. CASE PostUpdate \/ PostStart \/ PostTurnOff
  BY <1>1, <1>3, PostedBacklog
<1>4. ASSUME NEW q \in Router, Thread(q) PROVE Backlog'
  BY <1>1, <1>4, CalledBacklog, ConcludeBacklog, TakeBacklog, SendBacklog DEF Thread
<1> QED
  BY <1>2, <1>3, <1>4 DEF Next

(* A port's backlog never exceeds what the lag of the two threads, the     *)
(* first vector and the races explain, for every topology and every bound. *)
THEOREM BacklogStaysBounded == Spec => []BacklogBounded
<1>1. Inv /\ Backlog => BacklogBounded
  <2> SUFFICES ASSUME Inv, Backlog, NEW r \in Router, NEW m \in Peers(r)
               PROVE  Len(buffer[r][m]) <= MaxQueue[r] + MaxQueue[m] + 3 + MaxRaces
    BY DEF BacklogBounded
  <2>1. Natural /\ m \in Router /\ m \in Neighbours(r) /\ r \in Neighbours(m)
    BY Numbers, NeighboursAreNodes DEF Inv, Peers
  <2>2. /\ Len(buffer[r][m]) \in Nat /\ Sends(m, r) \in Nat
        /\ Takes(r, m) \in Nat /\ Slack(m) \in Nat
        /\ Count(calls[r], Update) \in Nat /\ ToTake(r, m) \in 0..1
        /\ MaxQueue[r] \in Nat /\ MaxQueue[m] \in Nat /\ races \in Nat /\ MaxRaces \in Nat
    BY <2>1 DEF Natural
  <2>3. Len(buffer[r][m]) + Sends(m, r) <= Takes(r, m) + Slack(m)
    BY DEF Backlog, InReach
  <2>4. Len(buffer[r][m]) <= Takes(r, m) + Slack(m)
    BY <2>2, <2>3
  <2>5. Takes(r, m) <= MaxQueue[r] + 1
    BY <2>2 DEF Takes, Backlog
  <2>6. Slack(m) <= MaxQueue[m] + 2 + MaxRaces
    BY <2>2 DEF Slack, Backlog
  <2>7. \A x, t, k, a, b, c \in Nat :
          x <= t + k /\ t <= a + 1 /\ k <= b + 2 + c => x <= a + b + 3 + c
    OBVIOUS
  <2> QED
    BY <2>2, <2>4, <2>5, <2>6, <2>7
<1> QED
  BY <1>1, BacklogInit, BacklogNext, Invariance, PTL DEF Spec
=============================================================================
