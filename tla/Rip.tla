-------------------------------- MODULE Rip ---------------------------------
(***************************************************************************)
(* RIP in one autonomous system (src/A3/router.cpp, driven by main.cpp).   *)
(* Every router runs in a thread of its own that takes queued slot calls   *)
(* one at a time; a slot call is several steps here, one per port access,  *)
(* because a port's buffer is a QVector that its owner pops and the router *)
(* at the far end pushes with no lock between them.  A step that overlaps  *)
(* such an access may lose the push or repeat the popped packet (at most   *)
(* MaxRaces times); the outcomes of the race that end the program are not  *)
(* modelled.  The main thread posts the calls: update on every tick of its *)
(* timer, startProtocol once, turnOffProtocols once finishProtocolTimer    *)
(* sees the AS finished.                                                   *)
(***************************************************************************)
EXTENDS RouteTable

CONSTANTS First,        \* nodes[0] (nodes[16]): its RIPFinished ends the AS
          Threshold,    \* unchanged ticks that mean convergence; 5 in the code
          MaxQueue,     \* bound: MaxQueue[r] update calls may wait for r's thread
          MaxRaces      \* bound: buffer accesses that interfere

ASSUME RipAssumption ==
  /\ First \in Router
  /\ Threshold \in Nat \ {0}
  /\ MaxQueue \in [Router -> Nat \ {0}]
  /\ MaxRaces \in Nat

VARIABLES
  table,                \* distanceVector.table of each router
  fwd,                  \* forwardingTable
  buffer,               \* buffer[r][m]: packets in r's port towards m
  races,                \* interfering accesses so far
  calls,                \* slot calls queued for r's thread, oldest first
  stage,                \* what the thread is in the middle of
  port,                 \* index of the loops over ports
  heard,                \* isAnyPacketReceive of the running updateRIP
  changed,              \* isAnythingChanged of the running updateRIP
  conv,                 \* ripConvergenceCondition
  ripFinished,
  ripFinishSignalEmited,
  isRIPstart,
  started,              \* main has posted startProtocol
  asFinished,           \* *ASOneProtocolFinished (*ASTwoProtocolFinished)
  turnedOff             \* main has posted turnOffProtocols

tables  == <<table, fwd>>
shared  == <<buffer, races>>
control == <<heard, changed, conv, ripFinished, ripFinishSignalEmited, isRIPstart>>
main    == <<started, asFinished, turnedOff>>
vars    == <<tables, shared, calls, stage, port, control, main>>

Update == "update"
Start  == "startProtocol"
Off    == "turnOffProtocols"

Init ==
  /\ table = [r \in Router |-> LinkCosts(r)]
  /\ fwd = [r \in Router |-> LinkPorts(r)]
  /\ buffer = [r \in Router |-> [m \in Neighbours(r) |-> <<>>]]
  /\ races = 0
  /\ calls = [r \in Router |-> <<>>]
  /\ stage = [r \in Router |-> "idle"]
  /\ port = [r \in Router |-> 1]
  /\ heard = [r \in Router |-> FALSE]
  /\ changed = [r \in Router |-> FALSE]
  /\ conv = [r \in Router |-> 0]
  /\ ripFinished = [r \in Router |-> FALSE]
  /\ ripFinishSignalEmited = [r \in Router |-> FALSE]
  /\ isRIPstart = [r \in Router |-> TRUE]
  /\ started = FALSE
  /\ asFinished = FALSE
  /\ turnedOff = FALSE

-----------------------------------------------------------------------------
(* The main thread. *)

PostToAll(call) == calls' = [r \in Router |-> Append(calls[r], call)]

Updates(r) == {i \in DOMAIN calls[r] : calls[r][i] = Update}

(* The repeating timer; MaxQueue bounds the lag of a thread behind it. *)
PostUpdate ==
  /\ \A r \in Router : Cardinality(Updates(r)) < MaxQueue[r]
  /\ PostToAll(Update)
  /\ UNCHANGED <<tables, shared, stage, port, control, main>>

(* ripRun, two milliseconds in. *)
PostStart ==
  /\ ~started
  /\ started' = TRUE
  /\ PostToAll(Start)
  /\ UNCHANGED <<tables, shared, stage, port, control, asFinished, turnedOff>>

(* Mutant: the flag is not waited for. *)
PostTurnOffAtOnce ==
  /\ ~turnedOff
  /\ turnedOff' = TRUE
  /\ PostToAll(Off)
  /\ UNCHANGED <<tables, shared, stage, port, control, started, asFinished>>

(* finishInASProtocols; the 100 ms poll runs after the 2 ms single shot and *)
(* also waits for the other AS, of which nothing is assumed.                *)
PostTurnOff ==
  /\ started /\ asFinished /\ ~turnedOff
  /\ turnedOff' = TRUE
  /\ PostToAll(Off)
  /\ UNCHANGED <<tables, shared, stage, port, control, started, asFinished>>

-----------------------------------------------------------------------------
(* A router's thread: the slot calls. *)

Called(r, call) == /\ stage[r] = "idle"
                   /\ calls[r] # <<>>
                   /\ Head(calls[r]) = call
                   /\ calls' = [calls EXCEPT ![r] = Tail(calls[r])]

EnterLoop(r, s) == /\ stage' = [stage EXCEPT ![r] = s]
                   /\ port' = [port EXCEPT ![r] = 1]

(* Mutant: one port too many. *)
NextPortPastLast(r, s) ==
  IF port[r] <= Len(Ports[r])
    THEN /\ port' = [port EXCEPT ![r] = port[r] + 1]
         /\ UNCHANGED stage
    ELSE EnterLoop(r, s)

(* To the next port, or to stage s after the last one. *)
NextPort(r, s) ==
  IF port[r] < Len(Ports[r])
    THEN /\ port' = [port EXCEPT ![r] = port[r] + 1]
         /\ UNCHANGED stage
    ELSE EnterLoop(r, s)

Leave(r) == EnterLoop(r, "idle")

(* update() while RIP runs: the loop of updateRIP begins. *)
BeginUpdateRIP(r) ==
  /\ Called(r, Update)
  /\ isRIPstart[r]
  /\ EnterLoop(r, "receive")
  /\ heard' = [heard EXCEPT ![r] = FALSE]
  /\ changed' = [changed EXCEPT ![r] = FALSE]
  /\ UNCHANGED <<tables, shared, conv, ripFinished, ripFinishSignalEmited, isRIPstart, main>>

(* update() once RIP is over: the loop of updateForwarding begins. *)
BeginUpdateForwarding(r) ==
  /\ Called(r, Update)
  /\ ~isRIPstart[r]
  /\ EnterLoop(r, "forward")
  /\ UNCHANGED <<tables, shared, control, main>>

(* startProtocol: startRIP resets the protocol and sends the vector. *)
StartRIP(r) ==
  /\ Called(r, Start)
  /\ isRIPstart' = [isRIPstart EXCEPT ![r] = TRUE]
  /\ ripFinished' = [ripFinished EXCEPT ![r] = FALSE]
  /\ conv' = [conv EXCEPT ![r] = 0]
  /\ ripFinishSignalEmited' = [ripFinishSignalEmited EXCEPT ![r] = FALSE]
  /\ EnterLoop(r, "send")
  /\ UNCHANGED <<tables, shared, heard, changed, main>>

TurnOffProtocols(r) ==
  /\ Called(r, Off)
  /\ isRIPstart' = [isRIPstart EXCEPT ![r] = FALSE]
  /\ UNCHANGED <<tables, shared, stage, port, heard, changed, conv,
                 ripFinished, ripFinishSignalEmited, main>>

-----------------------------------------------------------------------------
(* The port accesses. *)

At(r, m) == Ports[r][port[r]] = m

Popping(r, m) == stage[r] \in {"receive", "forward"} /\ At(r, m)
Pushing(m, r) == stage[m] = "send" /\ At(m, r)

Interfere == races < MaxRaces /\ races' = races + 1 /\ UNCHANGED buffer

(* port::receive by r on its port to m: the front packet goes, unless a    *)
(* push by m that overlaps writes the old front back.                      *)
Pop(r, m) ==
  \/ /\ buffer' = [buffer EXCEPT ![r][m] = Tail(buffer[r][m])]
     /\ UNCHANGED races
  \/ m \in Router /\ Pushing(m, r) /\ Interfere

(* port::send by r towards m: the packet is appended to the port of m,     *)
(* unless a pop by m that overlaps drops it.                               *)
Push(r, m, packet) ==
  \/ /\ buffer' = [buffer EXCEPT ![m][r] = Append(buffer[m][r], packet)]
     /\ UNCHANGED races
  \/ Popping(m, r) /\ Interfere

(* One turn of updateRIP's loop: at most one packet from the port. *)
Receive(r) ==
  /\ stage[r] = "receive"
  /\ LET m == Ports[r][port[r]] IN
       IF buffer[r][m] = <<>>
         THEN UNCHANGED <<tables, shared, heard, changed>>
         ELSE LET new == Head(buffer[r][m]) IN
              /\ Pop(r, m)
              /\ heard' = [heard EXCEPT ![r] = TRUE]
              /\ changed' = [changed EXCEPT ![r] =
                               @ \/ Improved(r, table[r], new) # {}]
              /\ table' = [table EXCEPT ![r] = MergeCosts(r, table[r], new)]
              /\ fwd' = [fwd EXCEPT ![r] = MergePorts(r, table[r], fwd[r], new, m)]
  /\ NextPort(r, "conclude")
  /\ UNCHANGED <<calls, conv, ripFinished, ripFinishSignalEmited, isRIPstart, main>>

(* A tick that counts towards convergence; the mutant has it inverted.     *)
News(r)  == heard[r] /\ changed[r]
Quiet(r) == heard[r] /\ ~changed[r]

(* The rest of updateRIP: count, decide, and send or emit.  RIPFinished is *)
(* connected to a lambda that runs at once in the emitting thread.         *)
Conclude(r) ==
  LET count == conv[r] + (IF Quiet(r) THEN 1 ELSE 0)
      done  == ripFinished[r] \/ count >= Threshold
      emits == done /\ ~ripFinishSignalEmited[r]
  IN
  /\ stage[r] = "conclude"
  /\ conv' = [conv EXCEPT ![r] = count]
  /\ ripFinished' = [ripFinished EXCEPT ![r] = done]
  /\ ripFinishSignalEmited' = [ripFinishSignalEmited EXCEPT ![r] = @ \/ emits]
  /\ isRIPstart' = [isRIPstart EXCEPT ![r] = @ /\ ~emits]
  /\ asFinished' = (asFinished \/ (emits /\ r = First))
  /\ IF done THEN Leave(r) ELSE EnterLoop(r, "send")
  /\ UNCHANGED <<tables, shared, calls, heard, changed, started, turnedOff>>

(* One turn of sendRip's loop: only ports inside the AS get the vector. *)
Send(r) ==
  /\ stage[r] = "send"
  /\ LET m == Ports[r][port[r]] IN
       IF m \in Router THEN Push(r, m, table[r]) ELSE UNCHANGED shared
  /\ NextPort(r, "idle")
  /\ UNCHANGED <<tables, calls, control, main>>

(* Mutant: nothing is taken once RIP is over. *)
LetLie(r) == stage[r] = "forward" /\ NextPort(r, "idle")
             /\ UNCHANGED <<tables, shared, calls, control, main>>

(* One turn of updateForwarding's loop: a RIP packet is taken and ignored. *)
Drop(r) ==
  /\ stage[r] = "forward"
  /\ LET m == Ports[r][port[r]] IN
       IF buffer[r][m] = <<>> THEN UNCHANGED shared ELSE Pop(r, m)
  /\ NextPort(r, "idle")
  /\ UNCHANGED <<tables, calls, control, main>>

-----------------------------------------------------------------------------
Thread(r) == \/ BeginUpdateRIP(r) \/ BeginUpdateForwarding(r)
             \/ StartRIP(r) \/ TurnOffProtocols(r)
             \/ Receive(r) \/ Conclude(r) \/ Send(r) \/ Drop(r)

Next == PostUpdate \/ PostStart \/ PostTurnOff \/ \E r \in Router : Thread(r)

Spec == Init /\ [][Next]_vars

(* Every thread's event loop keeps running, and so do main's timers; the   *)
(* poll for the other AS may wait for ever.                                *)
Fairness == /\ WF_vars(PostUpdate) /\ WF_vars(PostStart)
            /\ \A r \in Router : WF_vars(Thread(r))

FairSpec == Spec /\ Fairness

-----------------------------------------------------------------------------
(* Properties. *)

Routes == INSTANCE Routing WITH table <- table, fwd <- fwd

Stages == {"idle", "receive", "conclude", "send", "forward"}

BuffersOK ==
  /\ buffer = [r \in Router |-> [m \in Neighbours(r) |-> buffer[r][m]]]
  /\ \A r \in Router : \A m \in Neighbours(r) : IsBuffer(buffer[r][m])
  /\ races \in Nat

ControlOK ==
  /\ calls \in [Router -> Seq({Update, Start, Off})]
  /\ stage \in [Router -> Stages]
  /\ port \in [Router -> Nat]
  /\ \A r \in Router : port[r] \in DOMAIN Ports[r]
  /\ {heard, changed, ripFinished, ripFinishSignalEmited, isRIPstart}
       \subseteq [Router -> BOOLEAN]
  /\ conv \in [Router -> Nat]
  /\ {started, asFinished, turnedOff} \subseteq BOOLEAN

(* The type invariant: the tables are functions on destinations, the two   *)
(* tables of a router know the same ones, a buffer holds such tables, and  *)
(* a loop stays on the router's ports.                                     *)
TypeOK == Routes!TypeOK /\ BuffersOK /\ ControlOK

(* What is in a buffer is an older vector of the router at the far end:    *)
(* every route in it that router still has, at no higher cost, and it      *)
(* never offers a route to itself.  (sendRip encodes the vector, then      *)
(* pushes it port by port into buffers other threads read later.)          *)
InFlight ==
  \A r \in Router : \A m \in Neighbours(r) :
    \A packet \in Range(buffer[r][m]) :
      /\ m \in Router
      /\ DOMAIN packet \subseteq DOMAIN table[m] \ {m}
      /\ \A k \in DOMAIN packet : packet[k] >= table[m][k]

(* Forwarding by fwd gets strictly cheaper at every hop while the tables   *)
(* of all routers are being rewritten (updateDistanceVector).              *)
NextHopCloser == Routes!NextHopCloser

(* No group of routers forwards packets for a destination among themselves *)
(* for ever, at any moment of the protocol.                                *)
NoForwardingLoop == Routes!NoForwardingLoop

(* RIP implements the abstract routing specification. *)
RefinesRouting == Routes!Spec

(* Every recorded cost is the length of a way there is, so none is below   *)
(* the true number of hops, however old the vectors that were merged.      *)
CostsSound ==
  \A r \in Router : \A k \in DOMAIN table[r] : IsWay(r, k, table[r][k])

(* Once a thread has handled turnOffProtocols its RIP never runs again,    *)
(* whatever else was queued (startProtocol sets isRIPstart back).          *)
OffStaysOff ==
  \A r \in Router :
    (turnedOff /\ \A i \in DOMAIN calls[r] : calls[r][i] # Off) => ~isRIPstart[r]

(* A buffer holds no more packets than the lag of the two threads explains:*)
(* a tick takes one packet from every port, running RIP or not.            *)
BacklogBounded ==
  \A r \in Router : \A m \in Peers(r) : 
    Len(buffer[r][m]) <= MaxQueue[r] + MaxQueue[m] + 3 + MaxRaces

(* RIP ends: RIPFinished of nodes[0] comes, unless every peer of nodes[0]  *)
(* has finished first and fallen silent, after which nothing it could      *)
(* count arrives any more (updateRIP counts only ticks with a packet).     *)
FinishedOrStarved ==
  <>[](asFinished \/ \A m \in Peers(First) : ~isRIPstart[m])

(* "Signals to indicate the completion of OSPF and RIP protocols"          *)
(* (src/A3/README.md:48): when RIPFinished of nodes[0] has been taken as   *)
(* the end of RIP, every router knows every node at its true distance.     *)
CompleteWhenFinished ==
  asFinished =>
    \A r \in Router : \A k \in Node \ {r} :
      k \in DOMAIN table[r] /\ table[r][k] = Distance(r, k)
=============================================================================
