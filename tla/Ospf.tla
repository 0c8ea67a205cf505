-------------------------------- MODULE Ospf --------------------------------
(***************************************************************************)
(* OSPF in one autonomous system (src/A3/router.cpp): a token that carries *)
(* its sender's link-state table and the routers on its path walks the     *)
(* routers depth first, and main.cpp starts one walk per router, each when *)
(* the one before has emitted OSPFFinished.  A router with the token away  *)
(* waits on the port it left by; every other update looks at the ports one *)
(* after the other, and the other threads run between two looks.           *)
(***************************************************************************)
EXTENDS RouteTable

CONSTANTS Order,     \* the routers in the order main starts them
          MaxQueue   \* bound: update calls that may wait for a thread

ASSUME OspfAssumption ==
  /\ Order \in Seq(Router)
  /\ Range(Order) = Router
  /\ \A i, j \in DOMAIN Order : Order[i] = Order[j] => i = j
  /\ Order # <<>>
  /\ MaxQueue \in Nat \ {0}

VARIABLES
  table,            \* lsdb.table of each router
  fwd,              \* forwardingTable
  visited,          \* lsdb.visitedNodeIDs, as a set
  buffer,           \* buffer[r][m]: tokens in r's port towards m
  calls,            \* slot calls queued for r's thread, oldest first
  stage,            \* what the thread is in the middle of
  port,             \* index of updateOSPF's loop over ports
  sendOSPF,         \* the token is out by port lspIndex (or comes from it)
  isStartOSPF,
  lspIndex,         \* counted from 1
  lspReceivePort,   \* far end of the port the token came by
  mainStage,        \* how far main() is
  posted,           \* walks started: startProtocol posted to Order[posted]
  connected,        \* routers whose OSPFFinished is connected
  asFinished        \* *finishFlag

tables  == <<table, fwd>>
token   == <<visited, sendOSPF, isStartOSPF, lspIndex, lspReceivePort>>
walks   == <<posted, connected, asFinished>>
vars    == <<tables, token, buffer, calls, stage, port, mainStage, walks>>

Update == "update"
Start  == "startProtocol"

Init ==
  /\ table = [r \in Router |-> LinkCosts(r)]
  /\ fwd = [r \in Router |-> LinkPorts(r)]
  /\ visited = [r \in Router |-> {}]
  /\ buffer = [r \in Router |-> [m \in Neighbours(r) |-> <<>>]]
  /\ calls = [r \in Router |-> <<>>]
  /\ stage = [r \in Router |-> "idle"]
  /\ port = [r \in Router |-> 1]
  /\ sendOSPF = [r \in Router |-> FALSE]
  /\ isStartOSPF = [r \in Router |-> FALSE]
  /\ lspIndex = [r \in Router |-> 1]
  /\ lspReceivePort = [r \in Router |-> Ports[r][1]]
  /\ mainStage = "post"
  /\ posted = 0
  /\ connected = 0
  /\ asFinished = FALSE

-----------------------------------------------------------------------------
(* The main thread. *)

(* runOSPFOnNodesSequentially for the first router: it posts the walk, and *)
(* connects OSPFFinished after that.                                       *)
MainPost ==
  /\ mainStage = "post"
  /\ mainStage' = "connect"
  /\ posted' = 1
  /\ calls' = [calls EXCEPT ![Order[1]] = Append(@, Start)]
  /\ UNCHANGED <<tables, token, buffer, stage, port, connected, asFinished>>

MainConnect ==
  /\ mainStage = "connect"
  /\ mainStage' = "exec"
  /\ connected' = 1
  /\ UNCHANGED <<tables, token, buffer, calls, stage, port, posted, asFinished>>

(* The repeating timer, once main is in its event loop. *)
PostUpdate ==
  /\ mainStage = "exec"
  /\ \A r \in Router : Len(SelectSeq(calls[r], LAMBDA c : c = Update)) < MaxQueue
  /\ calls' = [r \in Router |-> Append(calls[r], Update)]
  /\ UNCHANGED <<tables, token, buffer, stage, port, mainStage, walks>>

-----------------------------------------------------------------------------
(* The token. *)

Token(t, path) == [table |-> t, visited |-> path]

Push(buf, r, m, tok) == [buf EXCEPT ![m][r] = Append(@, tok)]

(* Mutants of the search: PCs and foreign routers count, or routers on the *)
(* path do.                                                                *)
NextPortAnyAS(r, i, path) ==
  CHOOSE j \in i..Len(Ports[r]) + 1 :
    /\ j <= Len(Ports[r]) => Ports[r][j] \notin path
    /\ \A n \in i..(j - 1) : Ports[r][n] \in path
NextPortVisited(r, i, path) ==
  CHOOSE j \in i..Len(Ports[r]) + 1 :
    /\ j <= Len(Ports[r]) => Ports[r][j] \in Router
    /\ \A n \in i..(j - 1) : Ports[r][n] \notin Router

(* sendLsp's search: the first port from i on whose far end is in the AS   *)
(* and not on the path, or one past the last port.                         *)
NextLspPort(r, i, path) ==
  CHOOSE j \in i..Len(Ports[r]) + 1 :
    /\ j <= Len(Ports[r]) => Ports[r][j] \in Router \ path
    /\ \A n \in i..(j - 1) : Ports[r][n] \notin Router \ path

(* Mutant: sendOSPF is not set. *)
PassOnForgotten(r, buf, i, t, path) ==
  LET j == NextLspPort(r, i, path) IN
  /\ j <= Len(Ports[r])
  /\ lspIndex' = [lspIndex EXCEPT ![r] = j]
  /\ UNCHANGED sendOSPF
  /\ buffer' = Push(buf, r, Ports[r][j], Token(t, path))

(* sendLsp finds a port: the token, with table t, leaves by it and r waits *)
(* for it there.                                                           *)
PassOn(r, buf, i, t, path) ==
  LET j == NextLspPort(r, i, path) IN
  /\ j <= Len(Ports[r])
  /\ lspIndex' = [lspIndex EXCEPT ![r] = j]
  /\ sendOSPF' = [sendOSPF EXCEPT ![r] = TRUE]
  /\ buffer' = Push(buf, r, Ports[r][j], Token(t, path))

NoPortLeft(r, i, path) == NextLspPort(r, i, path) > Len(Ports[r])

(* lspBackTrack.  (Here and in Finish lspIndex, which no one reads before  *)
(* the next token resets it, is left past the last port.)                  *)
BackTrack(r, buf, from, t, path) ==
  /\ lspIndex' = [lspIndex EXCEPT ![r] = Len(Ports[r]) + 1]
  /\ sendOSPF' = [sendOSPF EXCEPT ![r] = FALSE]
  /\ buffer' = Push(buf, r, from, Token(t, path))

(* Mutant: isStartOSPF stays set. *)
FinishStillStarter(r, buf) ==
  /\ lspIndex' = [lspIndex EXCEPT ![r] = Len(Ports[r]) + 1]
  /\ sendOSPF' = [sendOSPF EXCEPT ![r] = FALSE]
  /\ buffer' = buf
  /\ stage' = [stage EXCEPT ![r] = "emit"]
  /\ UNCHANGED isStartOSPF

(* handleOSPFFinish; Emit(r) does what the signal sets off. *)
Finish(r, buf) ==
  /\ lspIndex' = [lspIndex EXCEPT ![r] = Len(Ports[r]) + 1]
  /\ sendOSPF' = [sendOSPF EXCEPT ![r] = FALSE]
  /\ isStartOSPF' = [isStartOSPF EXCEPT ![r] = FALSE]
  /\ buffer' = buf
  /\ stage' = [stage EXCEPT ![r] = "emit"]

-----------------------------------------------------------------------------
(* A router's thread. *)

Called(r, call) == /\ stage[r] = "idle"
                   /\ calls[r] # <<>>
                   /\ Head(calls[r]) = call
                   /\ calls' = [calls EXCEPT ![r] = Tail(calls[r])]

(* startProtocol, startOSPF: the walk begins at the first port. *)
StartOSPF(r) ==
  /\ Called(r, Start)
  /\ visited' = [visited EXCEPT ![r] = {r}]
  /\ \/ /\ PassOn(r, buffer, 1, table[r], {r})
        /\ isStartOSPF' = [isStartOSPF EXCEPT ![r] = TRUE]
        /\ UNCHANGED stage
     \/ NoPortLeft(r, 1, {r}) /\ Finish(r, buffer)
  /\ UNCHANGED <<tables, lspReceivePort, port, mainStage, walks>>

(* updateOSPF without the token: the loop over the ports begins. *)
BeginScan(r) ==
  /\ Called(r, Update)
  /\ ~sendOSPF[r]
  /\ stage' = [stage EXCEPT ![r] = "scan"]
  /\ port' = [port EXCEPT ![r] = 1]
  /\ UNCHANGED <<tables, token, buffer, mainStage, walks>>

(* One turn of that loop.  A token on any port counts as a fresh one, even *)
(* r's own coming back by a port further on in the same loop.  (The router *)
(* that started the walk never scans, see StarterWaits, so a token with    *)
(* nowhere to go on to turns back here.)                                   *)
Scan(r) ==
  LET m    == Ports[r][port[r]]
      rest == [buffer EXCEPT ![r][m] = Tail(@)]
      path == Head(buffer[r][m]).visited \cup {r}
  IN
  /\ stage[r] = "scan"
  /\ IF buffer[r][m] = <<>>
       THEN UNCHANGED <<token, buffer>>
       ELSE /\ visited' = [visited EXCEPT ![r] = path]
            /\ lspReceivePort' = [lspReceivePort EXCEPT ![r] = m]
            /\ \/ Len(Ports[r]) > 1 /\ PassOn(r, rest, 1, table[r], path)
               \/ /\ Len(Ports[r]) > 1 => NoPortLeft(r, 1, path)
                  /\ BackTrack(r, rest, m, table[r], path)
            /\ UNCHANGED isStartOSPF
  /\ IF port[r] < Len(Ports[r])
       THEN port' = [port EXCEPT ![r] = @ + 1] /\ UNCHANGED stage
       ELSE port' = [port EXCEPT ![r] = 1] /\ stage' = [stage EXCEPT ![r] = "idle"]
  /\ UNCHANGED <<tables, calls, mainStage, walks>>

(* updateOSPF with the token out, and it is not back. *)
StillWaiting(r) ==
  /\ Called(r, Update)
  /\ sendOSPF[r]
  /\ buffer[r][Ports[r][lspIndex[r]]] = <<>>
  /\ UNCHANGED <<tables, token, buffer, stage, port, mainStage, walks>>

(* updateOSPF when the token is back: its table is merged, and it goes to  *)
(* the next port.  A router that did not start the walk sends it home      *)
(* without a look at its last port (`lspIndex >= ports.size() - 1`).       *)
TokenBack(r) ==
  LET m    == Ports[r][lspIndex[r]]
      new  == Head(buffer[r][m]).table
      t    == MergeCosts(r, table[r], new)
      rest == [buffer EXCEPT ![r][m] = Tail(@)]
      next == lspIndex[r] + 1
      path == visited[r]
  IN
  /\ Called(r, Update)
  /\ sendOSPF[r]
  /\ buffer[r][m] # <<>>
  /\ table' = [table EXCEPT ![r] = t]
  /\ fwd' = [fwd EXCEPT ![r] = MergePorts(r, table[r], fwd[r], new, m)]
  /\ \/ /\ isStartOSPF[r]
        /\ next > Len(Ports[r]) \/ NoPortLeft(r, next, path)
        /\ Finish(r, rest)
     \/ /\ isStartOSPF[r] \/ next < Len(Ports[r])
        /\ PassOn(r, rest, next, t, path)
        /\ UNCHANGED <<isStartOSPF, stage>>
     \/ /\ ~isStartOSPF[r]
        /\ next >= Len(Ports[r]) \/ NoPortLeft(r, next, path)
        /\ BackTrack(r, rest, lspReceivePort[r], t, path)
        /\ UNCHANGED <<isStartOSPF, stage>>
  /\ UNCHANGED <<visited, lspReceivePort, port, mainStage, walks>>

Index(r) == CHOOSE i \in DOMAIN Order : Order[i] = r

(* OSPFFinished, if connected, runs runOSPFOnNodesSequentially in this     *)
(* thread: the next walk is posted, or the AS is finished.                 *)
Emit(r) ==
  /\ stage[r] = "emit"
  /\ \/ /\ connected < Index(r)
        /\ stage' = [stage EXCEPT ![r] = "idle"]
        /\ UNCHANGED <<calls, walks>>
     \/ /\ connected >= Index(r)
        /\ Index(r) = Len(Order)
        /\ asFinished' = TRUE
        /\ stage' = [stage EXCEPT ![r] = "idle"]
        /\ UNCHANGED <<calls, posted, connected>>
     \/ /\ connected >= Index(r)
        /\ Index(r) < Len(Order)
        /\ posted' = Index(r) + 1
        /\ calls' = [calls EXCEPT ![Order[Index(r) + 1]] = Append(@, Start)]
        /\ stage' = [stage EXCEPT ![r] = "connect"]
        /\ UNCHANGED <<connected, asFinished>>
  /\ UNCHANGED <<tables, token, buffer, port, mainStage>>

(* Mutant: the signal of the router after that one. *)
ConnectNext(r) ==
  /\ stage[r] = "connect"
  /\ connected' = Index(r) + 2
  /\ stage' = [stage EXCEPT ![r] = "idle"]
  /\ UNCHANGED <<tables, token, buffer, calls, port, mainStage, posted, asFinished>>

(* Then the signal of the router just started is connected. *)
Connect(r) ==
  /\ stage[r] = "connect"
  /\ connected' = Index(r) + 1
  /\ stage' = [stage EXCEPT ![r] = "idle"]
  /\ UNCHANGED <<tables, token, buffer, calls, port, mainStage, posted, asFinished>>

Thread(r) == \/ StartOSPF(r) \/ BeginScan(r) \/ Scan(r) \/ StillWaiting(r)
             \/ TokenBack(r) \/ Emit(r) \/ Connect(r)

Next == MainPost \/ MainConnect \/ PostUpdate \/ \E r \in Router : Thread(r)

Spec == Init /\ [][Next]_vars

(* Every thread's event loop keeps running, and so does main. *)
Fairness == /\ WF_vars(MainPost) /\ WF_vars(MainConnect) /\ WF_vars(PostUpdate)
            /\ \A r \in Router : WF_vars(Thread(r))

FairSpec == Spec /\ Fairness

-----------------------------------------------------------------------------
(* Properties. *)

Routes == INSTANCE Routing WITH table <- table, fwd <- fwd

(* The type invariant: tables and tokens are tables on nodes, a loop stays *)
(* on the router's ports, a signal is connected only once its walk was     *)
(* posted.                                                                 *)
TypeOK ==
  /\ Routes!TypeOK
  /\ buffer = [r \in Router |-> [m \in Neighbours(r) |-> buffer[r][m]]]
  /\ \A r \in Router : \A m \in Neighbours(r) : \A tok \in Range(buffer[r][m]) :
       IsTable(tok.table) /\ tok.visited \subseteq Router
  /\ visited \in [Router -> SUBSET Router]
  /\ calls \in [Router -> Seq({Update, Start})]
  /\ stage \in [Router -> {"idle", "scan", "emit", "connect"}]
  /\ sendOSPF \in [Router -> BOOLEAN] /\ isStartOSPF \in [Router -> BOOLEAN]
  /\ port \in [Router -> Nat] /\ lspIndex \in [Router -> Nat]
  /\ lspReceivePort \in [Router -> Node]
  /\ \A r \in Router : /\ port[r] \in DOMAIN Ports[r]
                       /\ lspIndex[r] \in 1..Len(Ports[r]) + 1
                       /\ lspReceivePort[r] \in Neighbours(r)
  /\ mainStage \in {"post", "connect", "exec"}
  /\ posted \in 0..Len(Order) /\ connected \in 0..posted
  /\ asFinished \in BOOLEAN

Tokens == UNION {UNION {{<<r, m, i>> : i \in DOMAIN buffer[r][m]} : m \in Neighbours(r)} :
                   r \in Router}

(* One walk at a time: the AS never holds two tokens, a token is about     *)
(* exactly while one router waits as the start of the walk, and every      *)
(* router that has started a walk before has finished it.                  *)
OneToken ==
  /\ Cardinality(Tokens) = Cardinality({r \in Router : isStartOSPF[r]})
  /\ Cardinality(Tokens) <= 1

(* The router that started the walk waits until the end.                   *)
StarterWaits == \A r \in Router : isStartOSPF[r] => sendOSPF[r]

(* A waiting router looks at a real port (`ports[lspIndex]`), a peer's.    *)
WaitsOnAPeer ==
  \A r \in Router :
    sendOSPF[r] => lspIndex[r] <= Len(Ports[r]) /\ Ports[r][lspIndex[r]] \in Peers(r)

(* The token is always awaited: the router it was sent on by, and the one  *)
(* it has to end at, wait for it at a port it can come back by.            *)
TokenAwaited == StarterWaits /\ WaitsOnAPeer

(* The loop of updateOSPF is about to take for a fresh token the one that  *)
(* r itself sent on earlier in the same loop.                              *)
Overtaken(r) ==
  /\ stage[r] = "scan" /\ sendOSPF[r]
  /\ port[r] <= lspIndex[r]
  /\ buffer[r][Ports[r][lspIndex[r]]] # <<>>

(* The walk of r ends before its OSPFFinished is connected. *)
Unheard(r) == stage[r] = "emit" /\ connected < Index(r)

(* OSPF ends, unless one of the two races of this design was lost.         *)
FinishesUnlessRaced == <>(asFinished \/ \E r \in Router : Overtaken(r) \/ Unheard(r))

(* RIP's promise holds of OSPF too: it refines the same specification. *)
RefinesRouting == Routes!Spec

(* "OSPFFinished(), RIPFinished(): Signals to indicate the completion of   *)
(* OSPF and RIP protocols" (src/A3/README.md:48): the last signal comes.   *)
OspfCompletes == <>asFinished

(* The same line, of what completion means: every router then knows every  *)
(* node it has a way to, at its true distance.                             *)
CompleteWhenFinished ==
  asFinished =>
    \A r \in Router : \A k \in Within(r)[Cardinality(Router)] \ {r} :
      k \in DOMAIN table[r] /\ table[r][k] = Distance(r, k)
=============================================================================
