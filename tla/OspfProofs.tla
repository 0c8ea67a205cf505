----------------------------- MODULE OspfProofs ------------------------------
(***************************************************************************)
(* For every topology, order of the walks and backlog of calls: OSPF runs  *)
(* one walk at a time, the token is always awaited, and its tables are a   *)
(* refinement of the abstract routing specification.  The inductive        *)
(* invariant says where the one token is and whose turn it is; a token in  *)
(* flight carries the very table its sender has.                           *)
(***************************************************************************)
EXTENDS Ospf, RouteTableProofs, FiniteSetTheorems, WellFoundedInduction

(* Buffers without a token, and with one only, in r's port towards m.      *)
None == [q \in Router |-> [n \in Neighbours(q) |-> <<>>]]
Only(r, m, tok) ==
  [q \in Router |-> [n \in Neighbours(q) |-> IF q = r /\ n = m THEN <<tok>> ELSE <<>>]]

(* There is a token exactly while some router is the start of a walk, and  *)
(* it carries its sender's table.                                          *)
InFlight(r, m, path) == buffer = Only(r, m, Token(table[m], path))
Carried ==
  \/ buffer = None /\ \A r \in Router : ~isStartOSPF[r]
  \/ /\ \E r \in Router : isStartOSPF[r]
     /\ \E r \in Router : \E m \in Peers(r) : \E path \in SUBSET Router : InFlight(r, m, path)

(* A router with the token out waits on a peer's port, and if it did not   *)
(* start the walk it knows a peer to send the token home to.               *)
Waiting ==
  \A r \in Router :
    /\ isStartOSPF[r] => sendOSPF[r] /\ stage[r] # "scan"
    /\ sendOSPF[r] => lspIndex[r] \in DOMAIN Ports[r] /\ Ports[r][lspIndex[r]] \in Router
    /\ sendOSPF[r] /\ ~isStartOSPF[r] => lspReceivePort[r] \in Router

(* Only the router whose walk was posted last is asked to start, walks, or *)
(* signals its end, one after the other.                                   *)
Call    == {Update, Start}
Has(s)  == \E i \in DOMAIN s : s[i] = Start
Once(s) == \A i, j \in DOMAIN s : s[i] = Start /\ s[j] = Start => i = j
InTurn ==
  \A r \in Router :
    /\ Has(calls[r]) \/ isStartOSPF[r] \/ stage[r] = "emit" => posted # 0 /\ r = Order[posted]
    /\ ~(Has(calls[r]) /\ isStartOSPF[r]) /\ ~(Has(calls[r]) /\ stage[r] = "emit")
    /\ ~(isStartOSPF[r] /\ stage[r] = "emit")
    /\ Once(calls[r])

(* A signal not yet connected is the last posted walk's.                   *)
Connecting ==
  /\ mainStage = "post" => posted = 0
  /\ mainStage = "connect" => posted = 1 /\ connected = 0
  /\ \A r \in Router : stage[r] = "connect" => posted = Index(r) + 1 /\ connected = Index(r)

(* The tables by themselves keep the abstract specification's invariant.   *)
Closer == Routes!NoOwnRoute /\ Routes!NextHopCloser

Inv == TypeOK /\ Closer /\ Carried /\ Waiting /\ InTurn /\ Connecting

-----------------------------------------------------------------------------
(* The topology, the order of the walks, and the calls.                    *)
LEMMA Lines ==
  ASSUME NEW r \in Router
  PROVE  /\ Len(Ports[r]) \in Nat \ {0} /\ DOMAIN Ports[r] = 1..Len(Ports[r])
         /\ \A i \in DOMAIN Ports[r] : Ports[r][i] \in Neighbours(r)
BY TopologyAssumption DEF Neighbours, Range

LEMMA Places ==
  /\ Len(Order) \in Nat \ {0} /\ DOMAIN Order = 1..Len(Order)
  /\ \A i \in DOMAIN Order : Order[i] \in Router /\ Index(Order[i]) = i
  /\ \A r \in Router : Index(r) \in DOMAIN Order /\ Order[Index(r)] = r
<1>1. Len(Order) \in Nat \ {0} /\ DOMAIN Order = 1..Len(Order)
  BY OspfAssumption, EmptySeq
<1>2. \A i \in DOMAIN Order : Order[i] \in Router
  BY OspfAssumption
<1>3. \A r \in Router : \E i \in DOMAIN Order : Order[i] = r
  BY OspfAssumption DEF Range
<1>4. \A r \in Router : Index(r) \in DOMAIN Order /\ Order[Index(r)] = r
  BY <1>3 DEF Index
<1>5. \A i \in DOMAIN Order : Index(Order[i]) = i
  BY <1>2, <1>4, OspfAssumption
<1> QED
  BY <1>1, <1>2, <1>4, <1>5

LEMMA TailCalls ==
  ASSUME NEW s \in Seq(Call), s # <<>>
  PROVE  /\ Tail(s) \in Seq(Call)
         /\ Has(Tail(s)) => Has(s)
         /\ Once(s) => Once(Tail(s))
         /\ Head(s) = Start => Has(s) /\ (Once(s) => ~Has(Tail(s)))
<1>1. /\ Tail(s) \in Seq(Call) /\ Head(s) = s[1] /\ Len(s) \in Nat \ {0}
      /\ DOMAIN s = 1..Len(s) /\ DOMAIN Tail(s) = 1..(Len(s) - 1)
      /\ \A i \in 1..(Len(s) - 1) : Tail(s)[i] = s[i + 1]
  BY HeadTailProperties, LenProperties, EmptySeq
<1>2. \A i \in DOMAIN Tail(s) : i + 1 \in DOMAIN s /\ i + 1 # 1 /\ Tail(s)[i] = s[i + 1]
  BY <1>1
<1>3. 1 \in DOMAIN s
  BY <1>1
<1>4. \A i, j \in DOMAIN Tail(s) : i + 1 = j + 1 => i = j
  BY <1>1
<1> QED
  BY <1>1, <1>2, <1>3, <1>4 DEF Has, Once

LEMMA AppendCalls ==
  ASSUME NEW s \in Seq(Call), NEW c \in Call
  PROVE  /\ Append(s, c) \in Seq(Call)
         /\ Has(Append(s, c)) <=> Has(s) \/ c = Start
         /\ Once(s) /\ (c = Start => ~Has(s)) => Once(Append(s, c))
<1>1. /\ Append(s, c) \in Seq(Call) /\ Len(s) \in Nat
      /\ DOMAIN s = 1..Len(s) /\ DOMAIN Append(s, c) = 1..(Len(s) + 1)
      /\ \A i \in 1..Len(s) : Append(s, c)[i] = s[i]
      /\ Append(s, c)[Len(s) + 1] = c
  BY AppendProperties, LenProperties
<1>2. \A i \in DOMAIN Append(s, c) : i \in DOMAIN s \/ i = Len(s) + 1
  BY <1>1
<1>3. DOMAIN s \subseteq DOMAIN Append(s, c) /\ Len(s) + 1 \in DOMAIN Append(s, c)
  BY <1>1
<1> QED
  BY <1>1, <1>2, <1>3 DEF Has, Once

(* sendLsp's search ends at a peer or past the last port.                  *)
LEMMA NextPorts ==
  ASSUME NEW r \in Router, NEW i \in 1..Len(Ports[r]) + 1, NEW path
  PROVE  /\ NextLspPort(r, i, path) \in 1..Len(Ports[r]) + 1
         /\ NextLspPort(r, i, path) <= Len(Ports[r]) =>
              /\ NextLspPort(r, i, path) \in DOMAIN Ports[r]
              /\ Ports[r][NextLspPort(r, i, path)] \in Peers(r)
<1> DEFINE Far == Len(Ports[r]) + 1
           Fits(j) == j <= Len(Ports[r]) => Ports[r][j] \in Router \ path
           S == {j \in i..Far : Fits(j)}
<1>1. Len(Ports[r]) \in Nat /\ i \in Nat /\ Far \in Nat /\ i <= Far /\ ~(Far <= Len(Ports[r]))
  BY Lines
<1>2. S \subseteq Nat /\ Far \in S
  BY <1>1
<1>3. PICK n \in S : \A c \in S : <<c, n>> \notin OpToRel(<, Nat)
  <2>1. IsWellFoundedOn(OpToRel(<, Nat), Nat)
    BY NatLessThanWellFounded
  <2> QED
    BY <1>2, <2>1, WFMin
<1>4. \A c \in S : ~(c < n)
  BY <1>2, <1>3 DEF OpToRel
<1>5. \A c \in i..(n - 1) : c \in i..Far /\ c < n /\ c <= Len(Ports[r])
  BY <1>1, <1>2
<1>6. \A c \in i..(n - 1) : Ports[r][c] \notin Router \ path
  BY <1>4, <1>5
<1>7. \E j \in i..Len(Ports[r]) + 1 :
        /\ j <= Len(Ports[r]) => Ports[r][j] \in Router \ path
        /\ \A c \in i..(j - 1) : Ports[r][c] \notin Router \ path
  BY <1>6
<1> HIDE DEF S, Far, Fits
<1>8. /\ NextLspPort(r, i, path) \in i..Len(Ports[r]) + 1
      /\ NextLspPort(r, i, path) <= Len(Ports[r]) =>
           Ports[r][NextLspPort(r, i, path)] \in Router \ path
  BY <1>7 DEF NextLspPort
<1> QED
  BY <1>1, <1>8, Lines DEF Peers

-----------------------------------------------------------------------------
(* The one token in the buffers.                                           *)
LEMMA OnlyOne ==
  ASSUME NEW r \in Router, NEW m \in Neighbours(r), NEW tok
  PROVE  /\ Only(r, m, tok)[r][m] = <<tok>> /\ Only(r, m, tok) # None
         /\ \A q \in Router : \A n \in Neighbours(q) :
              /\ Only(r, m, tok)[q][n] # <<>> => q = r /\ n = m
              /\ None[q][n] = <<>>
         /\ [Only(r, m, tok) EXCEPT ![r][m] = Tail(@)] = None
<1> DEFINE O == Only(r, m, tok)
           E == [O EXCEPT ![r][m] = Tail(@)]
<1>1. /\ \A q \in Router : \A n \in Neighbours(q) :
           O[q][n] = IF q = r /\ n = m THEN <<tok>> ELSE <<>>
      /\ \A q \in Router : \A n \in Neighbours(q) : None[q][n] = <<>>
  BY DEF Only, None
<1>2. <<tok>> # <<>> /\ Tail(<<tok>>) = <<>>
  OBVIOUS
<1>3. E = None
  <2>1. E = [q \in Router |-> [n \in Neighbours(q) |-> E[q][n]]]
    BY DEF Only
  <2>2. \A q \in Router : \A n \in Neighbours(q) : E[q][n] = <<>>
    BY <1>1, <1>2 DEF Only
  <2> HIDE DEF E
  <2> QED
    BY <2>1, <2>2 DEF None
<1> QED
  BY <1>1, <1>2, <1>3

LEMMA Pushed ==
  ASSUME NEW r \in Router, NEW m \in Peers(r), NEW tok
  PROVE  Push(None, r, m, tok) = Only(m, r, tok)
<1> DEFINE P == Push(None, r, m, tok)
<1>1. m \in Router /\ r \in Neighbours(m)
  BY NeighboursAreNodes DEF Peers
<1>2. P = [q \in Router |-> [n \in Neighbours(q) |-> P[q][n]]]
  BY DEF Push, None
<1>3. Append(<<>>, tok) = <<tok>>
  OBVIOUS
<1>4. \A q \in Router : \A n \in Neighbours(q) :
        P[q][n] = IF q = m /\ n = r THEN <<tok>> ELSE <<>>
  BY <1>1, <1>3 DEF Push, None
<1>5. P = Only(m, r, tok)
  <2> HIDE DEF P
  <2> QED
    BY <1>2, <1>4 DEF Only
<1> QED
  BY <1>5

(* A token that is about is the only one, and is its sender's table.       *)
LEMMA Taken ==
  ASSUME Carried, NEW r \in Router, NEW m \in Neighbours(r), buffer[r][m] # <<>>
  PROVE  /\ m \in Peers(r)
         /\ \E path \in SUBSET Router : Head(buffer[r][m]) = Token(table[m], path)
         /\ [buffer EXCEPT ![r][m] = Tail(@)] = None
         /\ \E q \in Router : isStartOSPF[q]
<1>1. buffer # None
  BY DEF None
<1>2. PICK q \in Router : \E n \in Peers(q) : \E path \in SUBSET Router : InFlight(q, n, path)
  BY <1>1 DEF Carried
<1>3. PICK n \in Peers(q) : \E path \in SUBSET Router : InFlight(q, n, path)
  BY <1>2
<1>4. PICK path \in SUBSET Router : InFlight(q, n, path)
  BY <1>3
<1>5. n \in Neighbours(q)
  BY <1>3 DEF Peers
<1> DEFINE tok == Token(table[n], path)
<1>6. buffer = Only(q, n, tok)
  BY <1>4 DEF InFlight
<1> HIDE DEF tok
<1>7. q = r /\ n = m
  BY <1>3, <1>5, <1>6, OnlyOne
<1>8. buffer[r][m] = <<tok>> /\ [buffer EXCEPT ![r][m] = Tail(@)] = None
  BY <1>3, <1>5, <1>6, <1>7, OnlyOne
<1>9. Head(buffer[r][m]) = tok
  BY <1>8
<1>10. \E x \in Router : isStartOSPF[x]
  BY <1>1 DEF Carried
<1> QED
  BY <1>3, <1>7, <1>8, <1>9, <1>10 DEF tok

-----------------------------------------------------------------------------
(* What the thread of r does with the token: sends it on and waits, sends  *)
(* it home, or ends the walk.                                              *)
Sent(r, t, path) == \E m \in Peers(r) : buffer' = Only(m, r, Token(t, path))
SentOn(r, t, path) ==
  /\ Sent(r, t, path)
  /\ sendOSPF' = [sendOSPF EXCEPT ![r] = TRUE]
  /\ \E j \in DOMAIN Ports[r] : /\ lspIndex' = [lspIndex EXCEPT ![r] = j]
                                /\ Ports[r][j] \in Router
SentHome(r, t, path) ==
  /\ Sent(r, t, path)
  /\ sendOSPF' = [sendOSPF EXCEPT ![r] = FALSE]
  /\ lspIndex' = [lspIndex EXCEPT ![r] = Len(Ports[r]) + 1]

LEMMA PassedOn ==
  ASSUME NEW r \in Router, NEW i \in 1..Len(Ports[r]) + 1, NEW t, NEW path,
         PassOn(r, None, i, t, path)
  PROVE  SentOn(r, t, path)
<1> DEFINE j == NextLspPort(r, i, path)
<1>1. j \in DOMAIN Ports[r] /\ Ports[r][j] \in Peers(r)
  BY NextPorts DEF PassOn
<1>2. /\ lspIndex' = [lspIndex EXCEPT ![r] = j]
      /\ sendOSPF' = [sendOSPF EXCEPT ![r] = TRUE]
      /\ buffer' = Push(None, r, Ports[r][j], Token(t, path))
  BY DEF PassOn
<1> HIDE DEF j
<1>3. Push(None, r, Ports[r][j], Token(t, path)) = Only(Ports[r][j], r, Token(t, path))
  BY <1>1, Pushed
<1> QED
  BY <1>1, <1>2, <1>3 DEF SentOn, Sent, Peers

LEMMA TurnedBack ==
  ASSUME NEW r \in Router, NEW m \in Peers(r), NEW t, NEW path,
         BackTrack(r, None, m, t, path)
  PROVE  SentHome(r, t, path)
BY Pushed DEF BackTrack, SentHome, Sent

(* startOSPF: no walk was under way.                                       *)
LEMMA Starting ==
  ASSUME Inv, NEW r \in Router, StartOSPF(r)
  PROVE  /\ buffer = None /\ r = Order[posted] /\ Has(calls[r])
         /\ ~isStartOSPF[r] /\ stage[r] = "idle"
         /\ \/ /\ SentOn(r, table[r], {r}) /\ stage' = stage
               /\ isStartOSPF' = [isStartOSPF EXCEPT ![r] = TRUE]
            \/ Finish(r, None)
<1>1. /\ stage[r] = "idle" /\ calls[r] # <<>> /\ Head(calls[r]) = Start
      /\ calls[r] \in Seq(Call)
  BY DEF StartOSPF, Called, Inv, TypeOK, Call
<1>2. Has(calls[r])
  BY <1>1, TailCalls
<1>3. r = Order[posted] /\ ~isStartOSPF[r]
  BY <1>2 DEF Inv, InTurn
<1>4. \A q \in Router : ~isStartOSPF[q]
  BY <1>3 DEF Inv, InTurn
<1>5. buffer = None
  BY <1>4 DEF Inv, Carried
<1>6. 1 \in 1..Len(Ports[r]) + 1
  BY Lines
<1>7. \/ /\ SentOn(r, table[r], {r}) /\ stage' = stage
         /\ isStartOSPF' = [isStartOSPF EXCEPT ![r] = TRUE]
      \/ Finish(r, None)
  BY <1>5, <1>6, PassedOn DEF StartOSPF
<1> QED
  BY <1>1, <1>2, <1>3, <1>5, <1>7

(* updateOSPF on a port without the token, or a fresh token.               *)
LEMMA Scanning ==
  ASSUME Inv, NEW r \in Router, Scan(r)
  PROVE  \/ UNCHANGED <<token, buffer>>
         \/ /\ \E q \in Router : isStartOSPF[q]
            /\ \E m \in Peers(r) : lspReceivePort' = [lspReceivePort EXCEPT ![r] = m]
            /\ \E path \in SUBSET Router :
                 /\ visited' = [visited EXCEPT ![r] = path]
                 /\ SentOn(r, table[r], path) \/ SentHome(r, table[r], path)
            /\ UNCHANGED isStartOSPF
<1> DEFINE m == Ports[r][port[r]]
           rest == [buffer EXCEPT ![r][m] = Tail(@)]
           path == Head(buffer[r][m]).visited \cup {r}
<1>1. m \in Neighbours(r)
  BY Lines DEF Inv, TypeOK
<1>2. CASE buffer[r][m] = <<>>
  BY <1>2 DEF Scan
<1>3. CASE buffer[r][m] # <<>>
  <2>1. /\ m \in Peers(r) /\ rest = None
        /\ \E p \in SUBSET Router : Head(buffer[r][m]) = Token(table[m], p)
        /\ \E q \in Router : isStartOSPF[q]
    BY <1>1, <1>3, Taken DEF Inv
  <2>2. path \in SUBSET Router
    BY <2>1 DEF Token
  <2>3. /\ visited' = [visited EXCEPT ![r] = path]
        /\ lspReceivePort' = [lspReceivePort EXCEPT ![r] = m]
        /\ PassOn(r, rest, 1, table[r], path) \/ BackTrack(r, rest, m, table[r], path)
        /\ UNCHANGED isStartOSPF
    BY <1>3 DEF Scan
  <2> HIDE DEF m, rest, path
  <2>4. 1 \in 1..Len(Ports[r]) + 1
    BY Lines
  <2>5. SentOn(r, table[r], path) \/ SentHome(r, table[r], path)
    BY <2>1, <2>3, <2>4, PassedOn, TurnedBack
  <2> QED
    BY <2>1, <2>2, <2>3, <2>5
<1> QED
  BY <1>2, <1>3

(* updateOSPF when the token is back from m: the table it brings is m's.   *)
LEMMA Returning ==
  ASSUME Inv, NEW r \in Router, TokenBack(r)
  PROVE  \E m \in Peers(r) :
           /\ \E q \in Router : isStartOSPF[q]
           /\ table' = [table EXCEPT ![r] = MergeCosts(r, table[r], table[m])]
           /\ fwd' = [fwd EXCEPT ![r] = MergePorts(r, table[r], fwd[r], table[m], m)]
           /\ \/ isStartOSPF[r] /\ Finish(r, None)
              \/ /\ SentOn(r, MergeCosts(r, table[r], table[m]), visited[r])
                 /\ UNCHANGED <<isStartOSPF, stage>>
              \/ /\ ~isStartOSPF[r]
                 /\ SentHome(r, MergeCosts(r, table[r], table[m]), visited[r])
                 /\ UNCHANGED <<isStartOSPF, stage>>
<1> DEFINE m == Ports[r][lspIndex[r]]
           new == Head(buffer[r][m]).table
           t == MergeCosts(r, table[r], new)
           rest == [buffer EXCEPT ![r][m] = Tail(@)]
           next == lspIndex[r] + 1
<1>1. sendOSPF[r] /\ buffer[r][m] # <<>>
  BY DEF TokenBack
<1>2. lspIndex[r] \in DOMAIN Ports[r] /\ m \in Router
  BY <1>1 DEF Inv, Waiting
<1>3. m \in Neighbours(r) /\ next \in 1..Len(Ports[r]) + 1
  BY <1>2, Lines
<1>4. /\ m \in Peers(r) /\ rest = None
      /\ \E p \in SUBSET Router : Head(buffer[r][m]) = Token(table[m], p)
      /\ \E q \in Router : isStartOSPF[q]
  BY <1>1, <1>3, Taken DEF Inv
<1>5. new = table[m]
  BY <1>4 DEF Token
<1>6. /\ table' = [table EXCEPT ![r] = t]
      /\ fwd' = [fwd EXCEPT ![r] = MergePorts(r, table[r], fwd[r], new, m)]
      /\ \/ isStartOSPF[r] /\ Finish(r, rest)
         \/ PassOn(r, rest, next, t, visited[r]) /\ UNCHANGED <<isStartOSPF, stage>>
         \/ /\ ~isStartOSPF[r] /\ BackTrack(r, rest, lspReceivePort[r], t, visited[r])
            /\ UNCHANGED <<isStartOSPF, stage>>
  BY DEF TokenBack
<1>7. ~isStartOSPF[r] => lspReceivePort[r] \in Peers(r)
  BY <1>1 DEF Inv, Waiting, TypeOK, Peers
<1> HIDE DEF m, new, t, rest, next
<1>8. \/ isStartOSPF[r] /\ Finish(r, None)
      \/ SentOn(r, t, visited[r]) /\ UNCHANGED <<isStartOSPF, stage>>
      \/ ~isStartOSPF[r] /\ SentHome(r, t, visited[r]) /\ UNCHANGED <<isStartOSPF, stage>>
  BY <1>3, <1>4, <1>6, <1>7, PassedOn, TurnedBack
<1>9. t = MergeCosts(r, table[r], table[m])
  BY <1>5 DEF t
<1> QED
  BY <1>4, <1>5, <1>6, <1>8, <1>9

-----------------------------------------------------------------------------
(* The tables take a step of the abstract specification.                   *)

(* The instance's operators are the ones this module uses itself, and      *)
(* Routing is what the lemmas about tables that improve speak of.          *)
LEMMA SameOperators ==
  /\ Routes!Node = Node
  /\ \A r : /\ Routes!Neighbours(r) = Neighbours(r)
            /\ Routes!Peers(r) = Peers(r)
            /\ Routes!LinkCosts(r) = LinkCosts(r)
            /\ Routes!LinkPorts(r) = LinkPorts(r)
  /\ \A t : Routes!IsTable(t) <=> IsTable(t)
BY DEF Routes!Node, Node, Routes!Neighbours, Neighbours, Routes!Peers, Peers,
       Routes!LinkCosts, LinkCosts, Routes!LinkPorts, LinkPorts,
       Routes!IsTable, IsTable, Routes!Cost, Cost, Routes!Range, Range

LEMMA SameRouting ==
  /\ Routes!Init => WellRouted(table, fwd)
  /\ WellRouted(table, fwd) <=> Routes!TypeOK /\ Closer
  /\ \A r : Routes!Improve(r) <=> Improves(r, table, fwd, table', fwd')
<1>1. Routes!Init => WellRouted(table, fwd)
  BY LinksWellRouted, SameOperators DEF Routes!Init
<1>2. WellRouted(table, fwd) <=> Routes!TypeOK /\ Closer
  BY SameOperators DEF WellRouted, Closer, Routes!TypeOK, Routes!NoOwnRoute, Routes!NextHopCloser
<1>3. \A r : Routes!Improve(r) <=> Improves(r, table, fwd, table', fwd')
  BY SameOperators DEF Routes!Improve, Improves, Routes!Kept, Routes!Learned
<1> QED
  BY <1>1, <1>2, <1>3

(* updateLsp on the table a peer has now.                                  *)
LEMMA MergeImproves ==
  ASSUME Routes!TypeOK, Closer, NEW r \in Router, NEW m \in Peers(r),
         table' = [table EXCEPT ![r] = MergeCosts(r, table[r], table[m])],
         fwd' = [fwd EXCEPT ![r] = MergePorts(r, table[r], fwd[r], table[m], m)]
  PROVE  Routes!Improve(r)
<1>1. /\ IsTable(table[r]) /\ IsTable(table[m])
      /\ fwd[r] \in [DOMAIN table[r] -> Neighbours(r)]
      /\ r \notin DOMAIN table[r]
      /\ m \in Neighbours(r) /\ m \in Router
  BY SameOperators DEF Routes!TypeOK, Closer, Routes!NoOwnRoute, Peers
<1>2. /\ table'[r] = MergeCosts(r, table[r], table[m])
      /\ fwd'[r] = MergePorts(r, table[r], fwd[r], table[m], m)
      /\ table' = [table EXCEPT ![r] = table'[r]]
      /\ fwd' = [fwd EXCEPT ![r] = fwd'[r]]
  BY DEF Routes!TypeOK
<1>3. /\ IsTable(table'[r])
      /\ DOMAIN table[r] \subseteq DOMAIN table'[r]
      /\ fwd'[r] \in [DOMAIN table'[r] -> Neighbours(r)]
  BY <1>1, <1>2, MergeIsTable
<1>4. ASSUME NEW k \in DOMAIN table'[r]
      PROVE  Routes!Kept(r, k) \/ Routes!Learned(r, k, m)
  <2>1. k \in DOMAIN MergeCosts(r, table[r], table[m])
    BY <1>2, <1>4
  <2>2. CASE /\ k \in DOMAIN table[r]
             /\ table'[r][k] = table[r][k]
             /\ fwd'[r][k] = fwd[r][k]
    BY <2>2 DEF Routes!Kept
  <2>3. CASE /\ k # r
             /\ k \in DOMAIN table[m]
             /\ table'[r][k] = table[m][k] + 1
             /\ k \in DOMAIN table[r] => table'[r][k] < table[r][k]
             /\ fwd'[r][k] = m
    <3>1. table[m][k] \in Nat
      BY <1>1, <2>3 DEF IsTable, Cost
    <3>2. table'[r][k] > table[m][k]
      BY <2>3, <3>1
    <3> QED
      BY <2>3, <3>2 DEF Routes!Learned
  <2> QED
    BY <1>1, <1>2, <2>1, <2>2, <2>3, MergeEntries
<1> QED
  BY <1>2, <1>3, <1>4, SameOperators DEF Routes!Improve

(* Nothing but a returning token changes the tables.                       *)
LEMMA StepTables ==
  ASSUME Inv, [Next]_vars
  PROVE  /\ (\E r \in Router : Routes!Improve(r)) \/ UNCHANGED tables
         /\ Routes!TypeOK' /\ Closer'
<1>1. ASSUME NEW r \in Router, TokenBack(r) PROVE Routes!Improve(r)
  <2>1. PICK m \in Peers(r) :
          /\ table' = [table EXCEPT ![r] = MergeCosts(r, table[r], table[m])]
          /\ fwd' = [fwd EXCEPT ![r] = MergePorts(r, table[r], fwd[r], table[m], m)]
    BY <1>1, Returning
  <2> QED
    BY <2>1, MergeImproves DEF Inv, TypeOK
<1>2. UNCHANGED vars \/ MainPost \/ MainConnect \/ PostUpdate => UNCHANGED tables
  BY DEF vars, MainPost, MainConnect, PostUpdate
<1>3. ASSUME NEW r \in Router, \/ StartOSPF(r) \/ BeginScan(r) \/ Scan(r)
                               \/ StillWaiting(r) \/ Emit(r) \/ Connect(r)
      PROVE  UNCHANGED tables
  BY <1>3 DEF StartOSPF, BeginScan, Scan, StillWaiting, Emit, Connect
<1>4. (\E r \in Router : Routes!Improve(r)) \/ UNCHANGED tables
  BY <1>1, <1>2, <1>3 DEF Next, Thread
<1>5. WellRouted(table, fwd)
  BY SameRouting DEF Inv, TypeOK
<1>6. WellRouted(table', fwd')
  BY <1>4, <1>5, SameRouting, ImprovesWellRouted DEF tables
<1>7. Routes!TypeOK' /\ Closer' <=> WellRouted(table', fwd')
  <2>1. WellRouted(table, fwd)' <=> WellRouted(table', fwd')
    BY DEF WellRouted
  <2>2. Routes!TypeOK' /\ Closer' <=> WellRouted(table, fwd)'
    BY SameRouting, PTL
  <2> QED
    BY <2>1, <2>2
<1> QED
  BY <1>4, <1>6, <1>7

-----------------------------------------------------------------------------
(* Where the token is.                                                     *)
LEMMA SentIsCarried ==
  ASSUME NEW r \in Router, NEW path \in SUBSET Router, NEW t, Sent(r, t, path), t = table'[r],
         \E q \in Router : isStartOSPF'[q]
  PROVE  Carried'
<1>1. PICK m \in Peers(r) : buffer' = Only(m, r, Token(t, path))
  BY DEF Sent
<1>2. m \in Router /\ r \in Peers(m)
  BY NeighboursAreNodes
<1>3. InFlight(m, r, path)'
  BY <1>1 DEF InFlight
<1> QED
  BY <1>2, <1>3 DEF Carried

LEMMA EndIsCarried ==
  ASSUME TypeOK, InTurn, NEW r \in Router, isStartOSPF[r] \/ Has(calls[r]), Finish(r, None)
  PROVE  Carried'
<1>1. \A q \in Router : isStartOSPF[q] => q = r
  BY DEF InTurn
<1>2. buffer' = None /\ \A q \in Router : ~isStartOSPF'[q]
  BY <1>1 DEF Finish, TypeOK
<1> QED
  BY <1>2 DEF Carried

LEMMA StepCarried ==
  ASSUME Inv, [Next]_vars
  PROVE  Carried'
<1>1. TypeOK /\ Carried /\ InTurn /\ Routes!TypeOK
  BY DEF Inv, TypeOK
<1>2. CASE UNCHANGED <<tables, token, buffer>>
  BY <1>1, <1>2 DEF Carried, InFlight, tables, token
<1>3. CASE UNCHANGED vars \/ MainPost \/ MainConnect \/ PostUpdate
  BY <1>2, <1>3 DEF vars, MainPost, MainConnect, PostUpdate
<1>4. ASSUME NEW r \in Router, BeginScan(r) \/ StillWaiting(r) \/ Emit(r) \/ Connect(r)
      PROVE  UNCHANGED <<tables, token, buffer>>
  BY <1>4 DEF BeginScan, StillWaiting, Emit, Connect
<1>5. ASSUME NEW r \in Router, StartOSPF(r) PROVE Carried'
  <2>1. Has(calls[r]) /\ table' = table
    BY <1>5, Starting DEF StartOSPF, tables
  <2>2. CASE SentOn(r, table[r], {r}) /\ isStartOSPF' = [isStartOSPF EXCEPT ![r] = TRUE]
    <3>1. isStartOSPF'[r]
      BY <1>1, <2>2 DEF TypeOK
    <3> QED
      BY <2>1, <2>2, <3>1, SentIsCarried DEF SentOn
  <2>3. CASE Finish(r, None)
    BY <1>1, <2>1, <2>3, EndIsCarried
  <2> QED
    BY <1>5, <2>2, <2>3, Starting
<1>6. ASSUME NEW r \in Router, Scan(r) PROVE Carried'
  <2>1. UNCHANGED tables /\ table' = table
    BY <1>6 DEF Scan, tables
  <2>2. CASE UNCHANGED <<token, buffer>>
    BY <1>2, <2>1, <2>2
  <2>3. CASE /\ \E q \in Router : isStartOSPF[q]
             /\ \E path \in SUBSET Router : Sent(r, table[r], path)
             /\ UNCHANGED isStartOSPF
    BY <2>1, <2>3, SentIsCarried
  <2> QED
    BY <1>6, <2>2, <2>3, Scanning DEF SentOn, SentHome
<1>7. ASSUME NEW r \in Router, TokenBack(r) PROVE Carried'
  <2>1. PICK m \in Peers(r) :
          /\ \E q \in Router : isStartOSPF[q]
          /\ table' = [table EXCEPT ![r] = MergeCosts(r, table[r], table[m])]
          /\ \/ isStartOSPF[r] /\ Finish(r, None)
             \/ /\ Sent(r, MergeCosts(r, table[r], table[m]), visited[r])
                /\ UNCHANGED isStartOSPF
    BY <1>7, Returning DEF SentOn, SentHome
  <2>2. table'[r] = MergeCosts(r, table[r], table[m]) /\ visited[r] \in SUBSET Router
    BY <1>1, <2>1 DEF TypeOK, Routes!TypeOK
  <2> QED
    BY <1>1, <2>1, <2>2, SentIsCarried, EndIsCarried
<1> QED
  BY <1>2, <1>3, <1>4, <1>5, <1>6, <1>7 DEF Next, Thread

-----------------------------------------------------------------------------
(* Who waits for it.                                                       *)

(* What a router's thread leaves alone of the others' state.               *)
LEMMA OthersKept ==
  ASSUME Inv, NEW r \in Router, Thread(r), NEW q \in Router, q # r
  PROVE  /\ stage'[q] = stage[q] /\ isStartOSPF'[q] = isStartOSPF[q]
         /\ sendOSPF'[q] = sendOSPF[q] /\ lspIndex'[q] = lspIndex[q]
         /\ lspReceivePort'[q] = lspReceivePort[q]
<1>1. /\ stage \in [Router -> {"idle", "scan", "emit", "connect"}]
      /\ sendOSPF \in [Router -> BOOLEAN] /\ isStartOSPF \in [Router -> BOOLEAN]
      /\ lspIndex \in [Router -> Nat] /\ lspReceivePort \in [Router -> Node]
  BY DEF Inv, TypeOK
<1>2. CASE BeginScan(r) \/ StillWaiting(r) \/ Emit(r) \/ Connect(r)
  BY <1>1, <1>2 DEF BeginScan, StillWaiting, Emit, Connect, token
<1>3. CASE StartOSPF(r)
  BY <1>1, <1>3, Starting DEF StartOSPF, SentOn, Finish
<1>4. CASE Scan(r)
  <2>1. stage'[q] = stage[q]
    BY <1>1, <1>4 DEF Scan
  <2> QED
    BY <1>1, <1>4, <2>1, Scanning DEF SentOn, SentHome, token
<1>5. CASE TokenBack(r)
  <2>1. lspReceivePort' = lspReceivePort
    BY <1>5 DEF TokenBack
  <2> QED
    BY <1>1, <1>5, <2>1, Returning DEF SentOn, SentHome, Finish
<1> QED
  BY <1>2, <1>3, <1>4, <1>5 DEF Thread

(* The waiting of one router, and what the loop and the token leave it.    *)
Waits(r) ==
  /\ isStartOSPF[r] => sendOSPF[r] /\ stage[r] # "scan"
  /\ sendOSPF[r] => lspIndex[r] \in DOMAIN Ports[r] /\ Ports[r][lspIndex[r]] \in Router
  /\ sendOSPF[r] /\ ~isStartOSPF[r] => lspReceivePort[r] \in Router

LEMMA WaitsAfter ==
  ASSUME TypeOK, NEW r \in Router, NEW t, NEW path
  PROVE  /\ SentOn(r, t, path) =>
              /\ sendOSPF' \in [Router -> BOOLEAN] /\ lspIndex' \in [Router -> Nat]
              /\ sendOSPF'[r] /\ lspIndex'[r] \in DOMAIN Ports[r]
              /\ Ports[r][lspIndex'[r]] \in Router
         /\ SentHome(r, t, path) =>
              /\ sendOSPF' \in [Router -> BOOLEAN] /\ lspIndex' \in [Router -> Nat]
              /\ ~sendOSPF'[r] /\ lspIndex'[r] = Len(Ports[r]) + 1
         /\ Finish(r, None) =>
              /\ sendOSPF' \in [Router -> BOOLEAN] /\ lspIndex' \in [Router -> Nat]
              /\ ~sendOSPF'[r] /\ ~isStartOSPF'[r] /\ lspIndex'[r] = Len(Ports[r]) + 1
<1>1. /\ sendOSPF \in [Router -> BOOLEAN] /\ isStartOSPF \in [Router -> BOOLEAN]
      /\ lspIndex \in [Router -> Nat]
  BY DEF TypeOK
<1>2. \A j \in DOMAIN Ports[r] : j \in Nat
  BY Lines
<1>3. Len(Ports[r]) + 1 \in Nat
  BY Lines
<1>4. ASSUME SentOn(r, t, path)
      PROVE  /\ sendOSPF' \in [Router -> BOOLEAN] /\ lspIndex' \in [Router -> Nat]
             /\ sendOSPF'[r] /\ lspIndex'[r] \in DOMAIN Ports[r]
             /\ Ports[r][lspIndex'[r]] \in Router
  BY <1>1, <1>2, <1>4 DEF SentOn
<1>5. ASSUME SentHome(r, t, path)
      PROVE  /\ sendOSPF' \in [Router -> BOOLEAN] /\ lspIndex' \in [Router -> Nat]
             /\ ~sendOSPF'[r] /\ lspIndex'[r] = Len(Ports[r]) + 1
  BY <1>1, <1>3, <1>5 DEF SentHome
<1>6. ASSUME Finish(r, None)
      PROVE  /\ sendOSPF' \in [Router -> BOOLEAN] /\ lspIndex' \in [Router -> Nat]
             /\ ~sendOSPF'[r] /\ ~isStartOSPF'[r] /\ lspIndex'[r] = Len(Ports[r]) + 1
  BY <1>1, <1>3, <1>6 DEF Finish
<1> QED
  BY <1>4, <1>5, <1>6

LEMMA ThreadWaits ==
  ASSUME Inv, NEW r \in Router, Thread(r)
  PROVE  Waits(r)'
<1>1. /\ stage \in [Router -> {"idle", "scan", "emit", "connect"}]
      /\ sendOSPF \in [Router -> BOOLEAN] /\ isStartOSPF \in [Router -> BOOLEAN]
      /\ lspReceivePort \in [Router -> Node] /\ TypeOK
  BY DEF Inv, TypeOK
<1>2. Waits(r)
  BY DEF Inv, Waiting, Waits
<1>3. CASE BeginScan(r)
  BY <1>1, <1>2, <1>3 DEF BeginScan, Waits, token
<1>4. CASE StillWaiting(r)
  BY <1>2, <1>4 DEF StillWaiting, Waits, token
<1>5. CASE Emit(r) \/ Connect(r)
  <2>1. UNCHANGED token /\ stage'[r] # "scan"
    BY <1>1, <1>5 DEF Emit, Connect
  <2> QED
    BY <1>2, <2>1 DEF Waits, token
<1>6. CASE StartOSPF(r)
  <2>1. CASE /\ SentOn(r, table[r], {r}) /\ stage' = stage /\ stage[r] = "idle"
             /\ isStartOSPF' = [isStartOSPF EXCEPT ![r] = TRUE]
    <3>1. isStartOSPF'[r]
      BY <1>1, <2>1
    <3> QED
      BY <1>1, <2>1, <3>1, WaitsAfter DEF Waits
  <2>2. CASE Finish(r, None)
    BY <1>1, <2>2, WaitsAfter DEF Waits
  <2> QED
    BY <1>6, <2>1, <2>2, Starting
<1>7. CASE Scan(r)
  <2>1. stage[r] = "scan" /\ ~isStartOSPF[r]
    BY <1>2, <1>7 DEF Scan, Waits
  <2>2. CASE UNCHANGED <<token, buffer>>
    BY <1>2, <2>1, <2>2 DEF Waits, token
  <2>3. CASE /\ \E m \in Peers(r) : lspReceivePort' = [lspReceivePort EXCEPT ![r] = m]
             /\ \E path \in SUBSET Router :
                  SentOn(r, table[r], path) \/ SentHome(r, table[r], path)
             /\ UNCHANGED isStartOSPF
    <3>1. lspReceivePort'[r] \in Router /\ ~isStartOSPF'[r]
      BY <1>1, <2>1, <2>3 DEF Peers
    <3> QED
      BY <1>1, <2>3, <3>1, WaitsAfter DEF Waits
  <2> QED
    BY <1>7, <2>2, <2>3, Scanning
<1>8. CASE TokenBack(r)
  <2>1. /\ sendOSPF[r] /\ stage[r] = "idle" /\ lspReceivePort' = lspReceivePort
    BY <1>8 DEF TokenBack, Called
  <2>2. CASE Finish(r, None)
    BY <1>1, <2>2, WaitsAfter DEF Waits
  <2>3. CASE /\ \E t : SentOn(r, t, visited[r])
             /\ UNCHANGED <<isStartOSPF, stage>>
    BY <1>1, <1>2, <2>1, <2>3, WaitsAfter DEF Waits
  <2>4. CASE /\ ~isStartOSPF[r]
             /\ \E t : SentHome(r, t, visited[r])
             /\ UNCHANGED <<isStartOSPF, stage>>
    BY <1>1, <2>4, WaitsAfter DEF Waits
  <2> QED
    BY <1>8, <2>2, <2>3, <2>4, Returning
<1> QED
  BY <1>3, <1>4, <1>5, <1>6, <1>7, <1>8 DEF Thread

LEMMA StepWaiting ==
  ASSUME Inv, [Next]_vars
  PROVE  Waiting'
<1>1. \A q \in Router : Waits(q)
  BY DEF Inv, Waiting, Waits
<1>2. CASE UNCHANGED vars \/ MainPost \/ MainConnect \/ PostUpdate
  <2>1. UNCHANGED <<token, stage>>
    BY <1>2 DEF vars, MainPost, MainConnect, PostUpdate
  <2> QED
    BY <1>1, <2>1 DEF Waiting, Waits, token
<1>3. CASE \E r \in Router : Thread(r)
  <2>1. PICK r \in Router : Thread(r)
    BY <1>3
  <2>2. \A q \in Router : q # r => Waits(q)'
    BY <1>1, <2>1, OthersKept DEF Waits
  <2> QED
    BY <2>1, <2>2, ThreadWaits DEF Waiting, Waits
<1> QED
  BY <1>2, <1>3 DEF Next

-----------------------------------------------------------------------------
(* Whose turn it is.                                                       *)
Turn(r) ==
  /\ Has(calls[r]) \/ isStartOSPF[r] \/ stage[r] = "emit" => posted # 0 /\ r = Order[posted]
  /\ ~(Has(calls[r]) /\ isStartOSPF[r]) /\ ~(Has(calls[r]) /\ stage[r] = "emit")
  /\ ~(isStartOSPF[r] /\ stage[r] = "emit")
  /\ Once(calls[r])

CallsOK == calls \in [Router -> Seq(Call)]

LEMMA CallTaken ==
  ASSUME TypeOK, InTurn, NEW r \in Router, NEW c \in Call, Called(r, c)
  PROVE  /\ CallsOK' /\ \A q \in Router : q # r => calls'[q] = calls[q]
         /\ Has(calls'[r]) => Has(calls[r])
         /\ Once(calls'[r])
         /\ c = Start => Has(calls[r]) /\ ~Has(calls'[r])
<1>1. /\ calls \in [Router -> Seq(Call)] /\ Once(calls[r])
      /\ calls[r] # <<>> /\ Head(calls[r]) = c
      /\ calls' = [calls EXCEPT ![r] = Tail(calls[r])]
  BY DEF TypeOK, InTurn, Called, Call
<1>2. /\ Tail(calls[r]) \in Seq(Call) /\ Once(Tail(calls[r]))
      /\ Has(Tail(calls[r])) => Has(calls[r])
      /\ c = Start => Has(calls[r]) /\ ~Has(Tail(calls[r]))
  BY <1>1, TailCalls
<1>3. calls'[r] = Tail(calls[r]) /\ \A q \in Router : q # r => calls'[q] = calls[q]
  BY <1>1
<1>4. calls' \in [Router -> Seq(Call)]
  BY <1>1, <1>2
<1> QED
  BY <1>2, <1>3, <1>4 DEF CallsOK

LEMMA CallPosted ==
  ASSUME TypeOK, InTurn, NEW r \in Router, ~Has(calls[r]),
         calls' = [calls EXCEPT ![r] = Append(@, Start)]
  PROVE  /\ CallsOK' /\ \A q \in Router : q # r => calls'[q] = calls[q]
         /\ Once(calls'[r])
<1>1. calls \in [Router -> Seq(Call)] /\ Once(calls[r]) /\ Start \in Call
  BY DEF TypeOK, InTurn, Call
<1>2. Append(calls[r], Start) \in Seq(Call) /\ Once(Append(calls[r], Start))
  BY <1>1, AppendCalls
<1>3. calls'[r] = Append(calls[r], Start) /\ \A q \in Router : q # r => calls'[q] = calls[q]
  BY <1>1
<1>4. calls' \in [Router -> Seq(Call)]
  BY <1>1, <1>2
<1> QED
  BY <1>2, <1>3, <1>4 DEF CallsOK

LEMMA UpdatesPosted ==
  ASSUME TypeOK, InTurn, calls' = [r \in Router |-> Append(calls[r], Update)]
  PROVE  /\ CallsOK'
         /\ \A q \in Router : (Has(calls'[q]) <=> Has(calls[q])) /\ Once(calls'[q])
<1>1. \A q \in Router : calls[q] \in Seq(Call) /\ Once(calls[q])
  BY DEF TypeOK, InTurn, Call
<1>2. Update \in Call /\ Update # Start
  BY DEF Call, Update, Start
<1>3. ASSUME NEW q \in Router
      PROVE  /\ Append(calls[q], Update) \in Seq(Call)
             /\ Has(Append(calls[q], Update)) <=> Has(calls[q])
             /\ Once(Append(calls[q], Update))
  BY <1>1, <1>2, AppendCalls
<1>4. \A q \in Router : calls'[q] = Append(calls[q], Update)
  OBVIOUS
<1> QED
  BY <1>3, <1>4 DEF CallsOK

(* The thread of a router while no walk is posted.                         *)
LEMMA ThreadTurn ==
  ASSUME Inv, NEW r \in Router, Thread(r), ~Emit(r)
  PROVE  CallsOK' /\ posted' = posted /\ \A q \in Router : Turn(q)'
<1>1. /\ stage \in [Router -> {"idle", "scan", "emit", "connect"}]
      /\ isStartOSPF \in [Router -> BOOLEAN] /\ TypeOK /\ InTurn
      /\ CallsOK
  BY DEF Inv, TypeOK, CallsOK, Call
<1>2. \A q \in Router : Turn(q)
  BY <1>1 DEF InTurn, Turn
<1>3. Start \in Call /\ Update \in Call
  BY DEF Call
<1>4. SUFFICES /\ CallsOK' /\ posted' = posted
               /\ \A q \in Router : q # r => calls'[q] = calls[q]
               /\ Turn(r)'
  BY <1>2, OthersKept DEF Turn
<1>5. CASE BeginScan(r)
  BY <1>1, <1>2, <1>3, <1>5, CallTaken DEF BeginScan, Turn, token, walks
<1>6. CASE StillWaiting(r)
  BY <1>2, <1>1, <1>3, <1>6, CallTaken DEF StillWaiting, Turn, token, walks
<1>7. CASE Connect(r)
  BY <1>1, <1>2, <1>7 DEF Connect, Turn, token, CallsOK
<1>8. CASE StartOSPF(r)
  <2>1. Called(r, Start) /\ posted' = posted
    BY <1>8 DEF StartOSPF, walks
  <2>2. /\ CallsOK' /\ \A q \in Router : q # r => calls'[q] = calls[q]
        /\ Once(calls'[r]) /\ ~Has(calls'[r]) /\ Has(calls[r])
    BY <1>1, <1>3, <2>1, CallTaken
  <2>3. posted # 0 /\ r = Order[posted]
    BY <1>2, <2>2 DEF Turn
  <2>4. ~(isStartOSPF'[r] /\ stage'[r] = "emit")
    BY <1>1, <1>8, Starting DEF Finish
  <2> QED
    BY <2>1, <2>2, <2>3, <2>4 DEF Turn
<1>9. CASE Scan(r)
  <2>1. UNCHANGED <<calls, posted, isStartOSPF>>
    BY <1>9, Scanning DEF Scan, token, walks
  <2>2. stage[r] = "scan" /\ stage'[r] # "emit"
    BY <1>1, <1>9 DEF Scan
  <2> QED
    BY <1>1, <1>2, <2>1, <2>2 DEF Turn, CallsOK
<1>10. CASE TokenBack(r)
  <2>1. Called(r, Update) /\ posted' = posted
    BY <1>10 DEF TokenBack, walks
  <2>2. /\ CallsOK' /\ \A q \in Router : q # r => calls'[q] = calls[q]
        /\ Once(calls'[r]) /\ (Has(calls'[r]) => Has(calls[r]))
    BY <1>1, <1>3, <2>1, CallTaken
  <2>3. CASE UNCHANGED <<isStartOSPF, stage>>
    BY <1>2, <2>1, <2>2, <2>3 DEF Turn
  <2>4. CASE isStartOSPF[r] /\ Finish(r, None)
    <3>1. ~isStartOSPF'[r] /\ ~Has(calls[r]) /\ posted # 0 /\ r = Order[posted]
      BY <1>1, <1>2, <2>4 DEF Finish, Turn
    <3> QED
      BY <2>1, <2>2, <3>1 DEF Turn
  <2> QED
    BY <1>10, <2>1, <2>2, <2>3, <2>4, Returning
<1> QED
  BY <1>5, <1>6, <1>7, <1>8, <1>9, <1>10 DEF Thread

WalksOK == posted \in 0..Len(Order) /\ connected \in 0..posted /\ asFinished \in BOOLEAN

LEMMA EmitTurn ==
  ASSUME Inv, NEW r \in Router, Emit(r)
  PROVE  CallsOK' /\ (\A q \in Router : Turn(q)') /\ WalksOK' /\ Connecting'
<1>1. /\ stage \in [Router -> {"idle", "scan", "emit", "connect"}]
      /\ isStartOSPF \in [Router -> BOOLEAN] /\ TypeOK /\ InTurn /\ CallsOK /\ WalksOK
      /\ Connecting
  BY DEF Inv, TypeOK, CallsOK, Call, WalksOK
<1>2. \A q \in Router : Turn(q)
  BY <1>1 DEF InTurn, Turn
<1>3. stage[r] = "emit" /\ isStartOSPF' = isStartOSPF /\ mainStage' = mainStage
  BY DEF Emit, token
<1>4. posted # 0 /\ r = Order[posted] /\ ~isStartOSPF[r] /\ ~Has(calls[r])
  BY <1>2, <1>3 DEF Turn
<1>5. /\ posted \in Nat /\ connected \in Nat /\ Len(Order) \in Nat
      /\ posted \in DOMAIN Order /\ DOMAIN Order = 1..Len(Order)
  BY <1>1, <1>4, Places DEF WalksOK
<1>6. Index(r) = posted
  BY <1>4, <1>5, Places
<1>7. \A q \in Router : q # r => /\ ~Has(calls[q]) /\ ~isStartOSPF[q] /\ stage[q] # "emit"
                                 /\ stage'[q] = stage[q]
  BY <1>1, <1>2, <1>4 DEF Turn, Emit
<1>8. CASE /\ stage' = [stage EXCEPT ![r] = "idle"] /\ UNCHANGED <<calls, posted, connected>>
           /\ asFinished' \in BOOLEAN
  <2>1. stage'[r] = "idle"
    BY <1>1, <1>8
  <2>2. \A q \in Router : Turn(q)'
    BY <1>2, <1>3, <1>4, <1>7, <1>8, <2>1 DEF Turn
  <2>3. Connecting'
    BY <1>1, <1>3, <1>7, <1>8, <2>1 DEF Connecting
  <2> QED
    BY <1>1, <1>8, <2>2, <2>3 DEF CallsOK, WalksOK
<1>9. CASE /\ connected >= Index(r) /\ Index(r) < Len(Order)
           /\ posted' = Index(r) + 1
           /\ calls' = [calls EXCEPT ![Order[Index(r) + 1]] = Append(@, Start)]
           /\ stage' = [stage EXCEPT ![r] = "connect"]
           /\ UNCHANGED <<connected, asFinished>>
  <2>1. /\ connected = posted /\ posted' = posted + 1 /\ posted' # 0 /\ posted' \in DOMAIN Order
        /\ posted' \in 0..Len(Order) /\ connected \in 0..posted'
    BY <1>1, <1>5, <1>6, <1>9 DEF WalksOK
  <2>2. PICK s \in Router : s = Order[posted + 1] /\ Index(s) = posted + 1 /\ s # r
    BY <1>5, <1>6, <2>1, Places
  <2>3. calls' = [calls EXCEPT ![s] = Append(@, Start)]
    BY <1>6, <1>9, <2>2
  <2>4. /\ CallsOK' /\ \A q \in Router : q # s => calls'[q] = calls[q]
        /\ Once(calls'[s])
    BY <1>1, <1>7, <2>2, <2>3, CallPosted
  <2>5. stage'[r] = "connect"
    BY <1>1, <1>9
  <2>6. s = Order[posted']
    BY <2>1, <2>2
  <2>7. Turn(s)'
    <3>1. ~isStartOSPF'[s] /\ stage'[s] # "emit"
      BY <1>3, <1>7, <2>2
    <3>2. posted' # 0 /\ s = Order[posted'] /\ Once(calls'[s])
      BY <2>1, <2>4, <2>6
    <3> QED
      BY <2>2, <3>1, <3>2 DEF Turn
  <2>8. \A q \in Router : q # s => Turn(q)'
    BY <1>2, <1>3, <1>4, <1>7, <2>4, <2>5 DEF Turn
  <2>9. \A q \in Router : q # r => stage[q] # "connect"
    <3> SUFFICES ASSUME NEW q \in Router, stage[q] = "connect" PROVE FALSE
      OBVIOUS
    <3>1. posted = connected + 1
      BY <1>1 DEF Connecting
    <3> QED
      BY <1>5, <2>1, <3>1
  <2>10. Connecting'
    <3>1. mainStage \notin {"post", "connect"}
      BY <1>1, <1>4, <1>5, <2>1 DEF Connecting
    <3>2. \A q \in Router : stage'[q] = "connect" => q = r
      BY <1>7, <2>9
    <3> QED
      BY <1>3, <1>6, <1>9, <2>1, <3>1, <3>2 DEF Connecting
  <2>11. WalksOK'
    BY <1>1, <1>9, <2>1 DEF WalksOK
  <2> QED
    BY <2>4, <2>7, <2>8, <2>10, <2>11
<1>10. \/ /\ stage' = [stage EXCEPT ![r] = "idle"] /\ UNCHANGED <<calls, posted, connected>>
          /\ asFinished' \in BOOLEAN
       \/ /\ connected >= Index(r) /\ Index(r) < Len(Order)
          /\ posted' = Index(r) + 1
          /\ calls' = [calls EXCEPT ![Order[Index(r) + 1]] = Append(@, Start)]
          /\ stage' = [stage EXCEPT ![r] = "connect"]
          /\ UNCHANGED <<connected, asFinished>>
  BY <1>1 DEF Emit, walks, WalksOK
<1> QED
  BY <1>8, <1>9, <1>10

LEMMA ConnectTurn ==
  ASSUME Inv, NEW r \in Router, Connect(r)
  PROVE  WalksOK' /\ Connecting'
<1>1. /\ stage \in [Router -> {"idle", "scan", "emit", "connect"}] /\ WalksOK /\ Connecting
  BY DEF Inv, TypeOK, WalksOK
<1>2. /\ stage[r] = "connect" /\ stage' = [stage EXCEPT ![r] = "idle"]
      /\ connected' = Index(r) + 1 /\ UNCHANGED <<posted, mainStage, asFinished>>
  BY DEF Connect
<1>3. /\ posted = Index(r) + 1 /\ connected = Index(r) /\ Index(r) \in Nat \ {0}
      /\ posted \in Nat /\ posted' = posted /\ connected' = posted
  BY <1>1, <1>2, Places DEF Connecting
<1>4. WalksOK'
  <2>1. posted \in 0..posted
    BY <1>3
  <2> QED
    BY <1>1, <1>2, <1>3, <2>1 DEF WalksOK
<1>5. \A q \in Router : stage'[q] # "connect"
  <2>1. \A q \in Router : stage[q] = "connect" => q = r
    <3> SUFFICES ASSUME NEW q \in Router, stage[q] = "connect" PROVE q = r
      OBVIOUS
    <3>1. Index(q) = Index(r)
      BY <1>1, <1>3 DEF Connecting
    <3> QED
      BY <3>1, Places
  <2> QED
    BY <1>1, <1>2, <2>1
<1>6. mainStage' \notin {"post", "connect"}
  BY <1>1, <1>2, <1>3 DEF Connecting
<1> QED
  BY <1>4, <1>5, <1>6 DEF Connecting

LEMMA StepTurn ==
  ASSUME Inv, [Next]_vars
  PROVE  CallsOK' /\ InTurn' /\ WalksOK' /\ Connecting'
<1>1. TypeOK /\ InTurn /\ CallsOK /\ WalksOK /\ Connecting
  BY DEF Inv, TypeOK, CallsOK, Call, WalksOK
<1>2. \A q \in Router : Turn(q)
  BY <1>1 DEF InTurn, Turn
<1>3. SUFFICES CallsOK' /\ (\A q \in Router : Turn(q)') /\ WalksOK' /\ Connecting'
  BY DEF InTurn, Turn
<1>4. CASE UNCHANGED vars
  BY <1>1, <1>2, <1>4 DEF vars, token, walks, Turn, CallsOK, WalksOK, Connecting
<1>5. CASE MainPost
  <2>1. posted = 0 /\ connected = 0 /\ posted' = 1 /\ connected' = 0
    BY <1>1, <1>5 DEF MainPost, Connecting, WalksOK
  <2>2. \A q \in Router : ~Has(calls[q]) /\ ~isStartOSPF[q] /\ stage[q] # "emit"
    BY <1>2, <2>1 DEF Turn
  <2>3. PICK s \in Router : s = Order[1]
    BY Places
  <2>4. /\ CallsOK' /\ Once(calls'[s]) /\ \A q \in Router : q # s => calls'[q] = calls[q]
    BY <1>1, <1>5, <2>2, <2>3, CallPosted DEF MainPost
  <2>5. UNCHANGED <<isStartOSPF, stage>>
    BY <1>5 DEF MainPost, token
  <2>6. \A q \in Router : Turn(q)'
    BY <1>2, <2>1, <2>2, <2>3, <2>4, <2>5 DEF Turn
  <2>7. 1 \in 0..Len(Order) /\ 0 \in 0..1
    BY Places
  <2>8. WalksOK'
    BY <1>1, <1>5, <2>1, <2>7 DEF WalksOK, MainPost
  <2>9. \A q \in Router : stage[q] # "connect"
    BY <1>1, <2>1, Places DEF Connecting
  <2>10. Connecting'
    BY <1>5, <2>1, <2>5, <2>9 DEF Connecting, MainPost
  <2> QED
    BY <2>4, <2>6, <2>8, <2>10
<1>6. CASE MainConnect
  <2>1. /\ posted = 1 /\ connected = 0 /\ posted' = 1 /\ connected' = 1
        /\ mainStage' = "exec" /\ UNCHANGED <<calls, isStartOSPF, stage, asFinished>>
    BY <1>1, <1>6 DEF MainConnect, Connecting, token
  <2>2. \A q \in Router : stage[q] # "connect"
    BY <1>1, <2>1, Places DEF Connecting
  <2>3. 1 \in 0..1
    OBVIOUS
  <2> QED
    BY <1>1, <1>2, <2>1, <2>2, <2>3 DEF CallsOK, Turn, WalksOK, Connecting
<1>7. CASE PostUpdate
  <2>1. UNCHANGED <<isStartOSPF, stage, posted, connected, asFinished, mainStage>>
    BY <1>7 DEF PostUpdate, token, walks
  <2>2. CallsOK' /\ \A q \in Router : (Has(calls'[q]) <=> Has(calls[q])) /\ Once(calls'[q])
    BY <1>1, <1>7, UpdatesPosted DEF PostUpdate
  <2> QED
    BY <1>1, <1>2, <2>1, <2>2 DEF Turn, WalksOK, Connecting
<1>8. ASSUME NEW r \in Router, Thread(r), ~Emit(r), ~Connect(r)
      PROVE  CallsOK' /\ (\A q \in Router : Turn(q)') /\ WalksOK' /\ Connecting'
  <2>1. CallsOK' /\ \A q \in Router : Turn(q)'
    BY <1>8, ThreadTurn
  <2>2. UNCHANGED <<posted, connected, asFinished, mainStage>>
    BY <1>8 DEF Thread, StartOSPF, BeginScan, Scan, StillWaiting, TokenBack, walks
  <2>3. stage'[r] # "connect"
    <3>1. stage \in [Router -> {"idle", "scan", "emit", "connect"}]
      BY <1>1 DEF TypeOK
    <3>2. CASE BeginScan(r) \/ StillWaiting(r)
      BY <3>1, <3>2 DEF BeginScan, StillWaiting, Called
    <3>3. CASE Scan(r)
      BY <3>1, <3>3 DEF Scan
    <3>4. CASE StartOSPF(r)
      BY <3>1, <3>4, Starting DEF Finish
    <3>5. CASE TokenBack(r)
      <4>1. stage[r] = "idle"
        BY <3>5 DEF TokenBack, Called
      <4> QED
        BY <3>1, <3>5, <4>1, Returning DEF Finish
    <3> QED
      BY <1>8, <3>2, <3>3, <3>4, <3>5 DEF Thread
  <2>4. \A q \in Router : stage'[q] = "connect" => stage[q] = "connect"
    BY <1>8, <2>3, OthersKept
  <2> QED
    BY <1>1, <2>1, <2>2, <2>4 DEF WalksOK, Connecting
<1>9. ASSUME NEW r \in Router, Connect(r)
      PROVE  CallsOK' /\ (\A q \in Router : Turn(q)') /\ WalksOK' /\ Connecting'
  <2>1. ~Emit(r)
    BY <1>9 DEF Emit, Connect
  <2> QED
    BY <1>9, <2>1, ThreadTurn, ConnectTurn DEF Thread
<1>10. ASSUME NEW r \in Router, Emit(r)
       PROVE  CallsOK' /\ (\A q \in Router : Turn(q)') /\ WalksOK' /\ Connecting'
  BY <1>10, EmitTurn
<1> QED
  BY <1>4, <1>5, <1>6, <1>7, <1>8, <1>9, <1>10 DEF Next

-----------------------------------------------------------------------------
(* The types.                                                              *)
ThreadsOK ==
  /\ visited \in [Router -> SUBSET Router]
  /\ stage \in [Router -> {"idle", "scan", "emit", "connect"}]
  /\ sendOSPF \in [Router -> BOOLEAN] /\ isStartOSPF \in [Router -> BOOLEAN]
  /\ port \in [Router -> Nat] /\ lspIndex \in [Router -> Nat]
  /\ lspReceivePort \in [Router -> Node]
  /\ \A r \in Router : /\ port[r] \in DOMAIN Ports[r]
                       /\ lspIndex[r] \in 1..Len(Ports[r]) + 1
                       /\ lspReceivePort[r] \in Neighbours(r)
  /\ mainStage \in {"post", "connect", "exec"}

LEMMA TypeParts ==
  TypeOK <=>
    /\ Routes!TypeOK /\ CallsOK /\ WalksOK /\ ThreadsOK
    /\ buffer = [r \in Router |-> [m \in Neighbours(r) |-> buffer[r][m]]]
    /\ \A r \in Router : \A m \in Neighbours(r) : \A tok \in Range(buffer[r][m]) :
         IsTable(tok.table) /\ tok.visited \subseteq Router
BY Zenon DEF TypeOK, CallsOK, Call, WalksOK, ThreadsOK

LEMMA CarriedTokens ==
  ASSUME Routes!TypeOK, Carried
  PROVE  /\ buffer = [r \in Router |-> [m \in Neighbours(r) |-> buffer[r][m]]]
         /\ \A r \in Router : \A m \in Neighbours(r) : \A tok \in Range(buffer[r][m]) :
              IsTable(tok.table) /\ tok.visited \subseteq Router
<1>1. CASE buffer = None
  <2>1. \A r \in Router : \A m \in Neighbours(r) : Range(buffer[r][m]) = {}
    BY <1>1 DEF None, Range
  <2> QED
    BY <1>1, <2>1 DEF None
<1>2. CASE buffer # None
  <2>1. PICK r \in Router : \E m \in Peers(r) : \E path \in SUBSET Router : InFlight(r, m, path)
    BY <1>2 DEF Carried
  <2>2. PICK m \in Peers(r) : \E path \in SUBSET Router : InFlight(r, m, path)
    BY <2>1
  <2>3. PICK path \in SUBSET Router : InFlight(r, m, path)
    BY <2>2
  <2>4. m \in Router /\ m \in Neighbours(r) /\ IsTable(table[m])
    BY SameOperators DEF Peers, Routes!TypeOK
  <2> DEFINE tok == Token(table[m], path)
  <2>5. IsTable(tok.table) /\ tok.visited \subseteq Router
    BY <2>4 DEF Token
  <2> HIDE DEF tok
  <2>6. buffer = Only(r, m, tok)
    BY <2>3 DEF InFlight, tok
  <2>7. Range(<<tok>>) = {tok} /\ Range(<<>>) = {}
    BY DEF Range
  <2>8. \A q \in Router : \A n \in Neighbours(q) :
          buffer[q][n] = IF q = r /\ n = m THEN <<tok>> ELSE <<>>
    BY <2>6 DEF Only
  <2>9. \A q \in Router : \A n \in Neighbours(q) : Range(buffer[q][n]) \subseteq {tok}
    BY <2>7, <2>8
  <2> QED
    BY <2>5, <2>6, <2>9 DEF Only
<1> QED
  BY <1>1, <1>2

LEMMA StepThreads ==
  ASSUME Inv, [Next]_vars
  PROVE  ThreadsOK'
<1>1. ThreadsOK /\ TypeOK
  BY TypeParts DEF Inv
<1>2. CASE UNCHANGED vars \/ MainPost \/ MainConnect \/ PostUpdate
  <2>1. UNCHANGED <<token, stage, port>> /\ mainStage' \in {"post", "connect", "exec"}
    BY <1>1, <1>2 DEF vars, MainPost, MainConnect, PostUpdate, ThreadsOK
  <2> QED
    BY <1>1, <2>1 DEF ThreadsOK, token
<1>3. \A q \in Router : 1 \in DOMAIN Ports[q]
  BY Lines
<1>4. ASSUME NEW r \in Router, BeginScan(r) \/ StillWaiting(r) \/ Emit(r) \/ Connect(r)
      PROVE  ThreadsOK'
  <2>1. UNCHANGED <<token, mainStage>>
    BY <1>4 DEF BeginScan, StillWaiting, Emit, Connect
  <2>2. stage' \in [Router -> {"idle", "scan", "emit", "connect"}]
    BY <1>1, <1>4 DEF BeginScan, StillWaiting, Emit, Connect, ThreadsOK
  <2>3. port' = port \/ port' = [port EXCEPT ![r] = 1]
    BY <1>4 DEF BeginScan, StillWaiting, Emit, Connect
  <2>4. \A q \in Router : port'[q] = port[q] \/ port'[q] = 1
    BY <1>1, <2>3 DEF ThreadsOK
  <2>5. port' \in [Router -> Nat]
    BY <1>1, <2>3 DEF ThreadsOK
  <2>6. \A q \in Router : port'[q] \in DOMAIN Ports[q]
    BY <1>1, <1>3, <2>4 DEF ThreadsOK
  <2> QED
    BY <1>1, <2>1, <2>2, <2>5, <2>6 DEF ThreadsOK, token
<1>5. ASSUME NEW r \in Router, StartOSPF(r) \/ Scan(r) \/ TokenBack(r)
      PROVE  /\ sendOSPF' \in [Router -> BOOLEAN] /\ lspIndex' \in [Router -> Nat]
             /\ \A q \in Router : lspIndex'[q] \in 1..Len(Ports[q]) + 1
  <2>1. \/ \E t, path : SentOn(r, t, path) \/ SentHome(r, t, path)
        \/ Finish(r, None) \/ UNCHANGED token
    BY <1>5, Starting, Scanning, Returning
  <2>2. \A q \in Router : q # r => lspIndex'[q] = lspIndex[q]
    BY <1>5, OthersKept DEF Thread
  <2>3. CASE UNCHANGED token
    BY <1>1, <2>3 DEF token, ThreadsOK
  <2>4. CASE ~UNCHANGED token
    <3>1. /\ sendOSPF' \in [Router -> BOOLEAN] /\ lspIndex' \in [Router -> Nat]
          /\ lspIndex'[r] \in DOMAIN Ports[r] \/ lspIndex'[r] = Len(Ports[r]) + 1
      BY <1>1, <2>1, <2>4, WaitsAfter
    <3>2. lspIndex'[r] \in 1..Len(Ports[r]) + 1
      BY <3>1, Lines
    <3> QED
      BY <1>1, <2>2, <3>1, <3>2 DEF ThreadsOK
  <2> QED
    BY <2>3, <2>4
<1>6. ASSUME NEW r \in Router, StartOSPF(r) PROVE ThreadsOK'
  <2>1. UNCHANGED <<lspReceivePort, port, mainStage>>
        /\ visited' = [visited EXCEPT ![r] = {r}]
    BY <1>6 DEF StartOSPF
  <2>2. visited' \in [Router -> SUBSET Router]
    BY <1>1, <2>1 DEF ThreadsOK
  <2>3. /\ isStartOSPF' \in [Router -> BOOLEAN]
        /\ stage' \in [Router -> {"idle", "scan", "emit", "connect"}]
    BY <1>1, <1>6, Starting DEF Finish, ThreadsOK
  <2> QED
    BY <1>1, <1>5, <1>6, <2>1, <2>2, <2>3 DEF ThreadsOK
<1>7. ASSUME NEW r \in Router, Scan(r) PROVE ThreadsOK'
  <2>1. /\ visited' \in [Router -> SUBSET Router]
        /\ lspReceivePort' \in [Router -> Node]
        /\ \A q \in Router : lspReceivePort'[q] \in Neighbours(q)
        /\ isStartOSPF' = isStartOSPF
    <3>1. CASE UNCHANGED token
      BY <1>1, <3>1 DEF token, ThreadsOK
    <3>2. CASE /\ \E m \in Peers(r) : lspReceivePort' = [lspReceivePort EXCEPT ![r] = m]
               /\ \E path \in SUBSET Router : visited' = [visited EXCEPT ![r] = path]
               /\ UNCHANGED isStartOSPF
      BY <1>1, <3>2 DEF ThreadsOK, Peers, Node
    <3> QED
      BY <1>7, <3>1, <3>2, Scanning
  <2>2. /\ stage' \in [Router -> {"idle", "scan", "emit", "connect"}]
        /\ port' = [port EXCEPT ![r] = port'[r]]
        /\ mainStage' = mainStage
    BY <1>1, <1>7 DEF Scan, ThreadsOK
  <2>3. port'[r] \in Nat /\ port'[r] \in DOMAIN Ports[r]
    BY <1>1, <1>7, Lines DEF Scan, ThreadsOK
  <2>4. port' \in [Router -> Nat] /\ \A q \in Router : port'[q] \in DOMAIN Ports[q]
    BY <1>1, <2>2, <2>3 DEF ThreadsOK
  <2> QED
    BY <1>1, <1>5, <1>7, <2>1, <2>2, <2>4 DEF ThreadsOK
<1>8. ASSUME NEW r \in Router, TokenBack(r) PROVE ThreadsOK'
  <2>1. UNCHANGED <<visited, lspReceivePort, port, mainStage>>
    BY <1>8 DEF TokenBack
  <2>2. /\ isStartOSPF' \in [Router -> BOOLEAN]
        /\ stage' \in [Router -> {"idle", "scan", "emit", "connect"}]
    BY <1>1, <1>8, Returning DEF Finish, ThreadsOK
  <2> QED
    BY <1>1, <1>5, <1>8, <2>1, <2>2 DEF ThreadsOK
<1> QED
  BY <1>2, <1>4, <1>6, <1>7, <1>8 DEF Next, Thread

-----------------------------------------------------------------------------
(* The inductive invariant.                                                *)
LEMMA InitInv == Init => Inv /\ Routes!Init
<1> SUFFICES ASSUME Init PROVE Inv /\ Routes!Init
  OBVIOUS
<1>1. Routes!Init
  BY SameOperators DEF Init, Routes!Init
<1>2. Routes!TypeOK /\ Closer
  BY <1>1, SameRouting
<1>3. Carried
  BY DEF Init, Carried, None
<1>4. <<>> \in Seq(Call) /\ ~Has(<<>>) /\ Once(<<>>)
  BY EmptySeq DEF Has, Once
<1>5. CallsOK /\ \A r \in Router : ~Has(calls[r]) /\ Once(calls[r])
  BY <1>4 DEF Init, CallsOK
<1>6. InTurn /\ Waiting /\ Connecting
  BY <1>5 DEF Init, InTurn, Waiting, Connecting
<1>7. WalksOK
  <2>1. 0 \in 0..Len(Order) /\ 0 \in 0..0
    BY Places
  <2> QED
    BY <2>1 DEF Init, WalksOK
<1>8. ThreadsOK
  <2>1. \A r \in Router : /\ 1 \in DOMAIN Ports[r] /\ 1 \in 1..Len(Ports[r]) + 1
                          /\ Ports[r][1] \in Neighbours(r) /\ Ports[r][1] \in Node
    BY Lines, NeighboursAreNodes
  <2> QED
    BY <2>1 DEF Init, ThreadsOK
<1> QED
  BY <1>1, <1>2, <1>3, <1>5, <1>6, <1>7, <1>8, TypeParts, CarriedTokens DEF Inv

LEMMA NextInv == Inv /\ [Next]_vars => Inv'
<1> SUFFICES ASSUME Inv, [Next]_vars PROVE Inv'
  OBVIOUS
<1>1. Routes!TypeOK' /\ Closer' /\ Carried' /\ Waiting'
  BY StepTables, StepCarried, StepWaiting
<1>2. CallsOK' /\ InTurn' /\ WalksOK' /\ Connecting' /\ ThreadsOK'
  BY StepTurn, StepThreads
<1>3. (Routes!TypeOK /\ Carried => 
         /\ buffer = [r \in Router |-> [m \in Neighbours(r) |-> buffer[r][m]]]
         /\ \A r \in Router : \A m \in Neighbours(r) : \A tok \in Range(buffer[r][m]) :
              IsTable(tok.table) /\ tok.visited \subseteq Router)'
  BY CarriedTokens, PTL
<1>4. TypeOK'
  BY <1>1, <1>2, <1>3, TypeParts, PTL
<1> QED
  BY <1>1, <1>2, <1>4 DEF Inv

LEMMA Invariance == Spec => []Inv
BY InitInv, NextInv, PTL DEF Spec

-----------------------------------------------------------------------------
(* The theorems.                                                           *)

(* Types hold in every reachable state: a loop stays on the router's ports *)
(* and a signal is connected only after its walk was posted.               *)
THEOREM TypeCorrect == Spec => []TypeOK
BY Invariance, PTL DEF Inv

LEMMA TokensCounted == Inv => OneToken
<1> SUFFICES ASSUME Inv PROVE OneToken
  OBVIOUS
<1> DEFINE Starters == {r \in Router : isStartOSPF[r]}
<1>1. Cardinality({}) = 0 /\ \A x : Cardinality({x}) = 1
  BY FS_EmptySet, FS_Singleton
<1>2. \A r, q \in Starters : r = q
  BY DEF Inv, InTurn
<1>3. CASE buffer = None /\ Starters = {}
  <2>1. Tokens = {}
    BY <1>3 DEF Tokens, None
  <2> QED
    BY <1>1, <1>3, <2>1 DEF OneToken
<1>4. CASE /\ Starters # {}
           /\ \E r \in Router : \E m \in Peers(r) : \E path \in SUBSET Router : InFlight(r, m, path)
  <2>1. PICK q \in Starters : Starters = {q}
    BY <1>2, <1>4
  <2>2. PICK r \in Router : \E m \in Peers(r) : \E path \in SUBSET Router : InFlight(r, m, path)
    BY <1>4
  <2>3. PICK m \in Peers(r) : \E path \in SUBSET Router : InFlight(r, m, path)
    BY <2>2
  <2>4. PICK path \in SUBSET Router : InFlight(r, m, path)
    BY <2>3
  <2> DEFINE tok == Token(table[m], path)
  <2>5. buffer = Only(r, m, tok) /\ m \in Neighbours(r)
    BY <2>4 DEF InFlight, Peers
  <2> HIDE DEF tok
  <2>6. \A x \in Router : \A n \in Neighbours(x) :
          DOMAIN buffer[x][n] = IF x = r /\ n = m THEN {1} ELSE {}
    BY <2>5 DEF Only
  <2>7. Tokens = {<<r, m, 1>>}
    BY <2>5, <2>6 DEF Tokens
  <2>8. Cardinality({<<r, m, 1>>}) = 1 /\ Cardinality({q}) = 1
    BY <1>1, Zenon
  <2>9. Cardinality(Tokens) = 1 /\ Cardinality(Starters) = 1
    BY <2>1, <2>7, <2>8
  <2> QED
    BY <2>9 DEF OneToken
<1> QED
  BY <1>3, <1>4 DEF Inv, Carried

(* Never two tokens, and one exactly while a router is the start of a walk.*)
THEOREM OneWalk == Spec => []OneToken
BY Invariance, TokensCounted, PTL

(* The token is awaited, at a port it can come back by, by every router it *)
(* was sent on by and by the one that started it.                          *)
THEOREM AlwaysAwaited == Spec => []TokenAwaited
<1>1. Inv => TokenAwaited
  BY Lines DEF Inv, Waiting, TokenAwaited, StarterWaits, WaitsOnAPeer, Peers
<1> QED
  BY <1>1, Invariance, PTL

(* OSPF implements the abstract routing specification: a token that comes  *)
(* back brings exactly the table its sender has.                           *)
THEOREM Refinement == Spec => RefinesRouting
<1>1. Init => Routes!Init
  BY InitInv
<1>2. Inv /\ [Next]_vars => [Routes!Next]_Routes!vars
  BY StepTables DEF Routes!Next, Routes!vars, tables
<1> QED
  BY <1>1, <1>2, Invariance, PTL DEF Spec, RefinesRouting, Routes!Spec

(* So it never forwards in a loop either, at any moment of the walk.       *)
THEOREM NoLoop == Spec => []Routes!NoForwardingLoop
<1>1. Inv => Routes!NoForwardingLoop
  BY NoWayRound, SameRouting, SameOperators DEF Inv, TypeOK, Routes!NoForwardingLoop
<1> QED
  BY <1>1, Invariance, PTL
=============================================================================
