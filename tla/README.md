# A TLA+ development of the course's network programs

The repository holds three programs. `src/A3` simulates two autonomous systems
(AS) of routers that run RIP or OSPF inside, eBGP between and iBGP behind them,
and carry packets between PCs. `src/A4` holds three socket programs: a
handshake (Part1), a sender with TCP-like congestion control (Part2) and a
relay over UDP (Part3). `src/A1` is a voice chat. The concurrency is in A3,
where every node runs in a thread of its own and shares its ports' buffers with
its neighbours, so A3 is where most of this development is; the three parts of
A4 and A1 have a module each.

## The system

| part | state | operations | talks to |
|---|---|---|---|
| A3 `port`, `node` | a buffer of strings, the far port | `send` pushes to the far buffer, `receive` pops | neighbouring threads, with no lock |
| A3 RIP (`router.cpp` 42-48, 196-260) | vector, forwarding table, counters of convergence | `startRIP`, `updateRIP`, `sendRip`, `turnOffProtocols` | peers' buffers; `RIPFinished` to `main` |
| A3 OSPF (`router.cpp` 33-40, 64-92, 116-194) | link-state table, path of the token, index of the port it left by | `startOSPF`, `updateOSPF`, `sendLsp`, `lspBackTrack`, `handleOSPFFinish` | peers' buffers; `OSPFFinished` starts the next router |
| A3 inter-AS (`router.cpp` 103-114, 315-385) | `iseBGP`, forwarding table | `startEBGP`, `startIBGP`, `updateForwarding`, `forward` | routers of the other AS, PCs |
| A3 `pc` | one port | `startPCs`, `update` | its router |
| A3 `main.cpp` | two finished flags | timers that queue slot calls: every 1 ms `update`, then the phases | all nodes, by queued calls |
| A4 Part1 | `cout_mutex`, held over two `recv`s | three-way handshake and an echo | one server thread per client, TCP |
| A4 Part2 | packet ids, the window, the server's last id in order | `send_data`, `onPacketAcked`, `onTimeout`, `handle_client` | TCP |
| A4 Part3 | a buffer per program, deques, `send_base`, `nextseqnum` | a sending and a receiving thread in each of three programs | UDP |
| A1 | two queues of sound buffers, `isMute`, the player's timers | record, send, receive, play, Mute, close | one Qt event loop per program, two TCP connections |

What is hard here, and what each part must get right in spite of it:

- **RIP**: vectors are merged ticks after they were sent, by threads that lag
  behind one another, out of buffers whose pushes and pops race. At no time may
  forwarding loop, and no cost may be too low; convergence is a heuristic (five
  quiet ticks of one router) that has to end, and to end after the fact.
- **OSPF**: exactly one token, a waiting router at every point of its path, and
  the walk and the chain of walks coming to an end.
- **inter-AS**: `main` moves from phase to phase by timers, whatever the nodes
  have got done. Packets may neither loop, nor reach a wrong PC, nor be lost
  once the set-up is over.
- **Part1**: `decode` throws on an empty `recv`, in a thread of the server, and
  the mutex is kept across `recv`s: a client must neither end the server nor
  hold up the others unless it really is gone or stopped in mid-conversation.
- **Part2**: loop counter, packet id and count of losses are set back together
  at every duplicate; they must agree with what is really missing.
- **Part3**: the window counts answers and nothing is sent again, while two
  threads of a program write to one buffer.
- **A1**: samples are raw bytes in a stream cut into lines by newlines, and the
  read of a line blocks the event loop that also sends, plays and records.

`PROJECT.json` lists every such hazard at its line with the properties that
watch it.

## The modules

`Topology` gives the links (`Ports[r]`, the far ends of r's ports in the order
of `addNewPort`) and the reference definition of distance. A port is named by
the node at its far end; `Topology.txt` links two nodes at most once.

`RouteTable` is the pure part of a router: costs and ports as partial functions
on nodes, and the merge that `updateDistanceVector` and `updateLsp` share. The
encodings `rip::incode`/`decode` and `lsp::incode`/`decode` write and read back
the same table of integers, so a message in a buffer is that table; where a
table is read by the wrong decoder (`InterAS`) the models say what comes out.

`Routing` is the abstract specification of both protocols: a router only ever
improves its own tables, and a new route has a cost strictly above the current
cost of the peer it goes to. Nothing is said of packets, threads or rounds.

`Rip` is RIP as it runs. State: the fields of `router.h`, the ports' buffers,
the queue of slot calls of every thread and the place in the code where the
thread is (`stage`, `port`). One action is one port access of a loop, so that
two threads interleave between two ports: `BeginUpdateRIP`, `Receive` and
`Conclude` are `updateRIP`, `Send` is a turn of `sendRip`, `Drop` one of
`updateForwarding`; `PostUpdate`, `PostStart` and `PostTurnOff` are `main`'s
timers. A push that overlaps a pop of the same buffer may be lost, or the
popped packet may stay (`Pop`, `Push`).

`Ospf` is the token walk. A token carries the table and the visited ids.
`StartOSPF`, `BeginScan`/`Scan` (the loop over all ports, one port a step),
`StillWaiting` and `TokenBack` are `startOSPF` and the two halves of
`updateOSPF`; `Emit` and `Connect` are `runOSPFOnNodesSequentially` in the
thread that emitted the signal, with the gap between its queued call and its
`connect`. The merge and the sending after it are one step: no other thread
sees the tables, and the token is in one buffer only.

`InterAS` starts where the protocols have filled the tables (`InAS`, the hops to
every node an AS reaches by itself, and any shortest next hop) and follows turn-off, eBGP, iBGP and the PCs' packets, each
phase a call in every node's queue. That the tables are complete and converged
is a premise, not a result: `RipEarlyFinish` and `OspfLastPort` show that the
program can end a protocol without it, and what `InterAS` says of losses and
arrivals (`LostOnlyUnsettled`, `AllArriveWhenCalm`) then does not apply. The
pushes of `startEBGP` to the ports of one router are one step (`PushAll`). The
state keeps a packet's path, as the
code does, and remembers what was delivered and lost.

`Congestion` is Part2: the client's loop, `CongestionControl` as a record, the
server's handler, and the stream between them, which a `recv` may cut anywhere
between messages. `decode` returns a pointer into a string that is gone
(`Packet.cpp:29`), so a comparison of its data may fail on the right data
(`Reads`).

`Transfer` is what Part2's server promises, with no window, loss or stream:
packets accepted in order of ids, once each, and what counts as acknowledged
was accepted. `Congestion` is shown to implement it.

`Handshake` is Part1. A client program runs its clients in a row; a handler is
`Accept`, `ReceiveSYN` (the `recv` before the mutex), `Greet` (the mutex and
the comparison), `ReceiveACK` and `ReceiveData`, the last two under the mutex.
A `recv` may return the ACK and the message as one, a comparison may fail as in
Part2, a program may be interrupted (`Kill`) or stopped for good (`Stall`); an
end of stream ends the whole program, client or server. `Conversations` is what
the server promises: one client at a time, in order, never again.

`Voice` is A1, both programs: `Begin`, `Connect` and `Accept` are `main`'s
constructors up to `exec`, `Speak` and `StopRecording` the recorder,
`StartSending` and `SendFails` the sender's timer, `Start`, `ReadSome` and
`PushData` the receiver's blocking read of one line, `Run` and `Idle` the
player, `ToggleMuteState` and `Quit` the window. A recording is a few bytes, each
ordinary, a newline or a zero: the three the code treats differently. `Line` is
what a direction promises: samples heard are samples said, once, in order.

`Relay` is Part3: per program a socket, the shared `buffer`, where its two
threads are (`sending`, `receiving`) and its deque. Writing a datagram to
`buffer` and using it are separate steps.

`MCRip`, `MCOspf`, `MCInterAS`, `MCCongestion`, `MCRelay`, `MCHandshake` and
`MCVoice` give them small instances. The proofs are in `RouteTableProofs`,
`RipProofs` (with those of the abstract `Routing`), `OspfProofs`, `InterASProofs`,
`HandshakeProofs`, `CongestionProofs`, `RelayProofs` and `VoiceProofs`.
A definition marked "Mutant" is a plausible bug; no other definition uses it,
and it stands beside the definition it would replace.

## The runs

| run | instance and bounds | what it shows |
|---|---|---|
| `RipPair` | two routers and a PC; threads up to two ticks behind, one racing access, threshold 2 | `InFlight`, `OffStaysOff`, `BacklogBounded`; and `FinishedOrStarved` under fairness |
| `RipLine` | three routers in a line, threshold 1, lag one | `Rip` implements `Routing`; no loop, no cost too low |
| `RipEarlyFinish` | two routers, a PC behind the one that decides; threshold 5, its thread up to six ticks behind | violation of `CompleteWhenFinished` |
| `OspfKite` | a triangle with a leaf and a foreign router, and a router with no peer | one token, complete tables, `Ospf` implements `Routing`; it ends unless raced |
| `OspfRace` | a line of three | violation of `OspfCompletes` |
| `OspfLastPort` | a star whose centre has a peer on its last port | violation of `CompleteWhenFinished` |
| `InterASChain` | p - a - b \| c - d - q, RIP and OSPF, one packet | no loop, no misdelivery, losses only where the set-up is not over |
| `InterASArrive` | the same with OSPF in both | a packet sent after the set-up arrives |
| `Congestion` | the program's numbers: 40 packets, losses of 10 and 23, 101 turns, ssthresh 64 | the counters agree with what is missing; `Congestion` implements `Transfer`; an undisturbed transfer ends |
| `Relay` | window 3, 5 packets, two losses, two races | what losses and races cost, in sent packets and in the window, and that the rest comes through |
| `Handshake` | three clients in two programs, one interrupted and one stopped | `Handshake` implements `Conversations`; only an interrupted client ends the server; all others are served, unless behind a greeted client that stopped |
| `Voice` | two users, of whom one says two samples and has one click on Mute; one window closed | `Voice` implements `Line`; what may be lost; no mutual blocking; start, progress and end |

**Bounds.** `MaxQueue` is how many `update` calls may wait for a thread: it
bounds the lag between threads, which nothing in the code does. With one, a
thread is in the middle of a call while the next tick is posted and its
neighbours go on to it; in `RipEarlyFinish` the thread of the deciding router may
fall six ticks behind, as one descheduled for six milliseconds does. `Threshold` is 5 in the
code; smaller values reach the end of RIP in fewer ticks and make it come
sooner with respect to everything else. `MaxRaces` and `MaxLost` are small
numbers of accidents; the window of `Relay` is smaller than 4 so that the
accidents can exhaust more of it. `Wrap`, the width of `uint32_t`, is 2^20 for
TLC, whose integers have 32 bits; the windows reached stay below 200, so no
value between is met.

In `Handshake` one program runs two clients and one runs a third: a client
waits for its predecessor in the same program and for the mutex held by one of
the other, and a program can end with a client still to come. One interruption
and one stop can meet in every order. In `Voice` `MaxTicks` is how many lines
the sender may write between two reads: the code's timers make it two or so,
and one is the tightest case for `NeverBothBlocked`, which needs a line for
every read. Two samples are enough to be in two recordings, in one, or with an
empty line between them; `TwoSounds` lets the first be a newline and the second
a zero. With two samples for each user or `MaxTicks = 2` the run outgrows five
minutes.

**Deadlock.** Rip and Ospf never stop: the timer ticks for ever. `Congestion`,
`Relay`, `Handshake` and `Voice` stop, by the end of the program or with
nothing left to do; `InterAS` stops when a bad decode ends the program.

**Fairness.** Weak fairness of each thread's next step (an event loop of Qt, or
a `std::thread`, that the system keeps scheduling) and of `main`'s timers. In
`Rip` there is none for `PostTurnOff`, which also waits for the other AS; in
`Relay` none against losses, which are bounded instead. `RipPair` and
`OspfKite` say how the protocols may fail to end even so: all peers of
`nodes[0]` finished and silent while it still counts; a token taken twice in
one loop; a walk over before its signal is connected.

`Handshake` has weak fairness of each client and each handler, none of `Kill`
and `Stall`. In `Voice` `Run` and `Idle` are strongly fair: they are disabled
while their loop is in a read, and Qt's loop serves all timers and signals that
are due before it comes to the next read. Nothing is asked of the user, so
nobody needs to begin, speak or close; `Lives` says what follows when they do.

**The three violations** each contradict what `src/A3/README.md:48` says of the
two signals ("Signals to indicate the completion of OSPF and RIP protocols"):
RIP's comes while routers still lack routes; OSPF's may never come, because
`updateOSPF` goes on scanning after it has taken the token and takes it again
as a fresh one; and OSPF's may come with nodes unknown where a router that
relays a token skips its last port (`router.cpp:186`). The last needs a router
whose last port leads to a peer with no other way in, like the centre of the
run's star; in the meshed `Topology.txt` most routers have several ways in.

## What is proved

Everything below holds for every value of the constants that the modules' named
assumptions admit:

- `TopologyAssumption`: links are symmetric, join two nodes at most once, and
  every router has a port; the bounds are natural numbers; the chain of OSPF
  walks has a router in it (`main.cpp` starts it with a constant, positive
  number of routers); a client belongs to one program.
- `InterASAssumption` and `BorderAssumption`: a PC has one router; the edge
  routers are those with a link into the other AS, none of them has a PC, every
  AS has one, and an AS reaches all that is its own without leaving it, as in
  `Topology.txt`.
- `NumbersAssumption` of `Congestion`, what the program's numbers (40 packets,
  losses of 10 and 23, 101 turns) have in common: finitely many packets are
  ignored, none before the window has grown, any two at least four ids apart, so
  that one loss is made good before the next; and the server has a turn for
  every packet, three more for a loss and one for a failed comparison.

Each safety invariant, action property and refinement that a run checks is
proved, except those listed under "Only model-checked".

**Routing.** `RouteTableProofs` has the lemmas about the merge, about buffers
and about ways: a merge keeps tables well formed and leaves every entry as it
was or one more than the packet's and less than before; a pop leaves older
packets and a push adds one; a way of a peer is one of the router's own with a
link more. `RoutingInvariant` (types, no route to oneself, `NextHopCloser`) and
`RoutingLoopFree` of the abstract `Routing` are theorems of `RipProofs`.
`NextHopCloser` is preserved because a new entry is strictly above the peer's
current cost and costs only fall; no loop follows by taking the router of the
group with the least cost, which must forward out of it.

**RIP** (`RipProofs`).
- `TypeCorrect`, `PacketsAreOld`, `Refinement`, `EveryHopCloser`, `NoLoop`. The
  refinement needs more than types: the vector that a step merges was sent
  earlier, so its sender's table has changed. `InFlight` bridges the gap: the
  sender still has every route of a packet in flight, at no higher cost, so a
  cost above the packet's is above the sender's current cost, which is what
  `Routing` asks. It survives a race because a lost push removes a packet and a
  repeated pop keeps an old one. The last two are `Routing`'s theorems carried
  over the refinement.
- `CostsAreWays`. Inductive only together with the same of every packet, seen
  from the router that sent it (`PacketsSound`).
- `StaysOff`. `OffStaysOff` alone is not inductive: a `startProtocol` still in
  the queue would set `isRIPstart` back. `OffLast` says that main's one start is
  queued before the turn-off in every queue, so none is left behind it.
- `BacklogStaysBounded`. A length is no invariant bound by itself, since nothing
  in a state with a full buffer forbids one more push. `Backlog` adds what the
  sender may still push (its waiting ticks, its start, the turn it is in) and
  what the owner will still take: a tick posted adds one to both, a turn of a
  loop takes one from both the buffer and what is to come, and only a race makes
  a difference, once.

**OSPF** (`OspfProofs`): `TypeCorrect`, `OneWalk`, `AlwaysAwaited`,
`Refinement`, `NoLoop`. The invariant says where the token is (in no buffer, or
in exactly one, carrying the very table its sender has: only who takes the token
changes its table), that a router whose token is out
waits on a peer's port, and whose turn of the chain of walks it is (`InTurn`,
`Connecting`), without which a second walk could start under the first.

**Inter-AS** (`InterASProofs`): `TypeCorrect`, `OwnPacketsOnly`,
`CrashesOnlyInOSPF`, `LossesUnsettled`, `LoopFreeOSPF`. First, lemmas that say
what a step can do to a buffer, to a router's tables and to a queue of calls;
the invariants are carried over all actions by these.
- `PCsHearPackets` says that what waits for a PC is a packet for it: only edge
  routers do eBGP, and they have no PC, and a forwarding table sends to a PC only
  what is its own. That gives `HandedOnlyOwn` and `CrashOnlyInOSPF`.
- `LostOnlyUnsettled` needs that turn-off, eBGP and iBGP take effect in `main`'s
  order in every queue although `main` waits for nobody (`SetUp`), from the complete AS
  tables of `Init`: an edge router
  turns off, and so has its AS in its table, before it sends that table; it does
  eBGP before iBGP, which would otherwise overwrite its routes; and what its
  neighbours send it is still to be sent, waits in the port, or is in its
  forwarding table.
- `NoPacketLoops` is not inductive: nothing in it relates the path of a packet
  to where it will go next. `PathsDescend` says that every router on the path is
  above the one the packet waits at, by a measure (`Down`): outside the packet's
  home AS the hops to the nearest edge router, inside it the hops to the PC.
  `RoutesDown` says that every route goes down that measure, `SentAsFound` that
  the tables eBGP sends and iBGP chooses by are still those OSPF computed.
  `LoopFreeOSPF` is therefore stated for OSPF in both ASes. Where an AS runs RIP,
  `SentAsFound` fails: a table that comes before the receiver's turn-off is
  merged by RIP and sent on by eBGP, so that a router may learn routes to its own
  AS through the other. There `NoPacketLoops` is only checked, on the chain.

**Part1** (`HandshakeProofs`): `TypeCorrect`, `GoesDownOnlyByKill`,
`Refinement` of `Conversations`. `Owned` (whoever converses holds the mutex)
gives the refinement. That the server goes down only by an interruption needs
the replies counted (`Replied`: a client that is done has been sent its two) and
the clients of a program in their order (`InTurn`), so that a program that has
ended by itself leaves nobody in mid-conversation.

**Part2** (`CongestionProofs`): `TypeCorrect`, `Refinement` of `Transfer`,
`LossesCounted`, `WindowBounded` and `TurnsLeft`. For the first two the
invariant says where the ids in the two streams come from: a packet under way
has been sent, and the answers under way ascend from the last one the client saw
to the last one accepted. The other three relate the client's counters to the
server's and need to know how far the transfer is (`Progress`): after the
handshake the two programs take turns until a comparison fails, with at most one
message under way, and the client is in one of three phases. In `Steady` nothing
is missing; in `Missing` a packet was ignored and one or two duplicates have been
counted; in `Mending` the third has sent the loop back, and the three packets
from the ignored one on are sent again. Each phase says what `losses`, the
window, the packets sent and the server's turns are, in terms of the last packet
accepted and the number of packets ignored so far. A loss may not meet a window
of one (half of it is nothing, and leaving recovery would then wrap), which is
why `Steady` remembers that the window is one only at the start and right after
a repair: the assumption that losses lie four ids apart is used there.

**Part3** (`RelayProofs`): `TypeCorrect`, `EveryPacketAccounted`,
`RepeatsBounded`, `OrderKept`. `Accounted` is about sums over sockets, deques and
threads' hands that no step can be shown to keep unless the datagrams are
counted by what becomes of them; so the invariant counts those a program will
drop as its own (each the work of a race), those `HostB` will still see and
those that will still move the window. Without accidents every place holds the
numbers that follow those of the places ahead of it (`InPlace`), which is the
order.

**A1** (`VoiceProofs`): `TypeCorrect`, `NeverDeadlocked`, `NothingLost`,
`Refinement` of `Line`. Between recorder and ear a sample goes through seven
places; each holds its samples in order, a nearer place older ones, and an
action moves the oldest of one place into the next; only `PushData` may drop
some, and adds them to `bunched` when it does. With all of that (`Pipes`),
order and completeness are inductive; the blocking needs only that each program
has sent a line since its last read (`SentFirst`, `LineDue`).

Each inductive invariant was checked by TLC on the run's instance before it was
proved.

**Only model-checked**, and why:

- all liveness (`FinishedOrStarved`, `FinishesUnlessRaced`, `AllArriveWhenCalm`,
  `Transfers`, `ComesThrough`, `Served`, `Lives`): it rests on fairness and
  `ENABLED`, which are out of the prover's reach;
- `CompleteWhenFinished` of `Ospf`: it is about the recursive `Within`, needs
  induction over data, and is false for some topologies (`OspfLastPort`), in `Rip`
  for some lags (`RipEarlyFinish`);
- `NoPacketLoops` of `InterAS` where an AS runs RIP (see above).

## What else the models showed

Two things in A1 differ from its README and have no run of their own, since the
models state them directly:

- `receive::Start` (`receive.cpp:20`) tests only the first byte of what
  `read_until` returned, and that may hold more than a line. Where an empty line
  is still unread, the samples behind it are dropped with it, though
  `src/A1/README.md:91` has everything that is not empty added to the queue.
  `NoneLostUnlessBunched` puts the loss on the read: the samples of a read that
  goes beyond its line, or holds a newline or a zero as a sample, may be lost
  (`bunched` collects them), those of all other reads, before and after, may not.
- Mute only flips `isMute` (`audiorec.cpp:55`), which `run` and `stopRecording`
  look at: up to 2.5 s more are recorded and sent. `src/A1/README.md:38`
  describes it as whether the recording is muted.

And one that a reader of `audioplay.cpp` could miss: `finished` is emitted twice
at the end of a buffer (lines 34 and 56), so each buffer played leaves one more
timer behind (`Idle`, `polls`). `Lives` needs one to be left; that their number
grows with every buffer is in the model, and no property bounds it.

## What is not modelled

- Of the race on a port's buffer, the outcomes that end the program (a vector
  read while it is reallocated) and those that corrupt a string. In `Ospf` a
  buffer holds one token and its push and pop race only if the token is in two
  places, and in `InterAS` the race is not modelled.
- `increaseTimeInBuffer`, which rewrites waiting packets in place to count
  cycles; the count is only printed, and what its race with a push can do to a
  vector beyond losing or repeating a packet has no state to check.
- In `InterAS` two packets and two exits to choose from: with the four routers
  of the chain the run is at its five minutes.
- In `Relay` a copy torn between two datagrams, the eight bytes that
  `serializePacket` writes past its buffer, and an inconsistent deque. The
  payload is its sequence number.
- In `Congestion` a second client of one server (it waits for the mutex until
  the server ends with the first, see `RoundsSuffice`) and a short read inside a
  message: 1024 bytes hold many messages, and a loopback segment is not split.
  The same in `Handshake`, and the failures of `socket`, `bind` and `listen`.
- In `Voice` the devices, Qt Multimedia and the times of the timers, but for
  their order.
- Input, printing and start-up of A3, and the drawing of packets (which PC
  sends to which is a constant here): console input and output, with no state
  that the protocols read.

## Plan

1. Done: all components modelled; the safety of all of them proved, but for
   loops of packets where an AS runs RIP.
2. `InterAS` with two exits per AS and two packets, on an instance that fits the
   run's five minutes, and the race of `increaseTimeInBuffer` with a push.
3. The condition on a topology, short of `OspfLastPort`'s star, under which
   `CompleteWhenFinished` of `Ospf` holds, to be proved with distances given as
   a function instead of the recursive `Within`.
