------------------------------- MODULE Voice --------------------------------
(***************************************************************************)
(* src/A1: two programs that record, send, receive and play voice.  Each   *)
(* is one event loop: the recorder fills packetBuffOut, a timer sends one  *)
(* buffer of it (or nothing) and a newline, another timer reads up to a    *)
(* newline, blocking the loop, into packetBuffIn, and the player empties   *)
(* that.  A sample is a byte; the devices and Qt's timers are external.    *)
(***************************************************************************)
EXTENDS Naturals, SequencesExt

CONSTANTS User1, User2,
          Sounds,    \* Sounds[n]: what the n-th sample of a user may be
          MaxSaid,   \* bound: MaxSaid[u] samples recorded by u
          MaxTicks,  \* bound: 50 ms ticks between two reads
          MaxMutes,  \* bound: MaxMutes[u] clicks on Mute
          MaxQuits   \* bound: windows closed

User == {User1, User2}

Ordinary == "ordinary"   Ten == "10"   Zero == "0"
Sound == {Ordinary, Ten, Zero}

ASSUME VoiceAssumption ==
  /\ User1 # User2 /\ Sounds \in Seq(SUBSET Sound)
  /\ MaxSaid \in [User -> 0..Len(Sounds)] /\ MaxTicks \in Nat \ {0}
  /\ MaxMutes \in [User -> Nat] /\ MaxQuits \in Nat

VARIABLES
  stage,        \* how far each program's main is
  connected,    \* its send has connected
  gaveUp,       \* or has failed to, a hundred times
  isMute, recording,
  buff,         \* what the recorder has, since its last run
  out,          \* packetBuffOut
  ticks,        \* startSending calls since the last Start
  wire,         \* what its send has written and the peer has not read
  data,         \* what its read_until has read
  in,           \* packetBuffIn
  polls,        \* the player's pending timers
  playing,      \* the buffer the player is at, if any
  said, heard,  \* of its own samples: how many recorded, which ones played
                \* (and, as 0, the newlines played with them)
  bunched,      \* the samples of those of its reads that have gone beyond the
                \* end of a line, or held a newline or a zero as a sample
  mutes, quits

recorder == <<isMute, recording, buff>>
queues   == <<out, in>>
link     == <<ticks, wire, data, bunched>>
player   == <<polls, playing>>
speech   == <<said, heard>>
setup    == <<connected, gaveUp>>
vars     == <<stage, setup, recorder, queues, link, player, speech, mutes, quits>>

Peer(u) == IF u = User1 THEN User2 ELSE User1

(* A byte on its way: the newline that ends a line has no number.          *)
Newline      == [number |-> 0, sound |-> Ten]
Sample       == [number : Nat, sound : Sound]
IsNewline(b) == b.sound = Ten

Numbers(bytes) == [k \in DOMAIN bytes |-> bytes[k].number]

Init ==
  /\ stage = [u \in User |-> "off"]
  /\ connected = [u \in User |-> FALSE] /\ gaveUp = [u \in User |-> FALSE]
  /\ isMute = [u \in User |-> FALSE] /\ recording = [u \in User |-> FALSE]
  /\ buff = [u \in User |-> <<>>] /\ out = [u \in User |-> <<>>]
  /\ ticks = [u \in User |-> 0] /\ wire = [u \in User |-> <<>>]
  /\ data = [u \in User |-> <<>>] /\ bunched = [u \in User |-> {}]
  /\ in = [u \in User |-> <<>>]
  /\ polls = [u \in User |-> 0] /\ playing = [u \in User |-> <<>>]
  /\ said = [u \in User |-> 0] /\ heard = [u \in User |-> <<>>]
  /\ mutes = [u \in User |-> 0] /\ quits = 0

-----------------------------------------------------------------------------
(* main, up to a.exec(). *)

(* Mutant: both users construct their receiver first. *)
SendsFirstNever(u) == FALSE

SendsFirst(u) == u = User1

Connecting(u) == stage[u] = IF SendsFirst(u) THEN "first" ELSE "second"
Accepting(u)  == stage[u] = IF SendsFirst(u) THEN "second" ELSE "first"

(* The acceptor is open from the receiver's construction on. *)
Listening(u) ==
  \/ Accepting(u) \/ stage[u] \in {"loop", "reading"}
  \/ ~SendsFirst(u) /\ stage[u] = "second"

(* The next constructor or, after both, the first run of recorder and      *)
(* player, and the timers.                                                 *)
Advance(u) ==
  IF stage[u] = "first"
    THEN stage' = [stage EXCEPT ![u] = "second"] /\ UNCHANGED <<recording, polls>>
    ELSE /\ stage' = [stage EXCEPT ![u] = "loop"]
         /\ recording' = [recording EXCEPT ![u] = ~isMute[u]]
         /\ polls' = [polls EXCEPT ![u] = 1]

Begin(u) ==
  /\ stage[u] = "off"
  /\ stage' = [stage EXCEPT ![u] = "first"]
  /\ UNCHANGED <<setup, recorder, queues, link, player, speech, mutes, quits>>

(* send's constructor: a connection, or a hundred seconds without the      *)
(* peer's program, after which it goes on without.                         *)
Connect(u) ==
  /\ Connecting(u)
  /\ \/ Listening(Peer(u)) /\ connected' = [connected EXCEPT ![u] = TRUE] /\ UNCHANGED gaveUp
     \/ stage[Peer(u)] = "off" /\ gaveUp' = [gaveUp EXCEPT ![u] = TRUE] /\ UNCHANGED connected
  /\ Advance(u)
  /\ UNCHANGED <<isMute, buff, queues, link, playing, speech, mutes, quits>>

(* receive's constructor. *)
Accept(u) ==
  /\ Accepting(u) /\ connected[Peer(u)]
  /\ Advance(u)
  /\ UNCHANGED <<setup, isMute, buff, queues, link, playing, speech, mutes, quits>>

-----------------------------------------------------------------------------
(* The recorder. *)

InLoop(u) == stage[u] = "loop"

Speak(u) ==
  /\ InLoop(u) /\ recording[u] /\ said[u] < MaxSaid[u]
  /\ said' = [said EXCEPT ![u] = @ + 1]
  /\ \E sound \in Sounds[said'[u]] :
       buff' = [buff EXCEPT ![u] = Append(@, [number |-> said'[u], sound |-> sound])]
  /\ UNCHANGED <<stage, setup, isMute, recording, queues, link, player, heard, mutes, quits>>

(* stopRecording, every 2.5 s, by when startSending has emptied the queue; *)
(* deleting the source stops it, and finished calls run.                   *)
StopRecording(u) ==
  /\ InLoop(u) /\ out[u] = <<>>
  /\ out' = [out EXCEPT ![u] = Append(@, buff[u])]
  /\ buff' = [buff EXCEPT ![u] = <<>>]
  /\ recording' = [recording EXCEPT ![u] = ~isMute[u]]
  /\ UNCHANGED <<stage, setup, isMute, in, link, player, speech, mutes, quits>>

ToggleMuteState(u) ==
  /\ InLoop(u) /\ mutes[u] < MaxMutes[u]
  /\ mutes' = [mutes EXCEPT ![u] = @ + 1]
  /\ isMute' = [isMute EXCEPT ![u] = ~@]
  /\ UNCHANGED <<stage, setup, recording, buff, queues, link, player, speech, quits>>

-----------------------------------------------------------------------------
(* The connection. *)

(* Mutant: nothing is sent while there is nothing to send. *)
StartSendingSounds(u) ==
  /\ InLoop(u) /\ ticks[u] < MaxTicks
  /\ ticks' = [ticks EXCEPT ![u] = @ + 1]
  /\ IF out[u] = <<>>
       THEN UNCHANGED <<wire, out>>
       ELSE /\ wire' = [wire EXCEPT ![u] = @ \o Append(Head(out[u]), Newline)]
            /\ out' = [out EXCEPT ![u] = Tail(@)]
  /\ UNCHANGED <<stage, setup, recorder, in, data, bunched, player, speech, mutes, quits>>

StartSending(u) ==
  /\ InLoop(u) /\ ticks[u] < MaxTicks
  /\ ticks' = [ticks EXCEPT ![u] = @ + 1]
  /\ IF out[u] = <<>>
       THEN wire' = [wire EXCEPT ![u] = Append(@, Newline)] /\ UNCHANGED out
       ELSE /\ wire' = [wire EXCEPT ![u] = @ \o Append(Head(out[u]), Newline)]
            /\ out' = [out EXCEPT ![u] = Tail(@)]
  /\ UNCHANGED <<stage, setup, recorder, in, data, bunched, player, speech, mutes, quits>>

(* Writing to a connection the peer has left throws. *)
SendFails(u) ==
  /\ InLoop(u) /\ stage[Peer(u)] = "ended"
  /\ stage' = [stage EXCEPT ![u] = "ended"]
  /\ UNCHANGED <<setup, recorder, queues, link, player, speech, mutes, quits>>

(* Mutant: the first read need not wait for a tick of the sender. *)
StartAtOnce(u) ==
  /\ InLoop(u)
  /\ stage' = [stage EXCEPT ![u] = "reading"]
  /\ UNCHANGED <<setup, recorder, queues, link, player, speech, mutes, quits>>

(* receive::Start, 100 ms after the last one: the 50 ms timer has fired.   *)
Start(u) ==
  /\ InLoop(u) /\ ticks[u] > 0
  /\ stage' = [stage EXCEPT ![u] = "reading"]
  /\ UNCHANGED <<setup, recorder, queues, link, player, speech, mutes, quits>>

Newlines(bytes) == {k \in DOMAIN bytes : IsNewline(bytes[k])}

Mangled(bytes) ==
  \E k \in DOMAIN bytes : IF bytes[k] = Newline THEN k < Len(bytes)
                                                ELSE bytes[k].sound # Ordinary

Bunched(bytes) == IF Mangled(bytes) THEN Range(Numbers(bytes)) \ {0} ELSE {}

(* Mutant: the end of the stream is not looked at. *)
ReadSomeForEver(u) ==
  LET w == wire[Peer(u)] IN
  /\ stage[u] = "reading" /\ Newlines(data[u]) = {}
  /\ \E n \in DOMAIN w :
       /\ n = Len(w) \/ \E k \in 1..n : w[k].number # 0
       /\ data' = [data EXCEPT ![u] = @ \o SubSeq(w, 1, n)]
       /\ wire' = [wire EXCEPT ![Peer(u)] = SubSeq(@, n + 1, Len(@))]
  /\ UNCHANGED <<stage, setup, recorder, queues, ticks, bunched, player, speech, mutes, quits>>

(* One read_some of read_until: all there is, or the 512 bytes there is    *)
(* room for, which the few empty lines under way do not fill.  At the end  *)
(* of the stream it throws.                                                *)
ReadSome(u) ==
  LET w == wire[Peer(u)] IN
  /\ stage[u] = "reading" /\ Newlines(data[u]) = {}
  /\ \/ \E n \in DOMAIN w :
          /\ n = Len(w) \/ \E k \in 1..n : w[k].number # 0
          /\ data' = [data EXCEPT ![u] = @ \o SubSeq(w, 1, n)]
          /\ wire' = [wire EXCEPT ![Peer(u)] = SubSeq(@, n + 1, Len(@))]
          /\ UNCHANGED stage
     \/ /\ w = <<>> /\ stage[Peer(u)] = "ended"
        /\ stage' = [stage EXCEPT ![u] = "ended"]
        /\ UNCHANGED <<wire, data>>
  /\ UNCHANGED <<setup, recorder, queues, ticks, bunched, player, speech, mutes, quits>>

(* newBuff->write(data.c_str()) stops at the first zero. *)
CString(bytes) ==
  LET zero == SelectInSeq(bytes, LAMBDA b : b.sound = Zero)
  IN  IF zero = 0 THEN bytes ELSE SubSeq(bytes, 1, zero - 1)

(* Mutant: the string is kept and never cleared. *)
DoneKept(u) ==
  /\ stage[u] = "reading" /\ Newlines(data[u]) # {}
  /\ stage' = [stage EXCEPT ![u] = "loop"]
  /\ ticks' = [ticks EXCEPT ![u] = 0]
  /\ bunched' = [bunched EXCEPT ![u] = @ \cup Bunched(data[u])]
  /\ UNCHANGED <<setup, recorder, out, wire, data, player, speech, mutes, quits>>

Done(u) ==
  /\ stage[u] = "reading" /\ Newlines(data[u]) # {}
  /\ stage' = [stage EXCEPT ![u] = "loop"]
  /\ data' = [data EXCEPT ![u] = <<>>]
  /\ ticks' = [ticks EXCEPT ![u] = 0]
  /\ bunched' = [bunched EXCEPT ![u] = @ \cup Bunched(data[u])]
  /\ UNCHANGED <<setup, recorder, out, wire, player, speech, mutes, quits>>

(* Mutant: a line is taken to end in two bytes. *)
PushDataCRLF(u) ==
  /\ Done(u)
  /\ IF IsNewline(Head(data[u]))
       THEN UNCHANGED in
       ELSE in' = [in EXCEPT ![u] = Append(@, CString(Front(Front(data[u]))))]

(* The rest of Start: what was read, if it does not begin with a newline,  *)
(* goes to packetBuffIn without its last byte, whichever that is.          *)
PushData(u) ==
  /\ Done(u)
  /\ IF IsNewline(Head(data[u]))
       THEN UNCHANGED in
       ELSE in' = [in EXCEPT ![u] = Append(@, CString(Front(data[u])))]

-----------------------------------------------------------------------------
(* The player. *)

(* Mutant: the newest buffer is played first. *)
RunNewest(u) ==
  /\ InLoop(u) /\ polls[u] > 0 /\ in[u] # <<>> /\ playing[u] = <<>>
  /\ playing' = [playing EXCEPT ![u] = <<Last(in[u])>>]
  /\ in' = [in EXCEPT ![u] = Front(@)]
  /\ polls' = [polls EXCEPT ![u] = @ - 1]
  /\ UNCHANGED <<stage, setup, recorder, out, link, speech, mutes, quits>>

(* run, called by a timer; with nothing to play, or while it plays, it     *)
(* only sets the timer again.                                              *)
Run(u) ==
  /\ InLoop(u) /\ polls[u] > 0 /\ in[u] # <<>> /\ playing[u] = <<>>
  /\ playing' = [playing EXCEPT ![u] = <<Head(in[u])>>]
  /\ in' = [in EXCEPT ![u] = Tail(@)]
  /\ polls' = [polls EXCEPT ![u] = @ - 1]
  /\ UNCHANGED <<stage, setup, recorder, out, link, speech, mutes, quits>>

(* The buffer is through: its samples have been heard.                     *)
Finished(u) ==
  /\ InLoop(u) /\ playing[u] # <<>>
  /\ heard' = [heard EXCEPT ![Peer(u)] = @ \o Numbers(Head(playing[u]))]
  /\ UNCHANGED <<stage, setup, recorder, out, link, said, mutes, quits>>

(* handleStateChanged and stopAudioOutput both emit finished: run is       *)
(* called twice, and where it does not play it sets a timer.               *)
Idle(u) ==
  /\ Finished(u)
  /\ IF in[u] = <<>>
       THEN /\ playing' = [playing EXCEPT ![u] = <<>>]
            /\ polls' = [polls EXCEPT ![u] = @ + 2]
            /\ UNCHANGED in
       ELSE /\ playing' = [playing EXCEPT ![u] = <<Head(in[u])>>]
            /\ in' = [in EXCEPT ![u] = Tail(@)]
            /\ polls' = [polls EXCEPT ![u] = @ + 1]

(* The user closes the window. *)
Quit(u) ==
  /\ InLoop(u) /\ quits < MaxQuits
  /\ stage' = [stage EXCEPT ![u] = "ended"]
  /\ quits' = quits + 1
  /\ UNCHANGED <<setup, recorder, queues, link, player, speech, mutes>>

-----------------------------------------------------------------------------
SetUp(u)  == Connect(u) \/ Accept(u)
Receive(u) == ReadSome(u) \/ PushData(u)
ByUser(u) == Begin(u) \/ Speak(u) \/ ToggleMuteState(u) \/ Quit(u)

Next == \E u \in User :
          \/ ByUser(u) \/ SetUp(u) \/ StopRecording(u)
          \/ StartSending(u) \/ SendFails(u) \/ Start(u) \/ Receive(u)
          \/ Run(u) \/ Idle(u)

Spec == Init /\ [][Next]_vars

(* Timers fire, blocking calls return when they can, and a buffer that is  *)
(* played comes to its end; strongly for what is due only while the loop   *)
(* is not in a read: it serves all that is due before it reads again.      *)
(* Nothing is asked of the user.                                           *)
FairSpec ==
  Spec /\ \A u \in User :
            /\ WF_vars(SetUp(u)) /\ WF_vars(StartSending(u)) /\ WF_vars(Start(u))
            /\ WF_vars(Receive(u)) /\ SF_vars(Run(u)) /\ SF_vars(Idle(u))

-----------------------------------------------------------------------------
(* Properties. *)

Bytes == Seq(Sample)

(* The type invariant; one buffer is played at a time, and nothing read is *)
(* kept outside of Start.                                                  *)
TypeOK ==
  /\ stage \in [User -> {"off", "first", "second", "loop", "reading", "ended"}]
  /\ connected \in [User -> BOOLEAN] /\ gaveUp \in [User -> BOOLEAN]
  /\ isMute \in [User -> BOOLEAN] /\ recording \in [User -> BOOLEAN]
  /\ buff \in [User -> Bytes] /\ wire \in [User -> Bytes] /\ data \in [User -> Bytes]
  /\ out \in [User -> Seq(Bytes)] /\ in \in [User -> Seq(Bytes)]
  /\ playing \in [User -> Seq(Bytes)] /\ \A u \in User : Len(playing[u]) <= 1
  /\ \A u \in User : stage[u] \notin {"reading", "ended"} => data[u] = <<>>
  /\ bunched \in [User -> SUBSET Nat] /\ ticks \in [User -> 0..MaxTicks]
  /\ said \in [User -> Nat] /\ heard \in [User -> Seq(Nat)]
  /\ polls \in [User -> Nat] /\ mutes \in [User -> Nat] /\ quits \in 0..MaxQuits

(* The samples of each user are heard in the order they were said, none    *)
(* twice, through every cut of the stream and both queues.                 *)
LineSpec == INSTANCE Line WITH Speakers <- User, said <- said, heard <- heard

HeardInOrder == LineSpec!Spec

Blocked(u) == stage[u] = "reading" /\ Newlines(data[u]) = {} /\ wire[Peer(u)] = <<>>

(* The blocking read stops a program's whole event loop, its sender too,   *)
(* and yet never both wait for each other: each has sent a line since its  *)
(* last read (startSending sends one even if it has nothing to send).      *)
NeverBothBlocked == ~(Blocked(User1) /\ Blocked(User2))

OnTheWay(u) ==
  UNION {Range(Numbers(bytes)) : bytes \in
           {buff[u], wire[u], data[Peer(u)]}
             \cup Range(out[u]) \cup Range(in[Peer(u)]) \cup Range(playing[Peer(u)])}

(* A sample is lost only if the very read that took it went beyond a line  *)
(* (receive::Start drops or trims what it has too much) or held a newline  *)
(* or a zero as a sample: those of every other read, before and after, are *)
(* heard or still on their way.                                            *)
NoneLostUnlessBunched ==
  \A u \in User :
    1..said[u] \subseteq OnTheWay(u) \cup Range(heard[u]) \cup bunched[Peer(u)]

(* Both programs begun, both come to their loops, in whatever order: the   *)
(* one connects first and the other accepts first (main compares ports).   *)
StartsUp ==
  (\A u \in User : stage[u] # "off") ~>
    ((\E u \in User : gaveUp[u]) \/ (\A u \in User : stage[u] \notin {"first", "second"}))

(* No read blocks a program for ever. *)
ReadsEnd == \A u \in User : stage[u] = "reading" ~> stage[u] # "reading"

(* A program does not outlive its peer. *)
EndTogether == \A u \in User : stage[u] = "ended" ~> stage[Peer(u)] = "ended"

(* What is received is played: packetBuffIn empties again, as the player   *)
(* is never left without a timer (each buffer played leaves one more).     *)
QueueDrains == \A u \in User : in[u] # <<>> ~> in[u] = <<>> \/ stage[u] = "ended"

(* The programs come up, go on, and end together. *)
Lives == StartsUp /\ ReadsEnd /\ EndTogether /\ QueueDrains
=============================================================================
