------------------------------ MODULE Transfer ------------------------------
(***************************************************************************)
(* What the server of src/A4/Part2 promises its client: packets are        *)
(* accepted in the order of their ids, each once it has been sent, and     *)
(* what the client takes for acknowledged has been accepted and is never   *)
(* taken back.  Nothing is said of windows, feigned losses, or the stream. *)
(* Congestion implements it.                                               *)
(***************************************************************************)
EXTENDS Integers

VARIABLES sent,         \* ids of the packets the client has sent
          accepted,     \* the last id accepted; ids 0 and 1 are the handshake's
          acknowledged  \* the last id the client has seen acknowledged

vars == <<sent, accepted, acknowledged>>

Init == sent = {} /\ accepted = 1 /\ acknowledged = -1

Send == /\ sent \subseteq sent' /\ \E id \in sent' : sent' = sent \cup {id}
        /\ UNCHANGED <<accepted, acknowledged>>

Accept == /\ accepted + 1 \in sent
          /\ accepted' = accepted + 1
          /\ UNCHANGED <<sent, acknowledged>>

Acknowledge == /\ acknowledged' \in (acknowledged + 1)..accepted
               /\ UNCHANGED <<sent, accepted>>

Next == Send \/ Accept \/ Acknowledge

Spec == Init /\ [][Next]_vars
=============================================================================
