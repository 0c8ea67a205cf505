--------------------------- MODULE Conversations ----------------------------
(***************************************************************************)
(* What the server of src/A4/Part1 promises its clients: it talks to one   *)
(* at a time, in the order greet, accept, answer; a conversation may be    *)
(* refused at every point and is never taken up again; when the server     *)
(* goes down nothing follows.  Nothing is said of threads, the mutex or    *)
(* the messages.  Handshake implements it.                                 *)
(***************************************************************************)
CONSTANT Clients

VARIABLES talk,  \* how far the conversation with each client has come
          up

vars == <<talk, up>>

Init == /\ talk = [c \in Clients |-> "away"]
        /\ up = TRUE

Between == {c \in Clients : talk[c] \in {"greeted", "accepted"}}

Turns(c, from, to) == /\ up
                      /\ talk[c] = from
                      /\ talk' = [talk EXCEPT ![c] = to]
                      /\ UNCHANGED up

Greet(c)  == Between = {} /\ Turns(c, "away", "greeted")
Accept(c) == Turns(c, "greeted", "accepted")
Answer(c) == Turns(c, "accepted", "answered")

(* Nobody is refused while another is being talked to. *)
Refuse(c) == /\ Between \subseteq {c}
             /\ \E from \in {"away", "greeted", "accepted"} : Turns(c, from, "refused")

GoDown == up /\ up' = FALSE /\ UNCHANGED talk

Next == GoDown \/ \E c \in Clients : Greet(c) \/ Accept(c) \/ Answer(c) \/ Refuse(c)

Spec == Init /\ [][Next]_vars
=============================================================================
