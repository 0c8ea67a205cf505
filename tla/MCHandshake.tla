----------------------------- MODULE MCHandshake -----------------------------
(* Two client programs, one of which runs two clients in a row.            *)
EXTENDS Handshake

CONSTANTS one, two, c1, c2, c3

TwoAndOne == [r \in {one, two} |-> IF r = one THEN <<c1, c2>> ELSE <<c3>>]
=============================================================================
