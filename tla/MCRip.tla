------------------------------- MODULE MCRip --------------------------------
(***************************************************************************)
(* Small autonomous systems for TLC.                                       *)
(***************************************************************************)
EXTENDS Rip

CONSTANTS a, b, c, x

(* Two routers, a PC behind the second. *)
Pair      == {a, b}
PairPorts == [r \in Pair |-> IF r = a THEN <<b>> ELSE <<x, a>>]

(* Three routers in a line. *)
Line      == {a, b, c}
LinePorts == [r \in Line |-> CASE r = a -> <<b>> [] r = b -> <<a, c>> [] r = c -> <<b>>]

LagOne  == [r \in Router |-> 1]
LagTwo  == [r \in Router |-> 2]
(* The thread of b may miss six ticks, and then catch up. *)
SlowB   == [r \in Router |-> IF r = b THEN 6 ELSE 1]
=============================================================================
