------------------------------- MODULE MCOspf -------------------------------
(***************************************************************************)
(* Small autonomous systems for TLC.                                       *)
(***************************************************************************)
EXTENDS Ospf

CONSTANTS a, b, c, d, e, x

Three == {a, b, c}
ThreeOrder == <<a, b, c>>

(* A line of three routers with a PC behind c. *)
LinePorts == [r \in Three |-> CASE r = a -> <<b>> [] r = b -> <<a, c>> [] r = c -> <<x, b>>]

Four == {a, b, c, d}
FourOrder == <<a, b, c, d>>

Five == {a, b, c, d, e}
FiveOrder == <<a, b, c, d, e>>

(* A triangle a, b, c with d and a foreign router x hanging off c, and a   *)
(* router e of the AS that is linked to x only.                            *)
KitePorts ==
  [r \in Five |-> CASE r = a -> <<b, c>>
                    [] r = b -> <<a, c>>
                    [] r = c -> <<d, b, x, a>>
                    [] r = d -> <<c>>
                    [] r = e -> <<x>>]

(* b in the middle of a star, its port to d last; a PC behind d. *)
StarPorts ==
  [r \in Four |-> CASE r = a -> <<b>> [] r = b -> <<a, c, d>> [] r = c -> <<b>> [] r = d -> <<b, x>>]
=============================================================================
