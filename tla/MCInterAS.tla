----------------------------- MODULE MCInterAS -----------------------------
(***************************************************************************)
(* Two small autonomous systems for TLC.                                   *)
(***************************************************************************)
EXTENDS InterAS

CONSTANTS a, b, c, d, p, q, h

(* p - a - b | c - d - q : an inner and an edge router in each AS. *)
Chain == {a, b, c, d}
ChainPorts ==
  [r \in Chain |-> CASE r = a -> <<p, b>> [] r = b -> <<a, c>> [] r = c -> <<b, d>> [] r = d -> <<c, q>>]
ChainAS == [r \in Chain |-> IF r \in {a, b} THEN 1 ELSE 2]
ChainEdges == <<b, c>>

Mixed == <<"RIP", "OSPF">>
BothOSPF == <<"OSPF", "OSPF">>
FromP == [packet \in {h} |-> p]
ToQ   == [packet \in {h} |-> q]
=============================================================================
