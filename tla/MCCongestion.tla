---------------------------- MODULE MCCongestion ----------------------------
(***************************************************************************)
(* The program's own numbers, but for the width of an integer.             *)
(***************************************************************************)
EXTENDS Congestion

WrapForTLC == 2^20
=============================================================================
