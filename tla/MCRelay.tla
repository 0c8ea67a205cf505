------------------------------ MODULE MCRelay -------------------------------
(***************************************************************************)
(* The relay with a short file, for TLC.                                   *)
(***************************************************************************)
EXTENDS Relay
=============================================================================
