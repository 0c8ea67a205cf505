------------------------------ MODULE MCVoice -------------------------------
(***************************************************************************)
(* The first user speaks and has a Mute button, the second listens (and    *)
(* sends its empty lines).                                                 *)
(***************************************************************************)
EXTENDS Voice

CONSTANTS Much, Clicks

(* Bytes of their own for the newline and the zero. *)
TwoSounds == <<{"ordinary", "10"}, {"ordinary", "0"}>>

SaidBy  == (User1 :> Much) @@ (User2 :> 0)
MutedBy == (User1 :> Clicks) @@ (User2 :> 0)
=============================================================================
