------------------------------- MODULE Line ---------------------------------
(***************************************************************************)
(* What the voice chat of src/A1 promises in each direction: the other end *)
(* hears samples that were said, each at most once and in the order they   *)
(* were said, and between them noise that nobody said.  It does not        *)
(* promise to play all of them.  Voice implements it.                      *)
(***************************************************************************)
EXTENDS Naturals, SequencesExt

CONSTANT Speakers

VARIABLES said,  \* how many samples of each have been recorded
          heard  \* the numbers of those the other end has played, and 0 for noise

vars == <<said, heard>>

Init == /\ said  = [s \in Speakers |-> 0]
        /\ heard = [s \in Speakers |-> <<>>]

Say(s) == /\ said' = [said EXCEPT ![s] = @ + 1]
          /\ UNCHANGED heard

Ascending(numbers) ==
  \A j, k \in DOMAIN numbers : j < k /\ numbers[k] # 0 => numbers[j] < numbers[k]

Hear(s) ==
  /\ heard' = [heard EXCEPT ![s] = heard'[s]]
  /\ IsPrefix(heard[s], heard'[s])
  /\ Ascending(heard'[s]) /\ Range(heard'[s]) \subseteq 0..said[s]
  /\ UNCHANGED said

Next == \E s \in Speakers : Say(s) \/ Hear(s)

Spec == Init /\ [][Next]_vars
=============================================================================
