---------------------------- MODULE MCClaimForm -----------------------------
(* Two names are enough to tell employers apart; they are interchangeable. *)
EXTENDS ClaimForm, TLC

Symmetry == Permutations(Names)
=============================================================================
