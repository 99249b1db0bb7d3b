------------------------------ MODULE MCWaitlist ------------------------------
(* Small instances of Waitlist for TLC. *)
EXTENDS Waitlist, TLC

CONSTANTS h1, h2, h3, p1

OneHold == {h1}
TwoHolds == {h1, h2}
ThreeHolds == {h1, h2, h3}
OneCaller == {promoter, p1}

Symmetry == Permutations(Hold)
=============================================================================
