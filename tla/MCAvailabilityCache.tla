------------------------- MODULE MCAvailabilityCache -------------------------
(* A small instance of AvailabilityCache for TLC. *)
EXTENDS AvailabilityCache

CONSTANTS p1, r1, r2, w1, w2

OnePlace == {p1}
TwoReaders == {r1, r2}
TwoWriters == {w1, w2}
=============================================================================
