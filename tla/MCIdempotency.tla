---------------------------- MODULE MCIdempotency ----------------------------
(* A small instance of Idempotency for TLC. *)
EXTENDS Idempotency

CONSTANTS p1, p2, p3, s1, s2

ThreeRequests == {p1, p2, p3}
TwoSessions == {s1, s2}
=============================================================================
