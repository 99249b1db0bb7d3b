------------------------------ MODULE MCBooking ------------------------------
(* Small instances of Booking for TLC. *)
EXTENDS Booking, TLC

CONSTANTS r1, r2, h1, h2, s1, s2, p1, p2

TwoRes == {r1, r2}
NoHolds == {}
OneHold == {h1}
TwoHolds == {h1, h2}
OneSlot == {s1}
TwoSlots == {s1, s2}
TwoProcs == {p1, p2}
JoinedSeatings == {<<2>>, <<1, 2>>}
NoSeatings == {}

\* One field per request: a patch that moves the slot, sets or clears the table,
\* changes the status, or only the duration.
Patch == [slot |-> Keep, table |-> Keep, status |-> Keep, duration |-> FALSE]
Moves == {[Patch EXCEPT !.slot = s] : s \in Slot}
Retables == {[Patch EXCEPT !.table = t] : t \in Table \cup {NoTable}}
StatusEdits == {[Patch EXCEPT !.status = st] : st \in Asks}
OneFieldEdits == Moves \cup Retables \cup StatusEdits \cup {[Patch EXCEPT !.duration = TRUE]}
ClearTable == {[Patch EXCEPT !.table = NoTable]}
MoveEdits == Moves \cup ClearTable
NoEdits == {}

AnyExpiry == BOOLEAN
LateExpiry == {TRUE}

Symmetry == Permutations(Res) \cup Permutations(Hold) \cup Permutations(Slot)
            \cup Permutations(Proc)
=============================================================================
