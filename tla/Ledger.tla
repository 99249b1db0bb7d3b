-------------------------------- MODULE Ledger --------------------------------
(***************************************************************************)
(* What the booking of tables promises: a ledger that says which spots, a  *)
(* table at a time of a day, belong to which reservation or hold.  A spot  *)
(* belongs to one of them at most.  Each change of the ledger is one step, *)
(* which takes only what is free at that moment, and nobody who is off the *)
(* ledger ever comes back.                                                 *)
(***************************************************************************)
CONSTANTS Res, Hold, Spot

VARIABLES
  claim,  \* the spots of each reservation and hold
  over    \* those whose claim has ended, or was never on the ledger

Owner == Res \cup Hold

TypeOK == claim \in [Owner -> SUBSET Spot] /\ over \subseteq Owner

Init ==
  /\ claim = [o \in Owner |-> {}]
  /\ over = {}

New(o) == claim[o] = {} /\ o \notin over

\* Sets of spots that belong to nobody, except perhaps to one of these owners.
FreeFor(O) ==
  {S \in SUBSET Spot : S # {} /\ \A o \in Owner \ O : claim[o] \cap S = {}}

Take(o) ==
  /\ New(o)
  /\ \E S \in FreeFor({o}) : claim' = [claim EXCEPT ![o] = S]
  /\ UNCHANGED over

\* A hold becomes a reservation: nobody can take its spots in between.
Convert(h, r) ==
  /\ claim[h] # {} /\ New(r)
  /\ \E S \in FreeFor({h, r}) : claim' = [claim EXCEPT ![h] = {}, ![r] = S]
  /\ over' = over \cup {h}

Move(r) ==
  /\ claim[r] # {}
  /\ \E S \in FreeFor({r}) : claim' = [claim EXCEPT ![r] = S]
  /\ UNCHANGED over

End(O) ==
  /\ claim' = [o \in Owner |-> IF o \in O THEN {} ELSE claim[o]]
  /\ over' = over \cup O

Next ==
  \/ \E O \in SUBSET Owner : End(O)
  \/ \E o \in Owner : Take(o)
  \/ \E h \in Hold, r \in Res : Convert(h, r)
  \/ \E r \in Res : Move(r)

Spec == Init /\ [][Next]_<<claim, over>>
=============================================================================
