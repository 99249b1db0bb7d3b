-------------------------------- MODULE Offers --------------------------------
(***************************************************************************)
(* What the waitlist promises: an entry is offered at most one hold, ever, *)
(* a hold is offered to at most one entry, ever, and both are decided in   *)
(* the one step that takes the entry out of WAITING.                       *)
(***************************************************************************)
CONSTANTS Entry, Hold, NoHold

VARIABLES
  status,  \* the status of each entry, "none" before it exists
  offered  \* the hold an entry was offered, kept when the offer is over

TypeOK ==
  /\ status \in [Entry -> {"none", "WAITING", "OFFERED", "CONVERTED", "EXPIRED"}]
  /\ offered \in [Entry -> Hold \cup {NoHold}]

Init ==
  /\ status = [e \in Entry |-> "none"]
  /\ offered = [e \in Entry |-> NoHold]

Join(e) ==
  /\ status[e] = "none"
  /\ status' = [status EXCEPT ![e] = "WAITING"]
  /\ UNCHANGED offered

Offer(e, h) ==
  /\ status[e] = "WAITING" /\ offered[e] = NoHold
  /\ \A f \in Entry : offered[f] # h
  /\ status' = [status EXCEPT ![e] = "OFFERED"]
  /\ offered' = [offered EXCEPT ![e] = h]

\* Staff may settle an entry whatever its status, and settle it again.
Settle(e, outcome) ==
  /\ status[e] # "none"
  /\ status' = [status EXCEPT ![e] = outcome]
  /\ UNCHANGED offered

Next ==
  \/ \E e \in Entry : Join(e)
  \/ \E e \in Entry, h \in Hold : Offer(e, h)
  \/ \E e \in Entry, outcome \in {"CONVERTED", "EXPIRED"} : Settle(e, outcome)

Spec == Init /\ [][Next]_<<status, offered>>
=============================================================================
