------------------------------- MODULE Waitlist -------------------------------
(***************************************************************************)
(* The waitlist of a venue: WaitlistService (create, offer, expire,        *)
(* convert, resolveOfferCode, consumeOffer), the holds its offers make and *)
(* give back through HoldsService, the booking of such a hold              *)
(* (createFromHold), the sweep, and the promoter that offers tables to     *)
(* waiting entries.                                                        *)
(*                                                                         *)
(* A request is a process that takes one statement at a time: no two of    *)
(* its statements share a transaction, except in a booking.  offerCode and *)
(* holdId are always written together, so an entry's hold stands for both, *)
(* and the link in a guest's mail is the hold's id.  An entry's expiresAt  *)
(* is that of its hold.                                                    *)
(***************************************************************************)
EXTENDS Naturals, FiniteSets

CONSTANTS
  Entry,      \* entries, numbered in the order of findWaitingEntries
  Hold,       \* hold row ids
  Proc,       \* requests in flight, the promoter among them
  promoter,
  Fits,       \* entries for which findSlot finds a slot
  BATCH_SIZE,
  Faults,     \* bound on crashes, failed statements and refused holds
  Ops,        \* operations that callers of the API use
  NoEntry, NoHold

ASSUME WaitlistAssumption ==
  /\ Entry \subseteq Nat /\ NoEntry \notin Entry /\ NoHold \notin Hold
  /\ promoter \in Proc /\ Fits \subseteq Entry
  /\ BATCH_SIZE \in Nat \ {0} /\ Faults \in Nat

VARIABLES
  entry,     \* Waitlist rows; `token`: offerToken is not null
  hold,      \* Hold rows made by offers; `lapsed`: the clock has reached expiresAt
  req,       \* what each request has read and is about to do
  batch,     \* the candidates the promoter has left in this cycle
  sweeping,  \* the hold ids a sweep has selected
  faults,
  offered,   \* (auxiliary) the hold an entry was offered, never forgotten
  astray     \* (auxiliary) holds that a fault, a blind write or an early booking set adrift

vars == <<entry, hold, req, batch, sweeping, faults, offered, astray>>

-----------------------------------------------------------------------------
Absent == [status |-> "none", hold |-> NoHold, token |-> FALSE]
Waiting == {e \in Entry : entry[e].status = "WAITING"}
Held(h) == hold[h].status = "HELD"

Idle == [at |-> "idle", entry |-> NoEntry, hold |-> NoHold, closes |-> FALSE]

At(p, place) == req[p].at = place
Goes(p, r) == req' = [req EXCEPT ![p] = r]
GoesTo(p, place) == req' = [req EXCEPT ![p].at = place]

\* An API caller may start this operation.
Calls(p, op) == p # promoter /\ req[p] = Idle /\ op \in Ops

\* The row as a request without a hold leaves it.
Closed == [status |-> "EXPIRED", hold |-> NoHold, token |-> FALSE]

Fault == faults < Faults /\ faults' = faults + 1
-----------------------------------------------------------------------------
(* Joining and offering.                                                    *)

Join(e) ==
  /\ entry[e].status = "none"
  /\ entry' = [entry EXCEPT ![e].status = "WAITING"]
  /\ UNCHANGED <<hold, req, batch, sweeping, faults, offered, astray>>

Offering(e) == [Idle EXCEPT !.at = "offer", !.entry = e]

ReadForOffer(p) ==
  /\ Calls(p, "offer")
  /\ \E e \in Waiting : Goes(p, Offering(e))
  /\ UNCHANGED <<entry, hold, batch, sweeping, faults, offered, astray>>

\* holds.create commits a hold that no entry refers to yet.
MakeHold(p) ==
  /\ At(p, "offer")
  /\ \E h \in Hold :
       /\ hold[h].status = "none"
       /\ hold' = [hold EXCEPT ![h].status = "HELD"]
       /\ Goes(p, [req[p] EXCEPT !.at = "assign", !.hold = h])
  /\ UNCHANGED <<entry, batch, sweeping, faults, offered, astray>>

\* Mutation: the offer is assigned by id, whatever the entry's status.
AssignAny(p) ==
  LET e == req[p].entry
      h == req[p].hold
  IN  /\ At(p, "assign")
      /\ entry' = [entry EXCEPT ![e] = [status |-> "OFFERED", hold |-> h, token |-> TRUE]]
      /\ offered' = [offered EXCEPT ![e] = h]
      /\ astray' = IF Held(h) THEN astray ELSE astray \cup {h}
      /\ GoesTo(p, "reread")
      /\ UNCHANGED <<hold, batch, sweeping, faults>>

\* updateMany where status is WAITING.
AssignOffer(p) ==
  LET e == req[p].entry
      h == req[p].hold
  IN  /\ At(p, "assign")
      /\ entry[e].status = "WAITING"
      /\ entry' = [entry EXCEPT ![e] = [status |-> "OFFERED", hold |-> h, token |-> TRUE]]
      /\ offered' = [offered EXCEPT ![e] = h]
      /\ astray' = IF Held(h) THEN astray ELSE astray \cup {h}
      /\ GoesTo(p, "reread")
      /\ UNCHANGED <<hold, batch, sweeping, faults>>

\* Mutation: the loser of a race keeps the hold it made.
KeepsHold(p) ==
  /\ At(p, "assign")
  /\ entry[req[p].entry].status # "WAITING"
  /\ Goes(p, Idle)
  /\ UNCHANGED <<entry, hold, batch, sweeping, faults, offered, astray>>

\* The update found no WAITING row: the hold is given back.  The catch does so once
\* more, which changes nothing unless the first attempt failed; only that one is taken.
AssignNothing(p) ==
  /\ At(p, "assign")
  /\ entry[req[p].entry].status # "WAITING"
  /\ GoesTo(p, "cancel")
  /\ UNCHANGED <<entry, hold, batch, sweeping, faults, offered, astray>>

\* Any other error of assignOffer, after the update too: the hold is given back.
AssignErrs(p) ==
  /\ At(p, "assign") \/ At(p, "reread")
  /\ Fault
  /\ GoesTo(p, "cancel")
  /\ UNCHANGED <<entry, hold, batch, sweeping, offered, astray>>

\* offer returns; the promoter goes on to mail the link.
OfferReturns(p) ==
  /\ At(p, "reread")
  /\ Goes(p, Idle)
  /\ UNCHANGED <<entry, hold, batch, sweeping, faults, offered, astray>>
-----------------------------------------------------------------------------
(* Giving a hold back: holds.cancel inside safeCancelHold.                  *)

AfterCancel(p) == IF req[p].closes THEN [req[p] EXCEPT !.at = "close"] ELSE Idle

\* DELETE /holds/:id by staff.
DeleteHold(p) ==
  /\ Calls(p, "delete")
  /\ \E h \in Hold :
       /\ hold[h].status # "none"
       /\ Goes(p, [Idle EXCEPT !.at = "cancel", !.hold = h])
  /\ UNCHANGED <<entry, hold, batch, sweeping, faults, offered, astray>>

ReadForCancel(p) ==
  /\ At(p, "cancel")
  /\ Goes(p, IF Held(req[p].hold) THEN [req[p] EXCEPT !.at = "void"] ELSE AfterCancel(p))
  /\ UNCHANGED <<entry, hold, batch, sweeping, faults, offered, astray>>

VoidHold(p) ==
  /\ At(p, "void")
  /\ hold' = [hold EXCEPT ![req[p].hold].status = "EXPIRED"]
  /\ Goes(p, AfterCancel(p))
  /\ UNCHANGED <<entry, batch, sweeping, faults, offered, astray>>

\* safeCancelHold swallows the error.
CancelErrs(p) ==
  /\ At(p, "cancel") \/ At(p, "void")
  /\ Fault
  /\ astray' = astray \cup {req[p].hold}
  /\ Goes(p, AfterCancel(p))
  /\ UNCHANGED <<entry, hold, batch, sweeping, offered>>
-----------------------------------------------------------------------------
(* Ending an offer.                                                         *)

\* expire cancels the hold of the row it read, if that was HELD.
ReadForExpire(p) ==
  /\ Calls(p, "expire")
  /\ \E e \in Entry :
       LET h == entry[e].hold IN
       /\ entry[e].status # "none"
       /\ Goes(p, [at     |-> IF h # NoHold /\ hold[h].status = "HELD" THEN "cancel" ELSE "close",
                   entry  |-> e, hold |-> h, closes |-> TRUE])
  /\ UNCHANGED <<entry, hold, batch, sweeping, faults, offered, astray>>

\* What the guest's link finds: the entry with this code, and its token.
LinkOpens(e, h) == entry[e].hold = h /\ entry[e].token

ActiveOffer(e) ==
  LET h == hold[entry[e].hold] IN
  entry[e].status = "OFFERED" /\ h.status = "HELD" /\ ~h.lapsed

\* resolveOfferCode with an offer that is over: cancel, then forceExpire.
ResolveExpired(p) ==
  /\ Calls(p, "resolve")
  /\ \E e \in Entry, h \in Hold :
       /\ LinkOpens(e, h) /\ ~ActiveOffer(e)
       /\ Goes(p, [at |-> "cancel", entry |-> e, hold |-> h, closes |-> TRUE])
  /\ UNCHANGED <<entry, hold, batch, sweeping, faults, offered, astray>>

\* Mutation: expire and forceExpire leave holdId.
CloseKeepingHold(p) ==
  /\ At(p, "close")
  /\ entry' = [entry EXCEPT ![req[p].entry].status = "EXPIRED"]
  /\ Goes(p, Idle)
  /\ UNCHANGED <<hold, batch, sweeping, faults, offered, astray>>

\* The last statement of expire and of forceExpire, unconditional: an offer made
\* since the row was read loses its entry.
Close(p) ==
  LET e == req[p].entry IN
  /\ At(p, "close")
  /\ entry' = [entry EXCEPT ![e] = Closed]
  /\ astray' = IF entry[e].hold = req[p].hold THEN astray ELSE astray \cup ({entry[e].hold} \ {NoHold})
  /\ Goes(p, Idle)
  /\ UNCHANGED <<hold, batch, sweeping, faults, offered>>

Converted(row) == [row EXCEPT !.status = "CONVERTED", !.token = FALSE]

\* convert: one statement, whatever the status.
Convert(e) ==
  /\ "convert" \in Ops /\ entry[e].status # "none"
  /\ entry' = [entry EXCEPT ![e] = Converted(@)]
  /\ UNCHANGED <<hold, req, batch, sweeping, faults, offered, astray>>

\* consumeOffer reads the entry by code; a CONVERTED one is returned as it is.
ReadForConsume(p) ==
  /\ Calls(p, "consume")
  /\ \E e \in Entry, h \in Hold :
       /\ LinkOpens(e, h) /\ entry[e].status = "OFFERED"
       /\ Goes(p, [Idle EXCEPT !.at = "consume", !.entry = e])
  /\ UNCHANGED <<entry, hold, batch, sweeping, faults, offered, astray>>

Consume(p) ==
  /\ At(p, "consume")
  /\ entry' = [entry EXCEPT ![req[p].entry] = Converted(@)]
  /\ Goes(p, Idle)
  /\ UNCHANGED <<hold, batch, sweeping, faults, offered, astray>>
-----------------------------------------------------------------------------
(* Booking an offered hold: the transaction of createFromHold.              *)

EntriesOf(h) == {e \in Entry : entry[e].hold = h}

\* The snapshot: the hold is HELD and unexpired, and its entry is found.
BeginBook(p) ==
  /\ Calls(p, "book")
  /\ \E h \in Hold :
       /\ Held(h) /\ ~hold[h].lapsed
       /\ \E e \in IF EntriesOf(h) = {} THEN {NoEntry} ELSE EntriesOf(h) :
            Goes(p, [Idle EXCEPT !.at = "book", !.hold = h, !.entry = e])
  /\ UNCHANGED <<entry, hold, batch, sweeping, faults, offered, astray>>

\* Mutation: the waitlist entry of the hold is left alone.
BookHoldOnly(p) ==
  LET h == req[p].hold IN
  /\ At(p, "book") /\ Held(h)
  /\ req[p].entry # NoEntry => entry[req[p].entry].hold = h
  /\ hold' = [hold EXCEPT ![h].status = "CONSUMED"]
  /\ astray' = IF req[p].entry = NoEntry THEN astray \cup {h} ELSE astray
  /\ Goes(p, Idle)
  /\ UNCHANGED <<entry, batch, sweeping, faults, offered>>

\* Rows written since the snapshot refuse the commit: the hold is still HELD and
\* the entry still has it.  The token stays, so the guest's link still opens.
CommitBook(p) ==
  LET h == req[p].hold
      e == req[p].entry
  IN  /\ At(p, "book") /\ Held(h)
      /\ e # NoEntry => entry[e].hold = h
      /\ hold' = [hold EXCEPT ![h].status = "CONSUMED"]
      /\ entry' = IF e = NoEntry THEN entry ELSE [entry EXCEPT ![e].status = "CONVERTED"]
      /\ astray' = IF e = NoEntry THEN astray \cup {h} ELSE astray
      /\ Goes(p, Idle)
      /\ UNCHANGED <<batch, sweeping, faults, offered>>

BookRefused(p) ==
  /\ At(p, "book")
  /\ Goes(p, Idle)
  /\ UNCHANGED <<entry, hold, batch, sweeping, faults, offered, astray>>
-----------------------------------------------------------------------------
(* The clock, the sweep and the promoter.                                   *)

Lapse(h) ==
  /\ Held(h) /\ ~hold[h].lapsed
  /\ hold' = [hold EXCEPT ![h].lapsed = TRUE]
  /\ UNCHANGED <<entry, req, batch, sweeping, faults, offered, astray>>

\* Mutation: the comparison with the clock is turned round.
DueUnlapsed == {h \in Hold : Held(h) /\ ~hold[h].lapsed}

Due == {h \in Hold : Held(h) /\ hold[h].lapsed}

\* One transaction, Read Committed: SELECT ids, then UPDATE by id.
SweepReads ==
  /\ sweeping = {} /\ Due # {}
  /\ sweeping' = Due
  /\ UNCHANGED <<entry, hold, req, batch, faults, offered, astray>>

SweepWrites ==
  /\ sweeping # {}
  /\ hold' = [h \in Hold |-> IF h \in sweeping THEN [hold[h] EXCEPT !.status = "EXPIRED"]
                                               ELSE hold[h]]
  /\ sweeping' = {}
  /\ UNCHANGED <<entry, req, batch, faults, offered, astray>>

\* findWaitingEntries(BATCH_SIZE)
FirstWaiting == {e \in Waiting : Cardinality({f \in Waiting : f < e}) < BATCH_SIZE}

PromoterPolls ==
  /\ req[promoter] = Idle /\ batch = {}
  /\ FirstWaiting # {}
  /\ batch' = FirstWaiting
  /\ UNCHANGED <<entry, hold, req, sweeping, faults, offered, astray>>

\* Mutation: a candidate without a slot ends the cycle.
TakesUntilMisfit ==
  /\ req[promoter] = Idle
  /\ \E e \in batch :
       /\ \A f \in batch : e <= f
       /\ batch' = IF e \in Fits THEN batch \ {e} ELSE {}
       /\ Goes(promoter, IF e \in Fits \cap Waiting THEN Offering(e) ELSE Idle)
  /\ UNCHANGED <<entry, hold, sweeping, faults, offered, astray>>

\* The next candidate of the batch; without a slot, or no longer WAITING, it is skipped.
PromoterTakes ==
  /\ req[promoter] = Idle
  /\ \E e \in batch :
       /\ \A f \in batch : e <= f
       /\ batch' = batch \ {e}
       /\ Goes(promoter, IF e \in Fits \cap Waiting THEN Offering(e) ELSE Idle)
  /\ UNCHANGED <<entry, hold, sweeping, faults, offered, astray>>

\* pickTable or holds.create refuses.
OfferRefused(p) ==
  /\ At(p, "offer")
  /\ Fault
  /\ Goes(p, Idle)
  /\ UNCHANGED <<entry, hold, batch, sweeping, offered, astray>>

\* The process dies.  A promoter that is started again begins with a poll.
Crash(p) ==
  /\ req[p] # Idle
  /\ Fault
  /\ astray' = IF At(p, "assign") \/ At(p, "cancel") \/ At(p, "void")
                 THEN astray \cup {req[p].hold} ELSE astray
  /\ Goes(p, Idle)
  /\ batch' = IF p = promoter THEN {} ELSE batch
  /\ UNCHANGED <<entry, hold, sweeping, offered>>
-----------------------------------------------------------------------------
Init ==
  /\ entry = [e \in Entry |-> Absent]
  /\ hold = [h \in Hold |-> [status |-> "none", lapsed |-> FALSE]]
  /\ req = [p \in Proc |-> Idle]
  /\ batch = {} /\ sweeping = {} /\ faults = 0
  /\ offered = [e \in Entry |-> NoHold]
  /\ astray = {}

Starts(p) ==
  \/ ReadForOffer(p) \/ DeleteHold(p) \/ ReadForExpire(p) \/ ResolveExpired(p)
  \/ ReadForConsume(p) \/ BeginBook(p)

\* The steps of a request that was started and meets no fault.
Proceeds(p) ==
  \/ MakeHold(p) \/ AssignOffer(p) \/ AssignNothing(p) \/ OfferReturns(p)
  \/ ReadForCancel(p) \/ VoidHold(p) \/ Close(p) \/ Consume(p)
  \/ CommitBook(p) \/ BookRefused(p)

Fails(p) == AssignErrs(p) \/ CancelErrs(p) \/ OfferRefused(p) \/ Crash(p)

Promotes == PromoterPolls \/ PromoterTakes
Sweeps == SweepReads \/ SweepWrites

Next ==
  \/ \E e \in Entry : Join(e) \/ Convert(e)
  \/ \E p \in Proc : Starts(p) \/ Proceeds(p) \/ Fails(p)
  \/ \E h \in Hold : Lapse(h)
  \/ Promotes \/ Sweeps

Safety == Init /\ [][Next]_vars

\* Requests run to their end, time passes, and the timers of the promoter and of
\* the sweep (both 60 s) go off again and again.
Fairness ==
  /\ \A p \in Proc : WF_vars(Proceeds(p))
  /\ \A h \in Hold : WF_vars(Lapse(h))
  /\ WF_vars(Promotes)
  /\ WF_vars(Sweeps)

Spec == Safety /\ Fairness
-----------------------------------------------------------------------------
(* Properties.                                                              *)

EntryRow ==
  {row \in [status : {"none", "WAITING", "OFFERED", "CONVERTED", "EXPIRED"},
            hold : Hold \cup {NoHold}, token : BOOLEAN] :
     /\ row.status \in {"none", "WAITING", "EXPIRED"} => row.hold = NoHold /\ ~row.token
     /\ row.status = "OFFERED" => row.hold # NoHold /\ row.token}

Places == {"idle", "offer", "assign", "reread", "cancel", "void", "close", "consume", "book"}

Request ==
  {r \in [at : Places, entry : Entry \cup {NoEntry}, hold : Hold \cup {NoHold}, closes : BOOLEAN] :
     /\ r.at = "idle" => r = Idle
     /\ r.at \in {"offer", "assign", "reread", "close", "consume"} => r.entry # NoEntry
     /\ r.at \in {"assign", "reread", "cancel", "void", "book"} => r.hold # NoHold
     /\ r.closes => r.entry # NoEntry}

\* The type of every variable.  An entry has a hold and a code while it is OFFERED,
\* may keep them when CONVERTED, and has neither otherwise.
TypeOK ==
  /\ entry \in [Entry -> EntryRow]
  /\ hold \in [Hold -> [status : {"none", "HELD", "CONSUMED", "EXPIRED"}, lapsed : BOOLEAN]]
  /\ req \in [Proc -> Request]
  /\ batch \subseteq Entry /\ sweeping \subseteq Hold /\ faults \in 0..Faults
  /\ offered \in [Entry -> Hold \cup {NoHold}]
  /\ astray \subseteq Hold

\* The request that will assign this hold or give it back.
InHand(h) == \E p \in Proc : req[p].hold = h /\ req[p].at \in {"assign", "cancel", "void"}

\* No table is blocked for nobody (assignOffer, expire, resolveOfferCode): a HELD
\* hold belongs to an entry or to a request that is about to assign it or give it
\* back, unless a crash, a failed cancellation or a blind write set it adrift.
LiveHoldHasOwner ==
  \A h \in Hold : Held(h) => EntriesOf(h) # {} \/ InHand(h) \/ h \in astray

\* Booking an offered hold converts its entry in the same transaction, so nobody is
\* left OFFERED a table that is booked, unless it was booked before it was assigned.
BookedEntryIsConverted ==
  \A e \in Entry :
    entry[e].status = "OFFERED" /\ hold[entry[e].hold].status = "CONSUMED"
    => entry[e].hold \in astray

Offers == INSTANCE Offers WITH status <- [e \in Entry |-> entry[e].status]

\* The two writes of an offer, with any number of offers racing for an entry, act
\* as the one step of the abstract specification: one hold per entry, one entry
\* per hold, decided when the entry leaves WAITING.
OneOfferEach == Offers!Spec

\* A hold set adrift is not lost for good: every hold ends, at the latest by the
\* sweep of HoldsCleanupService.
EveryHoldEnds == \A h \in Hold : Held(h) ~> ~Held(h)

\* An entry that fits a slot is offered a table or settled, when fewer than a batch
\* before it fit none: finitely many refusals and crashes and other
\* requests do not make the promoter forget it.
FittingEntryIsServed ==
  \A e \in Fits :
    Cardinality({f \in Entry \ Fits : f < e}) < BATCH_SIZE
    => (entry[e].status = "WAITING" ~> entry[e].status # "WAITING")

\* docs/waitlist.md: the booking of an offered hold makes its entry CONVERTED.  The
\* guest's own actions do not undo that.
BookedStaysConverted ==
  [][\A e \in Entry :
       /\ entry[e].status = "CONVERTED"
       /\ entry[e].hold # NoHold /\ hold[entry[e].hold].status = "CONSUMED"
       => entry'[e].status = "CONVERTED"]_vars
=============================================================================
