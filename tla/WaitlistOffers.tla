---------------------------- MODULE WaitlistOffers ----------------------------
(* Who owns a hold of the waitlist: an offer of two writes implements the      *)
(* atomic one, and a live hold always has an owner.                            *)
EXTENDS WaitlistProofs

-----------------------------------------------------------------------------
(* The invariant.                                                              *)

\* Nobody has heard of a hold that is not there.
Fresh ==
  \A h \in Hold : hold[h].status = "none" =>
    /\ \A e \in Entry : entry[e].hold # h /\ offered[e] # h
    /\ \A p \in Proc : req[p].hold # h

\* A hold that waits for its assignment was never offered, and only one request
\* is going to assign it.
AssignsOwn ==
  \A p \in Proc : At(p, "assign") =>
    /\ \A e \in Entry : offered[e] # req[p].hold
    /\ \A q \in Proc \ {p} : At(q, "assign") => req[q].hold # req[p].hold

History ==
  \A e \in Entry :
    /\ entry[e].status \in {"none", "WAITING"} => offered[e] = NoHold
    /\ entry[e].hold # NoHold => entry[e].hold = offered[e]
    /\ \A f \in Entry \ {e} : offered[e] # NoHold => offered[f] # offered[e]

Started ==
  \A p \in Proc : req[p].entry # NoEntry => entry[req[p].entry].status # "none"

\* A request closes an entry after it has given back the hold it read.
ClosesEnded ==
  \A p \in Proc :
    At(p, "close") /\ req[p].hold # NoHold => ~Held(req[p].hold) \/ req[p].hold \in astray

Ownership ==
  /\ TypeOK /\ Fresh /\ AssignsOwn /\ History /\ Started /\ ClosesEnded
  /\ LiveHoldHasOwner /\ BookedEntryIsConverted

-----------------------------------------------------------------------------
(* What a step does to the entries, to the holds and to a request.             *)

\* An entry that exists is settled; it keeps its hold or loses it.
SettlesOne ==
  \E e \in Entry, row \in EntryRow :
    /\ entry[e].status # "none"
    /\ row.status \in {"CONVERTED", "EXPIRED"}
    /\ row.hold \in {entry[e].hold, NoHold}
    /\ entry' = [entry EXCEPT ![e] = row]
    /\ offered' = offered

LEMMA EntrySteps ==
  ASSUME TypeOK, Started, Next
  PROVE  \/ UNCHANGED <<entry, offered>>
         \/ \E e \in Entry : Join(e)
         \/ \E p \in Proc : AssignOffer(p)
         \/ SettlesOne
<1>1. ASSUME NEW p \in Proc, Starts(p) PROVE UNCHANGED <<entry, offered>>
  BY <1>1 DEF Starts, ReadForOffer, DeleteHold, ReadForExpire, ResolveExpired, ReadForConsume,
              BeginBook
<1>2. ASSUME NEW p \in Proc, Fails(p) PROVE UNCHANGED <<entry, offered>>
  BY <1>2 DEF Fails, AssignErrs, CancelErrs, OfferRefused, Crash
<1>3. ASSUME NEW h \in Hold, Lapse(h) PROVE UNCHANGED <<entry, offered>>
  BY <1>3 DEF Lapse
<1>4. Promotes \/ Sweeps => UNCHANGED <<entry, offered>>
  BY DEF Promotes, Sweeps, PromoterPolls, PromoterTakes, SweepReads, SweepWrites
<1>5. ASSUME NEW e \in Entry, Convert(e) PROVE SettlesOne
  <2>1. entry[e] \in EntryRow
    BY DEF TypeOK
  <2>2. /\ Converted(entry[e]) \in EntryRow
        /\ Converted(entry[e]).status = "CONVERTED" /\ Converted(entry[e]).hold = entry[e].hold
    BY <2>1, ConvertedType DEF Converted, EntryRow
  <2>3. entry' = [entry EXCEPT ![e] = Converted(entry[e])]
    BY <1>5 DEF Convert
  <2>4. QED
    BY <1>5, <2>2, <2>3 DEF Convert, SettlesOne
<1>6. ASSUME NEW p \in Proc, Consume(p) PROVE SettlesOne
  <2> DEFINE e == req[p].entry
  <2>1. e \in Entry /\ e # NoEntry
    BY <1>6, RequestFacts, WaitlistAssumption DEF Consume, At
  <2>2. entry[e] \in EntryRow /\ entry[e].status # "none"
    BY <2>1 DEF TypeOK, Started
  <2>3. /\ Converted(entry[e]) \in EntryRow
        /\ Converted(entry[e]).status = "CONVERTED" /\ Converted(entry[e]).hold = entry[e].hold
    BY <2>2, ConvertedType DEF Converted, EntryRow
  <2>4. entry' = [entry EXCEPT ![e] = Converted(entry[e])]
    BY <1>6 DEF Consume
  <2>5. QED
    BY <1>6, <2>1, <2>2, <2>3, <2>4 DEF Consume, SettlesOne
<1>7. ASSUME NEW p \in Proc, Close(p) PROVE SettlesOne
  <2>1. req[p].entry \in Entry /\ req[p].entry # NoEntry
    BY <1>7, RequestFacts, WaitlistAssumption DEF Close, At
  <2>2. Closed \in EntryRow /\ Closed.status = "EXPIRED" /\ Closed.hold = NoHold
    BY WaitlistAssumption DEF Closed, EntryRow
  <2>3. QED
    BY <1>7, <2>1, <2>2 DEF Close, SettlesOne, Started
<1>8. ASSUME NEW p \in Proc, CommitBook(p) PROVE SettlesOne \/ UNCHANGED <<entry, offered>>
  <2> DEFINE e == req[p].entry
             row == [entry[e] EXCEPT !.status = "CONVERTED"]
  <2>1. CASE e = NoEntry
    BY <1>8, <2>1 DEF CommitBook
  <2>2. CASE e # NoEntry
    <3>1. e \in Entry
      BY <2>2, RequestFacts DEF Request
    <3>2. entry[e] \in EntryRow /\ entry[e].status # "none"
      BY <2>2, <3>1 DEF TypeOK, Started
    <3>3. row \in EntryRow /\ row.status = "CONVERTED" /\ row.hold = entry[e].hold
      BY <3>2 DEF EntryRow
    <3>4. entry' = [entry EXCEPT ![e] = row] /\ offered' = offered
      BY <1>8, <2>2 DEF CommitBook
    <3>5. QED
      BY <3>1, <3>2, <3>3, <3>4 DEF SettlesOne
  <2>3. QED
    BY <2>1, <2>2
<1>9. ASSUME NEW p \in Proc, Proceeds(p), ~AssignOffer(p), ~Consume(p), ~Close(p), ~CommitBook(p)
      PROVE  UNCHANGED <<entry, offered>>
  BY <1>9 DEF Proceeds, MakeHold, AssignNothing, OfferReturns, ReadForCancel, VoidHold, BookRefused
<1>10. QED
  BY <1>1, <1>2, <1>3, <1>4, <1>5, <1>6, <1>7, <1>8, <1>9 DEF Next

\* The status of a hold stays, or is set by its making or by its end.
LEMMA HoldSteps ==
  ASSUME TypeOK, Next, NEW h \in Hold
  PROVE  \/ hold'[h].status = hold[h].status
         \/ hold'[h].status \in {"CONSUMED", "EXPIRED"}
         \/ /\ hold[h].status = "none"
            /\ hold'[h].status = "HELD"
            /\ \E p \in Proc : MakeHold(p) /\ At(p, "assign")' /\ req'[p].hold = h
<1>1. ASSUME NEW p \in Proc, Starts(p) PROVE UNCHANGED hold
  BY <1>1 DEF Starts, ReadForOffer, DeleteHold, ReadForExpire, ResolveExpired, ReadForConsume,
              BeginBook
<1>2. ASSUME NEW p \in Proc, Fails(p) PROVE UNCHANGED hold
  BY <1>2 DEF Fails, AssignErrs, CancelErrs, OfferRefused, Crash
<1>3. ASSUME NEW g \in Hold, Lapse(g) PROVE hold'[h].status = hold[h].status
  BY <1>3 DEF Lapse, TypeOK
<1>4. Promotes => UNCHANGED hold
  BY DEF Promotes, PromoterPolls, PromoterTakes
<1>5. Sweeps => hold'[h].status = hold[h].status \/ hold'[h].status = "EXPIRED"
  BY DEF Sweeps, SweepReads, SweepWrites, TypeOK
<1>6. ASSUME NEW e \in Entry, Join(e) \/ Convert(e) PROVE UNCHANGED hold
  BY <1>6 DEF Join, Convert
<1>7. ASSUME NEW p \in Proc, MakeHold(p), hold'[h].status # hold[h].status
      PROVE  /\ hold[h].status = "none" /\ hold'[h].status = "HELD"
             /\ At(p, "assign")' /\ req'[p].hold = h
  <2>1. PICK g \in Hold :
          /\ hold[g].status = "none" /\ hold' = [hold EXCEPT ![g].status = "HELD"]
          /\ req' = [req EXCEPT ![p] = [req[p] EXCEPT !.at = "assign", !.hold = g]]
    BY <1>7 DEF MakeHold, Goes
  <2>2. g = h
    BY <1>7, <2>1 DEF TypeOK
  <2>3. req[p] \in Request
    BY RequestFacts
  <2>4. QED
    BY <2>1, <2>2, <2>3 DEF TypeOK, Request, At
<1>8. ASSUME NEW p \in Proc, VoidHold(p) \/ CommitBook(p)
      PROVE  hold'[h].status = hold[h].status \/ hold'[h].status \in {"CONSUMED", "EXPIRED"}
  BY <1>8 DEF VoidHold, CommitBook, TypeOK
<1>9. ASSUME NEW p \in Proc, Proceeds(p), ~MakeHold(p), ~VoidHold(p), ~CommitBook(p)
      PROVE  UNCHANGED hold
  BY <1>9 DEF Proceeds, AssignOffer, AssignNothing, OfferReturns, ReadForCancel, Close, Consume,
              BookRefused
<1>10. QED
  BY <1>1, <1>2, <1>3, <1>4, <1>5, <1>6, <1>7, <1>8, <1>9 DEF Next

\* Where the hold and the entry of a request come from, how it gets to assign a
\* hold and when it gets to close an entry.
RequestStep(p) ==
  /\ \/ req'[p].hold \in {req[p].hold, NoHold}
     \/ \E e \in Entry : req'[p].hold = entry[e].hold
     \/ req'[p].hold \in Hold /\ hold'[req'[p].hold].status # "none"
  /\ req'[p].at = "assign" =>
       \/ req'[p] = req[p]
       \/ MakeHold(p) /\ hold[req'[p].hold].status = "none"
  /\ req'[p].entry # NoEntry =>
       req'[p].entry = req[p].entry \/ entry[req'[p].entry].status # "none"
  /\ req'[p].at = "close" /\ req'[p].hold # NoHold =>
       \/ req'[p] = req[p]
       \/ hold'[req'[p].hold].status # "HELD"
       \/ req'[p].hold \in astray'

LEMMA StandsStill ==
  ASSUME NEW p, req'[p] = req[p] \/ req'[p] = Idle
  PROVE  RequestStep(p)
BY DEF RequestStep, Idle

LEMMA StartSteps ==
  ASSUME TypeOK, NEW p \in Proc, Starts(p)
  PROVE  RequestStep(p)
<1>1. CASE ReadForOffer(p)
  <2>1. PICK e \in Waiting : req'[p] = Offering(e)
    BY <1>1 DEF ReadForOffer, Goes, TypeOK
  <2>2. QED
    BY <2>1 DEF Offering, Idle, Waiting, RequestStep
<1>2. CASE DeleteHold(p)
  <2>1. PICK h \in Hold :
          hold[h].status # "none" /\ req'[p] = [Idle EXCEPT !.at = "cancel", !.hold = h]
    BY <1>2 DEF DeleteHold, Goes, TypeOK
  <2>2. hold' = hold
    BY <1>2 DEF DeleteHold
  <2>3. QED
    BY <2>1, <2>2 DEF Idle, RequestStep
<1>3. CASE ReadForExpire(p)
  <2>1. PICK e \in Entry :
          LET h == entry[e].hold IN
          /\ entry[e].status # "none"
          /\ req'[p] = [at |-> IF h # NoHold /\ hold[h].status = "HELD" THEN "cancel" ELSE "close",
                        entry |-> e, hold |-> h, closes |-> TRUE]
    BY <1>3 DEF ReadForExpire, Goes, TypeOK
  <2>2. hold' = hold
    BY <1>3 DEF ReadForExpire
  <2>3. QED
    BY <2>1, <2>2 DEF RequestStep
<1>4. CASE ResolveExpired(p)
  <2>1. PICK e \in Entry, h \in Hold :
          /\ LinkOpens(e, h)
          /\ req'[p] = [at |-> "cancel", entry |-> e, hold |-> h, closes |-> TRUE]
    BY <1>4 DEF ResolveExpired, Goes, TypeOK
  <2>2. entry[e].hold = h /\ entry[e].status # "none"
    BY <2>1, WaitlistAssumption DEF LinkOpens, TypeOK, EntryRow
  <2>3. QED
    BY <2>1, <2>2 DEF RequestStep
<1>5. CASE ReadForConsume(p)
  <2>1. PICK e \in Entry :
          /\ entry[e].status = "OFFERED"
          /\ req'[p] = [Idle EXCEPT !.at = "consume", !.entry = e]
    BY <1>5 DEF ReadForConsume, Goes, TypeOK
  <2>2. QED
    BY <2>1 DEF Idle, RequestStep
<1>6. CASE BeginBook(p)
  <2>1. PICK h \in Hold :
          /\ Held(h)
          /\ \E e \in IF EntriesOf(h) = {} THEN {NoEntry} ELSE EntriesOf(h) :
               req'[p] = [Idle EXCEPT !.at = "book", !.hold = h, !.entry = e]
    BY <1>6 DEF BeginBook, Goes, TypeOK
  <2>2. PICK e \in IF EntriesOf(h) = {} THEN {NoEntry} ELSE EntriesOf(h) :
          req'[p] = [Idle EXCEPT !.at = "book", !.hold = h, !.entry = e]
    BY <2>1
  <2>3. e # NoEntry => entry[e].status # "none"
    BY <2>1, <2>2, WaitlistAssumption DEF EntriesOf, TypeOK, EntryRow
  <2>4. hold' = hold
    BY <1>6 DEF BeginBook
  <2>5. QED
    BY <2>1, <2>2, <2>3, <2>4 DEF Idle, Held, RequestStep
<1>7. QED
  BY <1>1, <1>2, <1>3, <1>4, <1>5, <1>6 DEF Starts

\* The end of a cancellation: the hold is no longer HELD, or it is adrift.
LEMMA CancelEnds ==
  ASSUME TypeOK, NEW p \in Proc, req'[p] = AfterCancel(p),
         hold'[req[p].hold].status # "HELD" \/ req[p].hold \in astray'
  PROVE  RequestStep(p)
<1>1. CASE req[p].closes
  <2>1. req'[p] = [req[p] EXCEPT !.at = "close"] /\ req[p] \in Request
    BY <1>1, RequestFacts DEF AfterCancel
  <2>2. /\ req'[p].at = "close" /\ req'[p].hold = req[p].hold
        /\ req'[p].entry = req[p].entry
    BY <2>1 DEF Request
  <2>3. QED
    BY <2>2 DEF RequestStep
<1>2. CASE ~req[p].closes
  BY <1>2, StandsStill DEF AfterCancel
<1>3. QED
  BY <1>1, <1>2

\* A request that moves on with the entry and the hold it has.
LEMMA MovesOn ==
  ASSUME TypeOK, NEW p \in Proc, NEW place \in {"reread", "cancel", "void"},
         req' = [req EXCEPT ![p].at = place]
  PROVE  RequestStep(p)
<1>1. req[p] \in Request
  BY RequestFacts
<1>2. /\ req'[p].at = place /\ req'[p].hold = req[p].hold
      /\ req'[p].entry = req[p].entry
  BY <1>1 DEF TypeOK, Request
<1>3. QED
  BY <1>2 DEF RequestStep

LEMMA ProceedSteps ==
  ASSUME TypeOK, NEW p \in Proc, Proceeds(p)
  PROVE  RequestStep(p)
<1>1. CASE MakeHold(p)
  <2>1. PICK h \in Hold :
          /\ hold[h].status = "none" /\ hold' = [hold EXCEPT ![h].status = "HELD"]
          /\ req'[p] = [req[p] EXCEPT !.at = "assign", !.hold = h]
    BY <1>1 DEF MakeHold, Goes, TypeOK
  <2>2. /\ req'[p].at = "assign" /\ req'[p].hold = h /\ req'[p].entry = req[p].entry
        /\ hold'[h].status = "HELD"
    BY <2>1, RequestFacts DEF Request, TypeOK
  <2>3. QED
    BY <1>1, <2>1, <2>2 DEF RequestStep
<1>2. CASE AssignOffer(p)
  BY <1>2, MovesOn DEF AssignOffer, GoesTo
<1>3. CASE AssignNothing(p)
  BY <1>3, MovesOn DEF AssignNothing, GoesTo
<1>4. CASE ReadForCancel(p)
  <2>1. CASE Held(req[p].hold)
    <3>1. req' = [req EXCEPT ![p].at = "void"]
      BY <1>4, <2>1 DEF ReadForCancel, Goes
    <3>2. QED
      BY <3>1, MovesOn
  <2>2. CASE ~Held(req[p].hold)
    <3>1. req'[p] = AfterCancel(p) /\ hold' = hold
      BY <1>4, <2>2 DEF ReadForCancel, Goes, TypeOK
    <3>2. QED
      BY <2>2, <3>1, CancelEnds DEF Held
  <2>3. QED
    BY <2>1, <2>2
<1>5. CASE VoidHold(p)
  <2>1. req'[p] = AfterCancel(p)
    BY <1>5 DEF VoidHold, Goes, TypeOK
  <2>2. hold'[req[p].hold].status = "EXPIRED"
    BY <1>5, RequestFacts DEF VoidHold, At, TypeOK
  <2>3. QED
    BY <2>1, <2>2, CancelEnds
<1>6. CASE OfferReturns(p) \/ Close(p) \/ Consume(p) \/ CommitBook(p) \/ BookRefused(p)
  <2>1. req'[p] = Idle
    BY <1>6 DEF OfferReturns, Close, Consume, CommitBook, BookRefused, Goes, TypeOK
  <2>2. QED
    BY <2>1, StandsStill
<1>7. QED
  BY <1>1, <1>2, <1>3, <1>4, <1>5, <1>6 DEF Proceeds

LEMMA FailSteps ==
  ASSUME TypeOK, NEW p \in Proc, Fails(p)
  PROVE  RequestStep(p)
<1>1. CASE AssignErrs(p)
  BY <1>1, MovesOn DEF AssignErrs, GoesTo
<1>2. CASE CancelErrs(p)
  <2>1. req'[p] = AfterCancel(p) /\ req[p].hold \in astray'
    BY <1>2 DEF CancelErrs, Goes, TypeOK
  <2>2. QED
    BY <2>1, CancelEnds
<1>3. CASE OfferRefused(p) \/ Crash(p)
  <2>1. req'[p] = Idle
    BY <1>3 DEF OfferRefused, Crash, Goes, TypeOK
  <2>2. QED
    BY <2>1, StandsStill
<1>4. QED
  BY <1>1, <1>2, <1>3 DEF Fails

\* The steps of one request leave the others where they are.
LEMMA Alone ==
  ASSUME TypeOK, NEW p \in Proc, NEW q \in Proc \ {p}, Starts(p) \/ Proceeds(p) \/ Fails(p)
  PROVE  req'[q] = req[q]
<1>1. Starts(p) => req'[q] = req[q]
  BY DEF Starts, ReadForOffer, DeleteHold, ReadForExpire, ResolveExpired, ReadForConsume,
         BeginBook, Goes, TypeOK
<1>2. Proceeds(p) => req'[q] = req[q]
  BY DEF Proceeds, MakeHold, AssignOffer, AssignNothing, OfferReturns, ReadForCancel, VoidHold,
         Close, Consume, CommitBook, BookRefused, Goes, GoesTo, TypeOK
<1>3. Fails(p) => req'[q] = req[q]
  BY DEF Fails, AssignErrs, CancelErrs, OfferRefused, Crash, Goes, GoesTo, TypeOK
<1>4. QED
  BY <1>1, <1>2, <1>3

LEMMA RequestSteps ==
  ASSUME TypeOK, Next, NEW p \in Proc
  PROVE  RequestStep(p)
<1>1. ASSUME NEW q \in Proc, Starts(q) \/ Proceeds(q) \/ Fails(q)
      PROVE  RequestStep(p)
  <2>1. CASE q = p
    BY <1>1, <2>1, StartSteps, ProceedSteps, FailSteps
  <2>2. CASE q # p
    BY <1>1, <2>2, Alone, StandsStill
  <2>3. QED
    BY <2>1, <2>2
<1>2. CASE \/ \E e \in Entry : Join(e) \/ Convert(e)
           \/ \E h \in Hold : Lapse(h)
           \/ PromoterPolls \/ Sweeps
  <2>1. req' = req
    BY <1>2 DEF Join, Convert, Lapse, PromoterPolls, Sweeps, SweepReads, SweepWrites
  <2>2. QED
    BY <2>1, StandsStill
<1>3. CASE PromoterTakes
  <2>1. PICK e \in batch : Goes(promoter, IF e \in Fits \cap Waiting THEN Offering(e) ELSE Idle)
    BY <1>3 DEF PromoterTakes
  <2>2. CASE p # promoter
    BY <2>1, <2>2, StandsStill DEF Goes, TypeOK
  <2>3. CASE p = promoter /\ e \notin Fits \cap Waiting
    BY <2>1, <2>3, StandsStill DEF Goes, TypeOK
  <2>4. CASE p = promoter /\ e \in Fits \cap Waiting
    <3>1. req'[p] = Offering(e) /\ entry[e].status # "none"
      BY <2>1, <2>4 DEF Goes, TypeOK, Waiting
    <3>2. QED
      BY <3>1 DEF Offering, Idle, RequestStep
  <2>5. QED
    BY <2>2, <2>3, <2>4
<1>4. QED
  BY <1>1, <1>2, <1>3 DEF Next, Promotes

LEMMA AstrayGrows ==
  ASSUME TypeOK, Next
  PROVE  astray \subseteq astray'
<1>1. ASSUME NEW p \in Proc, Starts(p) PROVE astray' = astray
  BY <1>1 DEF Starts, ReadForOffer, DeleteHold, ReadForExpire, ResolveExpired, ReadForConsume,
              BeginBook
<1>2. ASSUME NEW p \in Proc, Proceeds(p) PROVE astray \subseteq astray'
  BY <1>2 DEF Proceeds, MakeHold, AssignOffer, AssignNothing, OfferReturns, ReadForCancel,
              VoidHold, Close, Consume, CommitBook, BookRefused
<1>3. ASSUME NEW p \in Proc, Fails(p) PROVE astray \subseteq astray'
  BY <1>3 DEF Fails, AssignErrs, CancelErrs, OfferRefused, Crash
<1>4. CASE \/ \E e \in Entry : Join(e) \/ Convert(e)
           \/ \E h \in Hold : Lapse(h)
           \/ Promotes \/ Sweeps
  BY <1>4 DEF Join, Convert, Lapse, Promotes, Sweeps, PromoterPolls, PromoterTakes, SweepReads,
              SweepWrites
<1>5. QED
  BY <1>1, <1>2, <1>3, <1>4 DEF Next

\* Only a booking consumes a hold.
LEMMA ConsumedBy ==
  ASSUME TypeOK, Next, NEW h \in Hold, hold'[h].status = "CONSUMED", hold[h].status # "CONSUMED"
  PROVE  \E p \in Proc : CommitBook(p) /\ req[p].hold = h
<1>1. ASSUME NEW p \in Proc, Starts(p) \/ Fails(p) PROVE FALSE
  <2>1. hold' = hold
    BY <1>1 DEF Starts, ReadForOffer, DeleteHold, ReadForExpire, ResolveExpired, ReadForConsume,
                BeginBook, Fails, AssignErrs, CancelErrs, OfferRefused, Crash
  <2>2. QED
    BY <2>1
<1>2. ASSUME NEW p \in Proc, Proceeds(p), ~CommitBook(p) PROVE FALSE
  <2>1. CASE MakeHold(p)
    BY <2>1 DEF MakeHold, TypeOK
  <2>2. CASE VoidHold(p)
    BY <2>2 DEF VoidHold, TypeOK
  <2>3. CASE hold' = hold
    BY <2>3
  <2>4. QED
    BY <1>2, <2>1, <2>2, <2>3 DEF Proceeds, AssignOffer, AssignNothing, OfferReturns,
       ReadForCancel, Close, Consume, BookRefused
<1>3. ASSUME NEW p \in Proc, CommitBook(p) PROVE req[p].hold = h
  BY <1>3 DEF CommitBook, TypeOK
<1>4. CASE \E g \in Hold : Lapse(g)
  BY <1>4 DEF Lapse, TypeOK
<1>5. CASE Sweeps
  BY <1>5 DEF Sweeps, SweepReads, SweepWrites, TypeOK
<1>6. CASE Promotes \/ \E e \in Entry : Join(e) \/ Convert(e)
  BY <1>6 DEF Promotes, PromoterPolls, PromoterTakes, Join, Convert
<1>7. QED
  BY <1>1, <1>2, <1>3, <1>4, <1>5, <1>6 DEF Next

\* An entry that loses its hold loses one that has ended, or sets it adrift.
LEMMA LosesHold ==
  ASSUME Ownership, Next, NEW e \in Entry, NEW h \in Hold,
         entry[e].hold = h, entry'[e].hold # h
  PROVE  ~Held(h) \/ h \in astray'
<1> USE DEF Ownership
<1>1. PICK p \in Proc : Close(p) /\ req[p].entry = e
  <2>1. ASSUME NEW p \in Proc, Proceeds(p) PROVE Close(p) /\ req[p].entry = e
    <3>1. ~AssignOffer(p)
      BY WaitlistAssumption DEF AssignOffer, TypeOK, EntryRow
    <3>2. ~Consume(p)
      <4>1. Converted(entry[e]).hold = h /\ entry[e] \in EntryRow
        BY DEF Converted, TypeOK, EntryRow
      <4>2. Consume(p) => entry'[e] \in {entry[e], Converted(entry[e])}
        BY DEF Consume, TypeOK
      <4>3. QED
        BY <4>1, <4>2
    <3>3. ~CommitBook(p)
      BY DEF CommitBook, TypeOK, EntryRow
    <3>4. Close(p)
      BY <2>1, <3>1, <3>2, <3>3
         DEF Proceeds, MakeHold, AssignNothing, OfferReturns, ReadForCancel, VoidHold, BookRefused
    <3>5. QED
      BY <3>4 DEF Close, TypeOK
  <2>2. ASSUME NEW p \in Proc, Starts(p) \/ Fails(p) PROVE FALSE
    BY <2>2 DEF Starts, ReadForOffer, DeleteHold, ReadForExpire, ResolveExpired, ReadForConsume,
                BeginBook, Fails, AssignErrs, CancelErrs, OfferRefused, Crash
  <2>3. ASSUME NEW f \in Entry, Join(f) PROVE FALSE
    BY <2>3 DEF Join, TypeOK, EntryRow
  <2>4. ASSUME NEW f \in Entry, Convert(f) PROVE FALSE
    BY <2>4 DEF Convert, Converted, TypeOK, EntryRow
  <2>5. ~(\E g \in Hold : Lapse(g)) /\ ~Promotes /\ ~Sweeps
    BY DEF Lapse, Promotes, Sweeps, PromoterPolls, PromoterTakes, SweepReads, SweepWrites
  <2>6. QED
    BY <2>1, <2>2, <2>3, <2>4, <2>5 DEF Next
<1>2. CASE req[p].hold = h
  <2>1. h # NoHold
    BY WaitlistAssumption
  <2>2. At(p, "close")
    BY <1>1 DEF Close
  <2>3. ~Held(h) \/ h \in astray
    BY <1>2, <2>1, <2>2 DEF ClosesEnded
  <2>4. QED
    BY <2>3, AstrayGrows
<1>3. CASE req[p].hold # h
  BY <1>1, <1>3, WaitlistAssumption DEF Close
<1>4. QED
  BY <1>2, <1>3

\* A request hands a live hold on to its entry or to its own next step, or sets it
\* adrift.
LEMMA HandsOn ==
  ASSUME Ownership, Next, NEW p \in Proc, NEW h \in Hold,
         req[p].hold = h, req[p].at \in {"assign", "cancel", "void"},
         Held(h), Held(h)'
  PROVE  EntriesOf(h)' # {} \/ InHand(h)' \/ h \in astray'
<1> USE DEF Ownership
<1>1. CASE req'[p] = req[p]
  BY <1>1 DEF InHand
<1>2. CASE req'[p].hold = h /\ req'[p].at \in {"cancel", "void"}
  BY <1>2 DEF InHand
<1>3. req[p] \in Request /\ req[p] # Idle
  BY RequestFacts DEF Idle
<1>4. CASE Starts(p)
  BY <1>3, <1>4 DEF Starts, Calls, ReadForOffer, DeleteHold, ReadForExpire, ResolveExpired,
     ReadForConsume, BeginBook
<1>5. CASE Fails(p)
  <2>1. CASE AssignErrs(p)
    BY <1>2, <1>3, <2>1 DEF AssignErrs, GoesTo, TypeOK, Request
  <2>2. CASE CancelErrs(p) \/ Crash(p)
    BY <2>2 DEF CancelErrs, Crash, At
  <2>3. CASE OfferRefused(p)
    BY <2>3 DEF OfferRefused, At
  <2>4. QED
    BY <1>5, <2>1, <2>2, <2>3 DEF Fails
<1>6. CASE Proceeds(p)
  <2>1. CASE AssignOffer(p)
    <3>1. req[p].entry \in Entry
      BY <2>1, RequestFacts DEF AssignOffer, At
    <3>2. entry'[req[p].entry].hold = h
      BY <2>1, <3>1 DEF AssignOffer, TypeOK
    <3>3. QED
      BY <3>1, <3>2 DEF EntriesOf
  <2>2. CASE AssignNothing(p)
    BY <1>2, <1>3, <2>2 DEF AssignNothing, GoesTo, TypeOK, Request
  <2>3. CASE ReadForCancel(p)
    BY <1>2, <1>3, <2>3 DEF ReadForCancel, Goes, TypeOK, Request
  <2>4. CASE VoidHold(p)
    BY <2>4 DEF VoidHold, Held, TypeOK
  <2>5. QED
    BY <1>6, <2>1, <2>2, <2>3, <2>4 DEF Proceeds, MakeHold, OfferReturns, Close, Consume,
       CommitBook, BookRefused, At
<1>7. CASE \E q \in Proc \ {p} : Starts(q) \/ Proceeds(q) \/ Fails(q)
  BY <1>1, <1>7, Alone
<1>8. CASE \/ \E e \in Entry : Join(e) \/ Convert(e)
           \/ \E g \in Hold : Lapse(g)
           \/ PromoterPolls \/ Sweeps
  BY <1>1, <1>8 DEF Join, Convert, Lapse, PromoterPolls, Sweeps, SweepReads, SweepWrites
<1>9. CASE PromoterTakes
  BY <1>1, <1>3, <1>9 DEF PromoterTakes, Goes, TypeOK
<1>10. QED
  BY <1>4, <1>5, <1>6, <1>7, <1>8, <1>9 DEF Next, Promotes

-----------------------------------------------------------------------------
(* The invariant is inductive.                                                 *)

LEMMA FreshKept ==
  ASSUME Ownership, Next
  PROVE  Fresh'
<1> USE DEF Ownership
<1> SUFFICES ASSUME NEW h \in Hold, hold'[h].status = "none"
             PROVE  /\ \A e \in Entry : entry'[e].hold # h /\ offered'[e] # h
                    /\ \A p \in Proc : req'[p].hold # h
  BY DEF Fresh
<1>1. hold[h].status = "none"
  BY HoldSteps
<1>2. /\ \A e \in Entry : entry[e].hold # h /\ offered[e] # h
      /\ \A p \in Proc : req[p].hold # h
  BY <1>1 DEF Fresh
<1>3. ASSUME NEW e \in Entry PROVE entry'[e].hold # h /\ offered'[e] # h
  <2>1. CASE UNCHANGED <<entry, offered>>
    BY <1>2, <2>1
  <2>2. CASE \E f \in Entry : Join(f)
    BY <1>2, <2>2 DEF Join, TypeOK, EntryRow
  <2>3. CASE \E p \in Proc : AssignOffer(p)
    BY <1>2, <2>3 DEF AssignOffer, TypeOK
  <2>4. CASE SettlesOne
    BY <1>2, <2>4, WaitlistAssumption DEF SettlesOne, TypeOK
  <2>5. QED
    BY <2>1, <2>2, <2>3, <2>4, EntrySteps
<1>4. ASSUME NEW p \in Proc PROVE req'[p].hold # h
  BY <1>2, RequestSteps, WaitlistAssumption DEF RequestStep
<1>5. QED
  BY <1>3, <1>4

LEMMA HistoryKept ==
  ASSUME Ownership, Next
  PROVE  History'
<1> USE DEF Ownership
<1>1. CASE UNCHANGED <<entry, offered>>
  BY <1>1 DEF History
<1>2. ASSUME NEW e \in Entry, Join(e) PROVE History'
  <2>1. /\ offered' = offered
        /\ \A f \in Entry : entry'[f].hold = entry[f].hold
        /\ \A f \in Entry \ {e} : entry'[f] = entry[f]
    BY <1>2 DEF Join, TypeOK, EntryRow
  <2>2. offered[e] = NoHold
    BY <1>2 DEF Join, History
  <2>3. QED
    BY <2>1, <2>2 DEF History
<1>3. ASSUME NEW p \in Proc, AssignOffer(p) PROVE History'
  <2> DEFINE e == req[p].entry
             h == req[p].hold
  <2>1. e \in Entry /\ h \in Hold /\ h # NoHold
    BY <1>3, RequestFacts, WaitlistAssumption DEF AssignOffer, At
  <2>2. \A f \in Entry : offered[f] # h
    BY <1>3 DEF AssignOffer, AssignsOwn
  <2>3. /\ entry'[e].status = "OFFERED" /\ entry'[e].hold = h /\ offered'[e] = h
        /\ \A f \in Entry \ {e} : entry'[f] = entry[f] /\ offered'[f] = offered[f]
    BY <1>3, <2>1 DEF AssignOffer, TypeOK
  <2>4. QED
    BY <2>1, <2>2, <2>3 DEF History
<1>4. CASE SettlesOne
  <2>1. PICK e \in Entry, row \in EntryRow :
          /\ row.status \in {"CONVERTED", "EXPIRED"}
          /\ row.hold \in {entry[e].hold, NoHold}
          /\ entry' = [entry EXCEPT ![e] = row]
          /\ offered' = offered
    BY <1>4 DEF SettlesOne
  <2>2. entry'[e] = row /\ \A f \in Entry \ {e} : entry'[f] = entry[f]
    BY <2>1 DEF TypeOK
  <2>3. QED
    BY <2>1, <2>2 DEF History
<1>5. QED
  BY <1>1, <1>2, <1>3, <1>4, EntrySteps

LEMMA AssignsOwnKept ==
  ASSUME Ownership, Next
  PROVE  AssignsOwn'
<1> USE DEF Ownership
<1>1. ASSUME NEW p \in Proc, At(p, "assign")'
      PROVE  req'[p] = req[p] \/ (MakeHold(p) /\ hold[req'[p].hold].status = "none")
  BY <1>1, RequestSteps DEF RequestStep, At
<1>2. ASSUME NEW p \in Proc, At(p, "assign")', NEW e \in Entry
      PROVE  offered'[e] # req'[p].hold
  <2>1. CASE MakeHold(p) /\ hold[req'[p].hold].status = "none"
    <3>1. req'[p].hold \in Hold /\ offered' = offered
      BY <2>1, RequestFacts DEF MakeHold, Goes, TypeOK, Request
    <3>2. QED
      BY <2>1, <3>1 DEF Fresh
  <2>2. CASE req'[p] = req[p]
    <3>1. offered[e] # req[p].hold
      BY <1>2, <2>2 DEF AssignsOwn, At
    <3>2. ASSUME NEW q \in Proc, AssignOffer(q) PROVE offered'[e] # req[p].hold
      <4>1. q # p
        BY <1>2, <3>2, RequestFacts DEF AssignOffer, At, GoesTo, TypeOK, Request
      <4>2. req[q].hold # req[p].hold
        BY <1>2, <2>2, <3>2, <4>1 DEF AssignOffer, AssignsOwn, At
      <4>3. QED
        BY <3>1, <3>2, <4>2 DEF AssignOffer, TypeOK
    <3>3. CASE \E f \in Entry : Join(f)
      BY <2>2, <3>1, <3>3 DEF Join
    <3>4. QED
      BY <2>2, <3>1, <3>2, <3>3, EntrySteps DEF SettlesOne
  <2>3. QED
    BY <1>1, <1>2, <2>1, <2>2
<1>3. ASSUME NEW p \in Proc, NEW q \in Proc \ {p}, At(p, "assign")', At(q, "assign")'
      PROVE  req'[q].hold # req'[p].hold
  <2>1. CASE req'[p] = req[p] /\ req'[q] = req[q]
    BY <1>3, <2>1 DEF AssignsOwn, At
  <2>2. ASSUME NEW r \in Proc, NEW s \in Proc \ {r}, At(s, "assign")',
               MakeHold(r), hold[req'[r].hold].status = "none"
        PROVE  req'[s].hold # req'[r].hold
    <3>1. req'[s] = req[s]
      BY <2>2, Alone DEF Proceeds
    <3>2. req'[r].hold \in Hold
      BY <2>2, RequestFacts DEF MakeHold, Goes, TypeOK, Request
    <3>3. QED
      BY <2>2, <3>1, <3>2 DEF Fresh
  <2>3. QED
    BY <1>1, <1>3, <2>1, <2>2
<1>4. QED
  BY <1>2, <1>3 DEF AssignsOwn

LEMMA StartedKept ==
  ASSUME Ownership, Next
  PROVE  Started'
<1> USE DEF Ownership
<1>1. ASSUME NEW e \in Entry, entry[e].status # "none" PROVE entry'[e].status # "none"
  <2>1. CASE \E f \in Entry : Join(f)
    BY <1>1, <2>1 DEF Join, TypeOK, EntryRow
  <2>2. CASE \E p \in Proc : AssignOffer(p)
    BY <1>1, <2>2 DEF AssignOffer, TypeOK
  <2>3. CASE SettlesOne
    BY <1>1, <2>3 DEF SettlesOne, TypeOK
  <2>4. QED
    BY <1>1, <2>1, <2>2, <2>3, EntrySteps
<1>2. ASSUME NEW p \in Proc, req'[p].entry # NoEntry PROVE entry'[req'[p].entry].status # "none"
  <2>1. req'[p].entry \in Entry
    <3>1. TypeOK'
      BY StartsType, ProceedsType, FailsType, OthersType DEF Next
    <3>2. QED
      BY <1>2, <3>1 DEF TypeOK, Request
  <2>2. entry[req'[p].entry].status # "none"
    BY <1>2, RequestSteps DEF RequestStep, Started
  <2>3. QED
    BY <1>1, <2>1, <2>2
<1>3. QED
  BY <1>2 DEF Started

LEMMA ClosesEndedKept ==
  ASSUME Ownership, Next
  PROVE  ClosesEnded'
<1> USE DEF Ownership
<1>1. ASSUME NEW p \in Proc, At(p, "close")', req'[p].hold # NoHold, req'[p] = req[p]
      PROVE  hold'[req'[p].hold].status # "HELD" \/ req'[p].hold \in astray'
  <2>1. req[p].hold \in Hold
    BY <1>1, RequestFacts DEF Request
  <2>2. hold[req[p].hold].status # "none"
    BY <2>1 DEF Fresh
  <2>3. hold[req[p].hold].status # "HELD" \/ req[p].hold \in astray
    BY <1>1 DEF ClosesEnded, At, Held
  <2>4. QED
    BY <1>1, <2>1, <2>2, <2>3, HoldSteps, AstrayGrows
<1>2. QED
  BY <1>1, RequestSteps DEF ClosesEnded, RequestStep, At, Held

LEMMA LiveHoldHasOwnerKept ==
  ASSUME Ownership, Next
  PROVE  LiveHoldHasOwner'
<1> USE DEF Ownership
<1> SUFFICES ASSUME NEW h \in Hold, Held(h)'
             PROVE  EntriesOf(h)' # {} \/ InHand(h)' \/ h \in astray'
  BY DEF LiveHoldHasOwner
<1>1. CASE ~Held(h)
  <2>1. PICK p \in Proc : At(p, "assign")' /\ req'[p].hold = h
    BY <1>1, HoldSteps DEF Held
  <2>2. QED
    BY <2>1 DEF InHand, At
<1>2. CASE Held(h)
  <2>1. CASE h \in astray
    BY <2>1, AstrayGrows
  <2>2. ASSUME NEW e \in Entry, entry[e].hold = h PROVE EntriesOf(h)' # {} \/ h \in astray'
    <3>1. entry'[e].hold = h \/ h \in astray'
      BY <1>2, <2>2, LosesHold
    <3>2. QED
      BY <3>1 DEF EntriesOf
  <2>3. CASE InHand(h)
    BY <1>2, <2>3, HandsOn DEF InHand
  <2>4. QED
    BY <1>2, <2>1, <2>2, <2>3 DEF LiveHoldHasOwner, EntriesOf
<1>3. QED
  BY <1>1, <1>2

LEMMA BookedEntryIsConvertedKept ==
  ASSUME Ownership, Next
  PROVE  BookedEntryIsConverted'
<1> USE DEF Ownership
<1> SUFFICES ASSUME NEW e \in Entry, entry'[e].status = "OFFERED",
                    hold'[entry'[e].hold].status = "CONSUMED"
             PROVE  entry'[e].hold \in astray'
  BY DEF BookedEntryIsConverted
<1>1. ASSUME NEW p \in Proc, AssignOffer(p), req[p].entry = e PROVE entry'[e].hold \in astray'
  <2>1. entry'[e].hold = req[p].hold /\ hold' = hold
    BY <1>1 DEF AssignOffer, TypeOK
  <2>2. QED
    BY <1>1, <2>1 DEF AssignOffer, Held
<1>2. CASE entry'[e] = entry[e]
  <2> DEFINE h == entry[e].hold
  <2>1. h \in Hold /\ h # NoHold
    BY <1>2, WaitlistAssumption DEF TypeOK, EntryRow
  <2>2. CASE hold[h].status = "CONSUMED"
    BY <1>2, <2>2, AstrayGrows DEF BookedEntryIsConverted
  <2>3. CASE hold[h].status # "CONSUMED"
    <3>1. PICK p \in Proc : CommitBook(p) /\ req[p].hold = h
      BY <1>2, <2>1, <2>3, ConsumedBy
    <3>2. CASE req[p].entry = NoEntry
      BY <1>2, <3>1, <3>2 DEF CommitBook
    <3>3. CASE req[p].entry # NoEntry
      <4>1. req[p].entry \in Entry /\ entry[req[p].entry].hold = h
        BY <3>1, <3>3, RequestFacts DEF CommitBook, Request
      <4>2. req[p].entry = e
        BY <2>1, <4>1 DEF History
      <4>3. entry'[e].status = "CONVERTED"
        BY <3>1, <3>3, <4>2 DEF CommitBook, TypeOK, EntryRow
      <4>4. QED
        BY <4>3
    <3>4. QED
      BY <3>2, <3>3
  <2>4. QED
    BY <2>2, <2>3
<1>3. entry'[e] = entry[e] \/ \E p \in Proc : AssignOffer(p) /\ req[p].entry = e
  <2>1. CASE \E f \in Entry : Join(f)
    BY <2>1 DEF Join, TypeOK, EntryRow
  <2>2. CASE \E p \in Proc : AssignOffer(p)
    BY <2>2 DEF AssignOffer, TypeOK
  <2>3. CASE SettlesOne
    BY <2>3 DEF SettlesOne, TypeOK
  <2>4. QED
    BY <2>1, <2>2, <2>3, EntrySteps
<1>4. QED
  BY <1>1, <1>2, <1>3

THEOREM OwnershipInvariant == Safety => []Ownership
<1>1. Init => Ownership
  <2>1. Init => TypeOK
    BY WaitlistAssumption, IdleType DEF Init, TypeOK, Absent, EntryRow
  <2>2. Init => Fresh /\ AssignsOwn /\ History /\ Started /\ ClosesEnded
    BY WaitlistAssumption
       DEF Init, Absent, Idle, At, Fresh, AssignsOwn, History, Started, ClosesEnded
  <2>3. Init => LiveHoldHasOwner /\ BookedEntryIsConverted
    BY DEF Init, Absent, Held, LiveHoldHasOwner, BookedEntryIsConverted
  <2>4. QED
    BY <2>1, <2>2, <2>3 DEF Ownership
<1>2. Ownership /\ [Next]_vars => Ownership'
  <2>1. ASSUME Ownership, Next PROVE Ownership'
    <3>1. TypeOK'
      BY <2>1, StartsType, ProceedsType, FailsType, OthersType DEF Next, Ownership
    <3>2. QED
      BY <2>1, <3>1, FreshKept, HistoryKept, AssignsOwnKept, StartedKept, ClosesEndedKept,
         LiveHoldHasOwnerKept, BookedEntryIsConvertedKept
         DEF Ownership
  <2>2. ASSUME Ownership, UNCHANGED vars PROVE Ownership'
    <3> USE <2>2 DEF vars, Ownership
    <3>1. TypeOK'
      BY DEF TypeOK
    <3>2. Fresh' /\ AssignsOwn' /\ History' /\ Started' /\ ClosesEnded'
      BY DEF Fresh, AssignsOwn, History, Started, ClosesEnded, At, Held
    <3>3. LiveHoldHasOwner' /\ BookedEntryIsConverted'
      BY DEF LiveHoldHasOwner, BookedEntryIsConverted, Held, EntriesOf, InHand
    <3>4. QED
      BY <3>1, <3>2, <3>3
  <2>3. QED
    BY <2>1, <2>2
<1>3. QED
  BY <1>1, <1>2, PTL DEF Safety

\* No table is blocked for nobody: every HELD hold has an entry or a request that
\* will assign it or give it back, unless a crash, a failed cancellation or a blind
\* write set it adrift.
THEOREM HoldsHaveOwners == Safety => []LiveHoldHasOwner
<1>1. Ownership => LiveHoldHasOwner
  BY DEF Ownership
<1>2. QED
  BY <1>1, OwnershipInvariant, PTL

\* Booking an offered hold converts its entry in the same transaction.
THEOREM BookingConverts == Safety => []BookedEntryIsConverted
<1>1. Ownership => BookedEntryIsConverted
  BY DEF Ownership
<1>2. QED
  BY <1>1, OwnershipInvariant, PTL

\* The two writes of an offer implement the one step of Offers.
THEOREM OffersImplemented == Safety => OneOfferEach
<1> DEFINE st == [e \in Entry |-> entry[e].status]
<1>1. Init => Offers!Init
  BY DEF Init, Absent, Offers!Init
<1>2. ASSUME Ownership, Next PROVE Offers!Next \/ UNCHANGED <<st, offered>>
  <2> USE <1>2 DEF Ownership
  <2>1. CASE UNCHANGED <<entry, offered>>
    BY <2>1
  <2>2. ASSUME NEW e \in Entry, Join(e) PROVE Offers!Next
    <3>1. Offers!Join(e)
      BY <2>2 DEF Join, Offers!Join, TypeOK, EntryRow
    <3>2. QED
      BY <3>1 DEF Offers!Next
  <2>3. ASSUME NEW p \in Proc, AssignOffer(p) PROVE Offers!Next
    <3>1. req[p].entry \in Entry /\ req[p].hold \in Hold
      BY <2>3, RequestFacts DEF AssignOffer, At
    <3>2. PICK e \in Entry, h \in Hold : e = req[p].entry /\ h = req[p].hold
      BY <3>1
    <3>3. offered[e] = NoHold /\ \A f \in Entry : offered[f] # h
      BY <2>3, <3>2 DEF AssignOffer, History, AssignsOwn
    <3>4. Offers!Offer(e, h)
      BY <2>3, <3>2, <3>3 DEF AssignOffer, Offers!Offer, TypeOK
    <3>5. QED
      BY <3>4 DEF Offers!Next
  <2>4. CASE SettlesOne
    <3>1. PICK e \in Entry, row \in EntryRow :
            /\ entry[e].status # "none"
            /\ row.status \in {"CONVERTED", "EXPIRED"}
            /\ entry' = [entry EXCEPT ![e] = row]
            /\ offered' = offered
      BY <2>4 DEF SettlesOne
    <3>2. PICK outcome \in {"CONVERTED", "EXPIRED"} : outcome = row.status
      BY <3>1
    <3>3. Offers!Settle(e, outcome)
      BY <3>1, <3>2 DEF Offers!Settle, TypeOK
    <3>4. QED
      BY <3>3 DEF Offers!Next
  <2>5. QED
    BY <2>1, <2>2, <2>3, <2>4, EntrySteps
<1>3. UNCHANGED vars => UNCHANGED <<st, offered>>
  BY DEF vars
<1>4. QED
  BY <1>1, <1>2, <1>3, OwnershipInvariant, PTL DEF Safety, OneOfferEach, Offers!Spec
=============================================================================
