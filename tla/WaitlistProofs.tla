---------------------------- MODULE WaitlistProofs ----------------------------
(* Theorems about the safety part of Waitlist, for any entries, holds and      *)
(* requests.                                                                   *)
EXTENDS Waitlist, TLAPS

-----------------------------------------------------------------------------
(* Types.                                                                      *)

HoldRow == [status : {"none", "HELD", "CONSUMED", "EXPIRED"}, lapsed : BOOLEAN]

\* What the place of a request says of its record.
LEMMA RequestFacts ==
  ASSUME TypeOK, NEW p \in Proc
  PROVE  /\ req[p] \in Request
         /\ At(p, "idle") => req[p] = Idle
         /\ req[p].at \in {"offer", "assign", "reread", "close", "consume"}
              => req[p].entry \in Entry
         /\ req[p].at \in {"assign", "reread", "cancel", "void", "book"}
              => req[p].hold \in Hold
BY WaitlistAssumption DEF TypeOK, Request, At

LEMMA IdleType == Idle \in Request
BY DEF Idle, Request, Places

LEMMA AfterCancelType ==
  ASSUME TypeOK, NEW p \in Proc
  PROVE  AfterCancel(p) \in Request
<1>1. req[p] \in Request
  BY DEF TypeOK
<1>2. CASE req[p].closes
  <2>1. req[p].entry # NoEntry
    BY <1>1, <1>2 DEF Request
  <2>2. QED
    BY <1>1, <1>2, <2>1 DEF AfterCancel, Request, Places
<1>3. CASE ~req[p].closes
  BY <1>3, IdleType DEF AfterCancel
<1>4. QED
  BY <1>2, <1>3

\* A request moves to another place.
LEMMA MovesType ==
  ASSUME TypeOK, NEW p \in Proc, NEW r \in Request, Goes(p, r)
  PROVE  req' \in [Proc -> Request]
BY DEF TypeOK, Goes

LEMMA ConvertedType ==
  ASSUME NEW row \in EntryRow
  PROVE  Converted(row) \in EntryRow
BY DEF Converted, EntryRow

LEMMA StartsType ==
  ASSUME TypeOK, NEW p \in Proc, Starts(p)
  PROVE  TypeOK'
<1>1. CASE ReadForOffer(p)
  <2>1. PICK e \in Waiting : Goes(p, Offering(e))
    BY <1>1 DEF ReadForOffer
  <2>2. Offering(e) \in Request
    BY <2>1, WaitlistAssumption DEF Waiting, Offering, Idle, Request, Places
  <2>3. QED
    BY <1>1, <2>1, <2>2, MovesType DEF ReadForOffer, TypeOK
<1>2. CASE DeleteHold(p)
  <2>1. PICK h \in Hold : Goes(p, [Idle EXCEPT !.at = "cancel", !.hold = h])
    BY <1>2 DEF DeleteHold
  <2>2. [Idle EXCEPT !.at = "cancel", !.hold = h] \in Request
    BY <2>1, WaitlistAssumption DEF Idle, Request, Places
  <2>3. QED
    BY <1>2, <2>1, <2>2, MovesType DEF DeleteHold, TypeOK
<1>3. CASE ReadForExpire(p)
  <2>1. PICK e \in Entry :
          LET h == entry[e].hold IN
          Goes(p, [at     |-> IF h # NoHold /\ hold[h].status = "HELD" THEN "cancel" ELSE "close",
                   entry  |-> e, hold |-> h, closes |-> TRUE])
    BY <1>3 DEF ReadForExpire
  <2>2. entry[e].hold \in Hold \cup {NoHold}
    BY DEF TypeOK, EntryRow
  <2>3. PICK place \in {"cancel", "close"} :
          /\ place = "cancel" => entry[e].hold # NoHold
          /\ Goes(p, [at |-> place, entry |-> e, hold |-> entry[e].hold, closes |-> TRUE])
    BY <2>1
  <2>4. [at |-> place, entry |-> e, hold |-> entry[e].hold, closes |-> TRUE] \in Request
    BY <2>2, <2>3, WaitlistAssumption DEF Request, Places
  <2>5. QED
    BY <1>3, <2>3, <2>4, MovesType DEF ReadForExpire, TypeOK
<1>4. CASE ResolveExpired(p)
  <2>1. PICK e \in Entry, h \in Hold :
          Goes(p, [at |-> "cancel", entry |-> e, hold |-> h, closes |-> TRUE])
    BY <1>4 DEF ResolveExpired
  <2>2. [at |-> "cancel", entry |-> e, hold |-> h, closes |-> TRUE] \in Request
    BY <2>1, WaitlistAssumption DEF Request, Places
  <2>3. QED
    BY <1>4, <2>1, <2>2, MovesType DEF ResolveExpired, TypeOK
<1>5. CASE ReadForConsume(p)
  <2>1. PICK e \in Entry : Goes(p, [Idle EXCEPT !.at = "consume", !.entry = e])
    BY <1>5 DEF ReadForConsume
  <2>2. [Idle EXCEPT !.at = "consume", !.entry = e] \in Request
    BY <2>1, WaitlistAssumption DEF Idle, Request, Places
  <2>3. QED
    BY <1>5, <2>1, <2>2, MovesType DEF ReadForConsume, TypeOK
<1>6. CASE BeginBook(p)
  <2>1. PICK h \in Hold, e \in Entry \cup {NoEntry} :
          Goes(p, [Idle EXCEPT !.at = "book", !.hold = h, !.entry = e])
    BY <1>6 DEF BeginBook, EntriesOf
  <2>2. [Idle EXCEPT !.at = "book", !.hold = h, !.entry = e] \in Request
    BY <2>1, WaitlistAssumption DEF Idle, Request, Places
  <2>3. QED
    BY <1>6, <2>1, <2>2, MovesType DEF BeginBook, TypeOK
<1>7. QED
  BY <1>1, <1>2, <1>3, <1>4, <1>5, <1>6 DEF Starts

LEMMA ProceedsType ==
  ASSUME TypeOK, NEW p \in Proc, Proceeds(p)
  PROVE  TypeOK'
<1> USE RequestFacts
<1>1. CASE MakeHold(p)
  <2>1. PICK h \in Hold :
          /\ hold' = [hold EXCEPT ![h].status = "HELD"]
          /\ Goes(p, [req[p] EXCEPT !.at = "assign", !.hold = h])
    BY <1>1 DEF MakeHold
  <2>2. [req[p] EXCEPT !.at = "assign", !.hold = h] \in Request
    BY <1>1, <2>1, WaitlistAssumption DEF MakeHold, At, Request, Places
  <2>3. QED
    BY <1>1, <2>1, <2>2, MovesType DEF MakeHold, TypeOK
<1>2. CASE AssignOffer(p)
  <2>1. req[p].entry \in Entry /\ req[p].hold \in Hold
    BY <1>2 DEF AssignOffer, At
  <2>2. [status |-> "OFFERED", hold |-> req[p].hold, token |-> TRUE] \in EntryRow
    BY <2>1, WaitlistAssumption DEF EntryRow
  <2>3. [req[p] EXCEPT !.at = "reread"] \in Request
    BY <1>2, WaitlistAssumption DEF AssignOffer, At, Request, Places
  <2>4. req' \in [Proc -> Request]
    BY <1>2, <2>3 DEF AssignOffer, GoesTo, TypeOK
  <2>5. QED
    BY <1>2, <2>1, <2>2, <2>4 DEF AssignOffer, TypeOK
<1>3. CASE AssignNothing(p)
  <2>1. [req[p] EXCEPT !.at = "cancel"] \in Request
    BY <1>3, WaitlistAssumption DEF AssignNothing, At, Request, Places
  <2>2. QED
    BY <1>3, <2>1 DEF AssignNothing, GoesTo, TypeOK
<1>4. CASE OfferReturns(p)
  BY <1>4, IdleType, MovesType DEF OfferReturns, TypeOK
<1>5. CASE ReadForCancel(p)
  <2>1. [req[p] EXCEPT !.at = "void"] \in Request
    BY <1>5, WaitlistAssumption DEF ReadForCancel, At, Request, Places
  <2>2. AfterCancel(p) \in Request
    BY AfterCancelType
  <2>3. PICK r \in Request : Goes(p, r)
    BY <1>5, <2>1, <2>2 DEF ReadForCancel
  <2>4. QED
    BY <1>5, <2>3, MovesType DEF ReadForCancel, TypeOK
<1>6. CASE VoidHold(p)
  BY <1>6, AfterCancelType, MovesType DEF VoidHold, TypeOK
<1>7. CASE Close(p)
  <2>1. req[p].entry \in Entry
    BY <1>7 DEF Close, At
  <2>2. Closed \in EntryRow
    BY WaitlistAssumption DEF Closed, EntryRow
  <2>3. entry[req[p].entry].hold \in Hold \cup {NoHold}
    BY <2>1 DEF TypeOK, EntryRow
  <2>4. QED
    BY <1>7, <2>1, <2>2, <2>3, IdleType, MovesType DEF Close, TypeOK
<1>8. CASE Consume(p)
  <2>1. req[p].entry \in Entry
    BY <1>8 DEF Consume, At
  <2>2. Converted(entry[req[p].entry]) \in EntryRow
    BY <2>1, ConvertedType DEF TypeOK
  <2>3. entry' \in [Entry -> EntryRow]
    BY <1>8, <2>1, <2>2 DEF Consume, TypeOK
  <2>4. req' \in [Proc -> Request]
    BY <1>8, IdleType, MovesType DEF Consume
  <2>5. QED
    BY <1>8, <2>3, <2>4 DEF Consume, TypeOK
<1>9. CASE CommitBook(p)
  <2>1. req[p].hold \in Hold /\ req[p].entry \in Entry \cup {NoEntry}
    BY <1>9 DEF CommitBook, At, Request
  <2>2. entry' \in [Entry -> EntryRow]
    <3>1. CASE req[p].entry = NoEntry
      BY <1>9, <3>1 DEF CommitBook, TypeOK
    <3>2. CASE req[p].entry # NoEntry
      <4>1. [entry[req[p].entry] EXCEPT !.status = "CONVERTED"] \in EntryRow
        BY <2>1, <3>2 DEF TypeOK, EntryRow
      <4>2. QED
        BY <1>9, <3>2, <4>1 DEF CommitBook, TypeOK
    <3>3. QED
      BY <3>1, <3>2
  <2>3. QED
    BY <1>9, <2>1, <2>2, IdleType, MovesType DEF CommitBook, TypeOK
<1>10. CASE BookRefused(p)
  BY <1>10, IdleType, MovesType DEF BookRefused, TypeOK
<1>11. QED
  BY <1>1, <1>2, <1>3, <1>4, <1>5, <1>6, <1>7, <1>8, <1>9, <1>10 DEF Proceeds

LEMMA FailsType ==
  ASSUME TypeOK, NEW p \in Proc, Fails(p)
  PROVE  TypeOK'
<1> USE RequestFacts
<1>1. Fault => faults' \in 0..Faults
  BY WaitlistAssumption DEF Fault, TypeOK
<1>2. CASE AssignErrs(p)
  <2>1. [req[p] EXCEPT !.at = "cancel"] \in Request
    BY <1>2, WaitlistAssumption DEF AssignErrs, At, Request, Places
  <2>2. QED
    BY <1>1, <1>2, <2>1 DEF AssignErrs, GoesTo, TypeOK
<1>3. CASE CancelErrs(p)
  <2>1. req[p].hold \in Hold
    BY <1>3 DEF CancelErrs, At
  <2>2. QED
    BY <1>1, <1>3, <2>1, AfterCancelType, MovesType DEF CancelErrs, TypeOK
<1>4. CASE OfferRefused(p)
  BY <1>1, <1>4, IdleType, MovesType DEF OfferRefused, TypeOK
<1>5. CASE Crash(p)
  <2>1. astray' \subseteq Hold
    BY <1>5 DEF Crash, At, TypeOK
  <2>2. batch' \subseteq Entry
    BY <1>5 DEF Crash, TypeOK
  <2>3. QED
    BY <1>1, <1>5, <2>1, <2>2, IdleType, MovesType DEF Crash, TypeOK
<1>6. QED
  BY <1>2, <1>3, <1>4, <1>5 DEF Fails

LEMMA OthersType ==
  ASSUME TypeOK, \/ \E e \in Entry : Join(e) \/ Convert(e)
                 \/ \E h \in Hold : Lapse(h)
                 \/ Promotes \/ Sweeps
  PROVE  TypeOK'
<1>1. ASSUME NEW e \in Entry, Join(e) PROVE TypeOK'
  <2>1. [entry[e] EXCEPT !.status = "WAITING"] \in EntryRow
    BY <1>1 DEF Join, TypeOK, EntryRow
  <2>2. QED
    BY <1>1, <2>1 DEF Join, TypeOK
<1>2. ASSUME NEW e \in Entry, Convert(e) PROVE TypeOK'
  <2>1. Converted(entry[e]) \in EntryRow
    BY ConvertedType DEF TypeOK
  <2>2. QED
    BY <1>2, <2>1 DEF Convert, TypeOK
<1>3. ASSUME NEW h \in Hold, Lapse(h) PROVE TypeOK'
  BY <1>3 DEF Lapse, TypeOK
<1>4. CASE PromoterPolls
  BY <1>4 DEF PromoterPolls, FirstWaiting, Waiting, TypeOK
<1>5. CASE PromoterTakes
  <2>1. PICK e \in batch :
          /\ batch' = batch \ {e}
          /\ Goes(promoter, IF e \in Fits \cap Waiting THEN Offering(e) ELSE Idle)
    BY <1>5 DEF PromoterTakes
  <2>2. Offering(e) \in Request
    BY <2>1, WaitlistAssumption DEF TypeOK, Offering, Idle, Request, Places
  <2>3. QED
    BY <1>5, <2>1, <2>2, IdleType, MovesType, WaitlistAssumption DEF PromoterTakes, TypeOK
<1>6. CASE Sweeps
  BY <1>6 DEF Sweeps, SweepReads, SweepWrites, Due, TypeOK
<1>7. QED
  BY <1>1, <1>2, <1>3, <1>4, <1>5, <1>6 DEF Promotes

\* Every variable keeps its type: an entry has a hold and a code while it is
\* OFFERED, and none once it is EXPIRED, whatever requests race for it.
THEOREM Typing == Safety => []TypeOK
<1>1. Init => TypeOK
  BY WaitlistAssumption, IdleType DEF Init, TypeOK, Absent, EntryRow
<1>2. TypeOK /\ [Next]_vars => TypeOK'
  <2>1. TypeOK /\ Next => TypeOK'
    BY StartsType, ProceedsType, FailsType, OthersType DEF Next
  <2>2. TypeOK /\ UNCHANGED vars => TypeOK'
    BY DEF vars, TypeOK
  <2>3. QED
    BY <2>1, <2>2
<1>3. QED
  BY <1>1, <1>2, PTL DEF Safety
=============================================================================
