----------------------------- MODULE BookingHolds -----------------------------
(* Theorems about holds and reservations together: a hold that outlasts the   *)
(* start of its slot keeps its table while it lasts, advisory locks are never *)
(* waited for in a circle, and the handlers implement the ledger of claims.   *)
EXTENDS BookingExclusion, FiniteSetTheorems, WellFoundedInduction

-----------------------------------------------------------------------------
(* What a step does to a request and to the holds.                            *)

\* The request does nothing, and what it has read is unchanged or known to be stale.
Kept(q) ==
  /\ plan'[q] = plan[q] /\ pc'[q] = pc[q] /\ seen'[q] = seen[q]
  /\ doomed[q] => doomed'[q]
  /\ stale[q] => stale'[q]
  /\ plan[q].res \in Res => res'[plan[q].res] = res[plan[q].res] \/ stale'[q]

LEMMA WriteKeeps ==
  ASSUME TypeOK, Reading, NEW p \in Proc, EndsWriting(p),
         \A r \in Res : res'[r] = res[r] \/ res[r].status = "none" \/ r = plan[p].res,
         NEW q \in Proc
  PROVE  pc'[q] # "tx" \/ Kept(q)
<1>1. CASE q = p
  BY <1>1 DEF EndsWriting, TypeOK, ProcsOK
<1>2. CASE q # p
  <2>1. plan[q].res \in Res => res[plan[q].res].status # "none"
    BY DEF Reading, Informed
  <2>2. QED
    BY <1>2, <2>1, EndsWritingOthers DEF Kept
<1>3. QED
  BY <1>1, <1>2

\* A request takes its snapshot, or is in no transaction afterwards, or is kept.
LEMMA RequestSteps ==
  ASSUME TypeOK, Reading, [Next]_vars, NEW q \in Proc
  PROVE  (\E m : TakesSnapshot(q, m)) \/ pc'[q] # "tx" \/ Kept(q)
<1>1. ASSUME NEW p \in Proc, NEW m, TakesSnapshot(p, m)
      PROVE  p = q \/ Kept(q)
  BY <1>1 DEF TakesSnapshot, rows, TypeOK, ProcsOK, Kept
<1>2. ASSUME NEW p \in Proc, NEW m, ReadsOutside(p, m)
      PROVE  pc'[q] # "tx" \/ Kept(q)
  BY <1>2 DEF ReadsOutside, rows, TypeOK, ProcsOK, Kept
<1>3. ASSUME NEW p \in Proc, CommitCreate(p) \/ CommitConvert(p)
      PROVE  pc'[q] # "tx" \/ Kept(q)
  <2>1. EndsWriting(p) /\ InsertsReservation(p)
    BY <1>3 DEF CommitCreate, CommitConvert
  <2>2. \A r \in Res : res'[r] = res[r] \/ res[r].status = "none"
    BY <2>1 DEF InsertsReservation, TypeOK, RowsOK
  <2>3. QED
    BY <2>1, <2>2, WriteKeeps
<1>4. ASSUME NEW p \in Proc, CommitUpdate(p) \/ CommitAssign(p) \/ WriteStatus(p)
      PROVE  pc'[q] # "tx" \/ Kept(q)
  <2>1. EndsWriting(p) /\ res' = [res EXCEPT ![plan[p].res] = NewRow(p)]
    BY <1>4 DEF CommitUpdate, CommitAssign, WriteStatus, WritesReservation
  <2>2. \A r \in Res : res'[r] = res[r] \/ r = plan[p].res
    BY <2>1 DEF TypeOK, RowsOK
  <2>3. QED
    BY <2>1, <2>2, WriteKeeps
<1>5. ASSUME NEW p \in Proc, CommitHold(p) \/ WriteExpired(p)
      PROVE  pc'[q] # "tx" \/ Kept(q)
  BY <1>5, WriteKeeps DEF CommitHold, WriteExpired
<1>6. ASSUME NEW p \in Proc, AcquireLock(p) \/ Fail(p)
      PROVE  pc'[q] # "tx" \/ Kept(q)
  BY <1>6 DEF AcquireLock, Fail, rows, TypeOK, ProcsOK, Kept
<1>7. ASSUME NEW r \in Res, Remove(r)
      PROVE  Kept(q)
  <2>1. \A o \in Res : res'[o] = res[o] \/ o = r
    BY <1>7 DEF Remove, TypeOK, RowsOK
  <2>2. /\ doomed[q] => doomed'[q]
        /\ stale[q] => stale'[q]
        /\ plan[q].res = r => stale'[q]
    BY <1>7 DEF Remove, Ages, WrittenRes
  <2>3. QED
    BY <1>7, <2>1, <2>2 DEF Remove, Kept
<1>8. ASSUME ListHolds \/ (\E h \in Hold : Lapse(h)) \/ UNCHANGED vars
      PROVE  Kept(q)
  BY <1>8 DEF ListHolds, Lapse, vars, rows, procs, Kept
<1>9. ASSUME NEW p \in Proc, BeginCreate(p) \/ BeginConvert(p) \/ BeginHold(p) \/ BeginUpdate(p)
      PROVE  \E m : TakesSnapshot(p, m)
  BY <1>9 DEF BeginCreate, BeginConvert, BeginHold, BeginUpdate
<1>10. ASSUME NEW p \in Proc, ReadForUpdate(p) \/ ReadForAssign(p) \/ ReadForStatus(p)
                              \/ ReadForCancel(p) \/ ReadForSweep(p)
       PROVE  \E m : ReadsOutside(p, m)
  BY <1>10 DEF ReadForUpdate, ReadForAssign, ReadForStatus, ReadForCancel, ReadForSweep
<1>11. ASSUME NEW p \in Proc, Request(p)
       PROVE  (\E m : TakesSnapshot(q, m)) \/ pc'[q] # "tx" \/ Kept(q)
  BY <1>1, <1>2, <1>3, <1>4, <1>5, <1>6, <1>9, <1>10, <1>11 DEF Request
<1>12. QED
  BY <1>7, <1>8, <1>11 DEF Next

\* No hold begins, and none changes while it lasts.
HoldsOnlyEnd ==
  \A h \in Hold : Alive(h)' => Alive(h) /\ HoldClaim(h)' = HoldClaim(h)

LEMMA HoldWrites ==
  ASSUME TypeOK, [Next]_vars
  PROVE  HoldsOnlyEnd \/ \E p \in Proc : CommitHold(p)
<1>1. ASSUME hold' = hold
      PROVE  HoldsOnlyEnd
  BY <1>1 DEF HoldsOnlyEnd, Alive, Guards, Held, HoldClaim
<1>2. ASSUME NEW p \in Proc, BeginCreate(p) \/ BeginConvert(p) \/ BeginHold(p) \/ BeginUpdate(p)
      PROVE  hold' = hold
  BY <1>2 DEF BeginCreate, BeginConvert, BeginHold, BeginUpdate, TakesSnapshot, rows
<1>3. ASSUME NEW p \in Proc, ReadForUpdate(p) \/ ReadForAssign(p) \/ ReadForStatus(p)
                             \/ ReadForCancel(p) \/ ReadForSweep(p)
      PROVE  hold' = hold
  BY <1>3 DEF ReadForUpdate, ReadForAssign, ReadForStatus, ReadForCancel, ReadForSweep,
              ReadsOutside, rows
<1>4. ASSUME NEW p \in Proc, \/ CommitCreate(p) \/ CommitUpdate(p) \/ CommitAssign(p)
                             \/ WriteStatus(p) \/ AcquireLock(p) \/ Fail(p)
      PROVE  hold' = hold
  BY <1>4 DEF CommitCreate, CommitUpdate, CommitAssign, WriteStatus, WritesReservation,
              AcquireLock, Fail, rows
<1>5. ASSUME \A h \in Hold : hold'[h] = hold[h] \/ hold'[h].status # "HELD" \/ hold'[h].lapsed
      PROVE  HoldsOnlyEnd
  BY <1>5 DEF HoldsOnlyEnd, Alive, Guards, Held, HoldClaim
<1>6. ASSUME NEW p \in Proc, CommitConvert(p)
      PROVE  HoldsOnlyEnd
  <2>1. \A h \in Hold : hold'[h] = hold[h] \/ hold'[h].status = "CONSUMED"
    BY <1>6 DEF CommitConvert, TypeOK, RowsOK, HoldRow
  <2>2. QED
    BY <1>5, <2>1
<1>7. ASSUME NEW p \in Proc, WriteExpired(p)
      PROVE  HoldsOnlyEnd
  <2>1. \A h \in Hold : hold'[h] = hold[h] \/ hold'[h].status = "EXPIRED"
    BY <1>7 DEF WriteExpired, TypeOK, RowsOK, HoldRow
  <2>2. QED
    BY <1>5, <2>1
<1>8. CASE ListHolds
  <2>1. \A h \in Hold : hold'[h] = hold[h] \/ hold'[h].status = "EXPIRED"
    BY <1>8 DEF ListHolds, TypeOK, RowsOK, HoldRow
  <2>2. QED
    BY <1>5, <2>1
<1>9. ASSUME NEW g \in Hold, Lapse(g)
      PROVE  HoldsOnlyEnd
  <2>1. \A h \in Hold : hold'[h] = hold[h] \/ hold'[h].lapsed
    BY <1>9 DEF Lapse, TypeOK, RowsOK, HoldRow
  <2>2. QED
    BY <1>5, <2>1
<1>10. CASE (\E r \in Res : Remove(r)) \/ UNCHANGED vars
  BY <1>1, <1>10 DEF Remove, vars, rows
<1>11. QED
  BY <1>1, <1>2, <1>3, <1>4, <1>6, <1>7, <1>8, <1>9, <1>10 DEF Next, Request

-----------------------------------------------------------------------------
(* Transactions see every hold that matters to them.                          *)

\* A request that may still claim has found every live hold that outlasts the start of
\* its slot and clashes with what it is about to write, except the one it converts.
Spots(q) ==
  MayClaim(q) =>
    \A h \in Hold \ {plan[q].hold} :
      Alive(h) /\ Clash(NewRow(q), HoldClaim(h)) => h \in seen[q]

SeesEveryHold == \A q \in Proc : Spots(q)

\* What a request that may claim writes is what it wrote before it was kept.
LEMMA KeptTarget ==
  ASSUME TypeOK, Phases, NEW q \in Proc, Kept(q), MayClaim(q)'
  PROVE  NewRow(q)' = NewRow(q) /\ MayClaim(q)
<1>1. \/ plan[q].res = NoRes /\ plan[q].tables # Keep
      \/ plan[q].res \in Res /\ res'[plan[q].res] = res[plan[q].res]
  <2>1. plan[q].op \in Claims /\ ~stale'[q]
    BY ClaimingOps DEF MayClaim, Kept
  <2>2. CASE Inserts(plan[q])
    <3>1. plan[q].table \in Table \cup {NoTable}
      BY <2>2, PlanShape DEF Inserts, Plan
    <3>2. QED
      BY <2>2, <3>1, AskedFacts DEF Inserts
  <2>3. CASE plan[q].res \in Res
    BY <2>1, <2>3 DEF Kept
  <2>4. QED
    BY <2>1, <2>2, <2>3, PlanShape DEF Claims, Updates, Assigns
<1>2. QED
  BY <1>1, TargetKept DEF Kept

LEMMA KeptSpots ==
  ASSUME TypeOK, Phases, NEW q \in Proc, Kept(q), Spots(q), HoldsOnlyEnd
  PROVE  Spots(q)'
<1> SUFFICES ASSUME MayClaim(q)', NEW h \in Hold, (h # plan[q].hold)', Alive(h)',
                    Clash(NewRow(q), HoldClaim(h))'
             PROVE  (h \in seen[q])'
  BY DEF Spots
<1>1. NewRow(q)' = NewRow(q) /\ MayClaim(q)
  BY KeptTarget
<1>2. Alive(h) /\ HoldClaim(h)' = HoldClaim(h)
  BY DEF HoldsOnlyEnd
<1>3. Clash(NewRow(q), HoldClaim(h))
  BY <1>1, <1>2 DEF Clash, Occupies
<1>4. QED
  BY <1>1, <1>2, <1>3 DEF Spots, Kept

LEMMA SnapshotSpots ==
  ASSUME TypeOK, Phases, Reading, TypeOK', Phases', Reading',
         NEW q \in Proc, NEW m, TakesSnapshot(q, m)
  PROVE  Spots(q)'
<1> SUFFICES ASSUME MayClaim(q)', NEW h \in Hold, (h # plan[q].hold)', Alive(h)',
                    Clash(NewRow(q), HoldClaim(h))'
             PROVE  (h \in seen[q])'
  BY DEF Spots
<1>1. Aims(q)'
  BY NextClaimsAim DEF ClaimsAim
<1>2. plan'[q] = m /\ hold' = hold /\ seen'[q] = IF m.check THEN FindSlotConflicts(m) ELSE {}
  BY DEF TakesSnapshot, rows, TypeOK, ProcsOK
<1>3. m.check /\ hold[h].slot = m.at /\ TableMatches(Range(m.req), {hold[h].table})
  BY <1>1, <1>2 DEF Aims, Clash, TableMatches, Occupies, HoldClaim
<1>4. Held(h) /\ ~hold[h].lapsed /\ hold[h].outlasts /\ h # m.hold
  BY <1>2 DEF Alive, Guards, Held
<1>5. QED
  BY <1>2, <1>3, <1>4 DEF FindSlotConflicts, ConflictingHolds

\* What the transaction of a hold is about to write.
LEMMA HoldTarget ==
  ASSUME TypeOK, Phases, Reading, NEW p \in Proc, plan[p].op = "hold"
  PROVE  /\ pc[p] = "tx" /\ plan[p].res = NoRes /\ plan[p].hold = NoHold
         /\ NewRow(p).status = "HELD" /\ NewRow(p).slot = plan[p].slot
         /\ Occupies(NewRow(p)) = {plan[p].table}
         /\ Aims(p) /\ Claiming(NewRow(p))
         /\ ~doomed[p] => MayClaim(p)
<1>1. Inserts(plan[p]) /\ plan[p].table \in Table \cup {NoTable}
  BY PlanShape DEF Inserts, Plan
<1>2. plan[p].tables = Just(plan[p].table) /\ Just(plan[p].table) # Keep
  BY <1>1, AskedFacts DEF Inserts
<1>3. /\ plan[p].status = "HELD" /\ plan[p].status # Keep
      /\ plan[p].slot # Keep /\ plan[p].table # Keep
      /\ plan[p].res = NoRes /\ plan[p].hold = NoHold
  BY <1>1, ConstantsAssumption DEF Inserts
<1>4. /\ NewRow(p).status = "HELD" /\ NewRow(p).slot = plan[p].slot
      /\ NewRow(p).table = plan[p].table /\ NewRow(p).tables = Just(plan[p].table)
  BY <1>2, <1>3 DEF NewRow, Chosen
<1>5. Occupies(NewRow(p)) = {plan[p].table}
  BY <1>4 DEF Occupies, Just
<1>6. pc[p] = "tx" /\ ~stale[p] /\ Reclaims(plan[p]) /\ ~MovesJoined(p)
  BY InsertionClaims DEF Phases
<1>7. Aims(p) /\ Claiming(NewRow(p))
  BY <1>4, <1>6, ClaimAims DEF Reading, Claiming
<1>8. QED
  BY <1>3, <1>4, <1>5, <1>6, <1>7 DEF MayClaim

LEMMA CommitHoldFacts ==
  ASSUME TypeOK, Phases, Reading, NEW p \in Proc, CommitHold(p)
  PROVE  \E w \in Hold :
           /\ hold[w].status = "none"
           /\ HoldClaim(w)' = [slot |-> plan[p].slot, table |-> plan[p].table, tables |-> {}]
           /\ \A h \in Hold \ {w} : hold'[h] = hold[h]
<1>1. PICK w \in Hold :
        /\ hold[w].status = "none"
        /\ hold' = [hold EXCEPT ![w] =
             [status |-> "HELD", slot |-> plan[p].slot, table |-> plan[p].table,
              lapsed |-> FALSE, outlasts |-> plan[p].outlasts]]
  BY DEF CommitHold
<1>2. /\ hold'[w] = [status |-> "HELD", slot |-> plan[p].slot, table |-> plan[p].table,
                     lapsed |-> FALSE, outlasts |-> plan[p].outlasts]
      /\ \A h \in Hold \ {w} : hold'[h] = hold[h]
  BY <1>1 DEF TypeOK, RowsOK
<1>3. hold'[w].slot = plan[p].slot /\ hold'[w].table = plan[p].table
  BY <1>2
<1>4. HoldClaim(w)' = [slot |-> plan[p].slot, table |-> plan[p].table, tables |-> {}]
  BY <1>3 DEF HoldClaim
<1>5. QED
  BY <1>1, <1>2, <1>4

\* A hold is made while q may still claim: then it does not clash, or the database
\* refuses q.
LEMMA NewHoldSpots ==
  ASSUME TypeOK, Phases, Reading, NEW p \in Proc, CommitHold(p),
         NEW q \in Proc, Kept(q), Spots(q), q # p
  PROVE  Spots(q)'
<1> SUFFICES ASSUME MayClaim(q)', NEW h \in Hold, (h # plan[q].hold)', Alive(h)',
                    Clash(NewRow(q), HoldClaim(h))'
             PROVE  (h \in seen[q])'
  BY DEF Spots
<1>1. NewRow(q)' = NewRow(q) /\ MayClaim(q)
  BY KeptTarget
<1>2. PICK w \in Hold :
        /\ HoldClaim(w)' = [slot |-> plan[p].slot, table |-> plan[p].table, tables |-> {}]
        /\ \A g \in Hold \ {w} : hold'[g] = hold[g]
  BY CommitHoldFacts
<1>3. CASE h = w
  <2>1. plan[p].op = "hold" /\ EndsWriting(p)
    BY DEF CommitHold, CanCommit
  <2>2. /\ pc[p] = "tx" /\ Aims(p) /\ Claiming(NewRow(p))
        /\ NewRow(p).slot = plan[p].slot /\ Occupies(NewRow(p)) = {plan[p].table}
    BY <2>1, HoldTarget
  <2>3. Clash(NewRow(q), NewRow(p))
    <3>1. /\ HoldClaim(w)'.slot = plan[p].slot
          /\ Occupies(HoldClaim(w)') = {plan[p].table}
      BY <1>2 DEF Occupies
    <3>2. Clash(NewRow(q), HoldClaim(w)')
      BY <1>1, <1>3 DEF Clash, Occupies
    <3>3. QED
      BY <2>2, <3>1, <3>2 DEF Clash
  <2>4. Aims(q) /\ Claiming(NewRow(q)) /\ pc[q] = "tx"
    BY <1>1, MayClaimAims DEF Reading, MayClaim
  <2>5. Rivals(p, q)
    BY <2>2, <2>3, <2>4, ClashingRivals, ClashSymmetric
  <2>6. doomed'[q]
    BY <2>1, <2>4, <2>5, EndsWritingOthers
  <2>7. QED
    BY <2>6 DEF MayClaim
<1>4. CASE h # w
  <2>1. hold'[h] = hold[h]
    BY <1>2, <1>4
  <2>2. Alive(h) /\ Clash(NewRow(q), HoldClaim(h))
    BY <1>1, <2>1 DEF Alive, Guards, Held, HoldClaim, Clash, Occupies
  <2>3. QED
    BY <1>1, <2>2 DEF Spots, Kept
<1>5. QED
  BY <1>3, <1>4

LEMMA SpotsStep ==
  ASSUME TypeOK, Phases, Reading, TypeOK', Phases', Reading', SeesEveryHold, [Next]_vars
  PROVE  SeesEveryHold'
<1>1. SUFFICES ASSUME NEW q \in Proc PROVE Spots(q)'
  BY DEF SeesEveryHold, Spots
<1>2. Spots(q)
  BY DEF SeesEveryHold
<1>3. CASE \E m : TakesSnapshot(q, m)
  BY <1>3, SnapshotSpots
<1>4. CASE pc'[q] # "tx"
  BY <1>4 DEF Spots, MayClaim
<1>5. CASE Kept(q) /\ HoldsOnlyEnd
  BY <1>2, <1>5, KeptSpots
<1>6. ASSUME NEW p \in Proc, CommitHold(p), Kept(q)
      PROVE  Spots(q)'
  <2>1. CASE q = p
    BY <1>4, <1>6, <2>1 DEF CommitHold, EndsWriting, TypeOK, ProcsOK
  <2>2. CASE q # p
    BY <1>2, <1>6, <2>2, NewHoldSpots
  <2>3. QED
    BY <2>1, <2>2
<1>7. QED
  BY <1>3, <1>4, <1>5, <1>6, RequestSteps, HoldWrites

LEMMA HoldsAreSeen == Spec => []SeesEveryHold
<1>1. Init => SeesEveryHold
  BY DEF Init, SeesEveryHold, Spots, MayClaim
<1>2. QED
  BY <1>1, Typing, RequestPhases, RequestsRead, SpotsStep, PTL DEF Spec

-----------------------------------------------------------------------------
(* A hold keeps its table.                                                    *)

\* No two live holds share a table, and no reservation but a tainted one takes the
\* table of a live hold; both together are the inductive form of the property.
HoldsExclude ==
  \A h, g \in Hold : g # h /\ Alive(h) /\ Alive(g) => ~Clash(HoldClaim(h), HoldClaim(g))

TablesKept ==
  \A h \in Hold, r \in Res \ taint :
    Alive(h) /\ Blocking(res[r]) => ~Clash(HoldClaim(h), res[r])

LEMMA HoldClaimForm ==
  ASSUME NEW h
  PROVE  HoldClaim(h).slot = hold[h].slot /\ Occupies(HoldClaim(h)) = {hold[h].table}
BY DEF HoldClaim, Occupies

\* A claim that commits clashes with no live hold but the one it converts.
LEMMA CommittedOverHolds ==
  ASSUME TypeOK, Phases, Reading, SeesEveryHold, NEW p \in Proc, CanCommit(p, plan[p].op),
         ~stale[p], Reclaims(plan[p]), ~MovesJoined(p), Claiming(NewRow(p)),
         NEW h \in Hold, h # plan[p].hold, Alive(h)
  PROVE  ~Clash(NewRow(p), HoldClaim(h))
<1>1. MayClaim(p)
  BY DEF MayClaim, CanCommit
<1>2. plan[p].check
  BY <1>1, MayClaimAims DEF Reading, Aims
<1>3. h \notin seen[p]
  BY <1>2 DEF CanCommit, SlotIsFree, Alive, Guards
<1>4. QED
  BY <1>1, <1>3 DEF SeesEveryHold, Spots

LEMMA HoldMade ==
  ASSUME TypeOK, Phases, Reading, SeesEveryClash, SeesEveryHold, HoldsExclude, TablesKept,
         NEW p \in Proc, CommitHold(p)
  PROVE  HoldsExclude' /\ TablesKept'
<1>1. PICK w \in Hold :
        /\ HoldClaim(w)' = [slot |-> plan[p].slot, table |-> plan[p].table, tables |-> {}]
        /\ \A h \in Hold \ {w} : hold'[h] = hold[h]
  BY CommitHoldFacts
<1>2. /\ CanCommit(p, plan[p].op) /\ plan[p].op = "hold"
      /\ UNCHANGED <<res, taint>>
  BY DEF CommitHold, CanCommit
<1>3. /\ plan[p].res = NoRes /\ plan[p].hold = NoHold /\ Claiming(NewRow(p))
      /\ NewRow(p).slot = plan[p].slot /\ Occupies(NewRow(p)) = {plan[p].table}
      /\ ~stale[p] /\ Reclaims(plan[p]) /\ ~MovesJoined(p)
  BY <1>2, HoldTarget, InsertionClaims
<1>4. /\ HoldClaim(w)'.slot = NewRow(p).slot
      /\ Occupies(HoldClaim(w)') = Occupies(NewRow(p))
  BY <1>1, <1>3 DEF Occupies
<1>5. ASSUME NEW h \in Hold \ {w}
      PROVE  /\ Alive(h)' <=> Alive(h)
             /\ HoldClaim(h)' = HoldClaim(h)
  BY <1>1 DEF Alive, Guards, Held, HoldClaim
<1>6. ASSUME NEW h \in Hold \ {w}, Alive(h)
      PROVE  ~Clash(HoldClaim(w)', HoldClaim(h))
  <2>1. h # plan[p].hold
    BY <1>3, ConstantsAssumption
  <2>2. ~Clash(NewRow(p), HoldClaim(h))
    BY <1>2, <1>3, <1>6, <2>1, CommittedOverHolds
  <2>3. QED
    BY <1>4, <2>2 DEF Clash
<1>7. ASSUME NEW o \in Res \ taint, Blocking(res[o])
      PROVE  ~Clash(HoldClaim(w)', res[o])
  <2>1. o # plan[p].res
    BY <1>3, ConstantsAssumption
  <2>2. ~Clash(NewRow(p), res[o])
    BY <1>2, <1>3, <1>7, <2>1, CommittedClaim
  <2>3. QED
    BY <1>4, <2>2 DEF Clash
<1>8. HoldsExclude'
  <2>1. SUFFICES ASSUME NEW h \in Hold, NEW g \in Hold, g # h, Alive(h)', Alive(g)'
                 PROVE  ~Clash(HoldClaim(h)', HoldClaim(g)')
    BY DEF HoldsExclude, Clash, Occupies
  <2>2. CASE h = w
    BY <1>5, <1>6, <2>1, <2>2
  <2>3. CASE g = w
    BY <1>5, <1>6, <2>1, <2>3, ClashSymmetric
  <2>4. CASE h # w /\ g # w
    BY <1>5, <2>1, <2>4 DEF HoldsExclude
  <2>5. QED
    BY <2>2, <2>3, <2>4
<1>9. TablesKept'
  <2>1. SUFFICES ASSUME NEW h \in Hold, NEW o \in Res \ taint, Alive(h)', Blocking(res[o])
                 PROVE  ~Clash(HoldClaim(h)', res[o])
    BY <1>2 DEF TablesKept, Clash, Occupies, Blocking
  <2>2. CASE h = w
    BY <1>7, <2>1, <2>2
  <2>3. CASE h # w
    BY <1>5, <2>1, <2>3 DEF TablesKept
  <2>4. QED
    BY <2>2, <2>3
<1>10. QED
  BY <1>8, <1>9

\* The row w is written, and it clashes with no hold that is left.
LEMMA RowOverHolds ==
  ASSUME TablesKept, HoldsOnlyEnd, NEW w \in Res, taint \subseteq taint',
         \A o \in Res \ {w} : res'[o] = res[o],
         w \in taint' \/ \A h \in Hold :
           Alive(h) /\ Alive(h)' /\ Blocking(res'[w]) => ~Clash(res'[w], HoldClaim(h))
  PROVE  TablesKept'
<1>1. SUFFICES ASSUME NEW h \in Hold, NEW o \in Res, o \notin taint', Alive(h)', Blocking(res'[o])
               PROVE  ~Clash(HoldClaim(h)', res'[o])
  BY DEF TablesKept, Clash, Occupies, Blocking
<1>2. Alive(h) /\ HoldClaim(h)' = HoldClaim(h)
  BY <1>1 DEF HoldsOnlyEnd
<1>3. CASE o = w
  BY <1>1, <1>2, <1>3, ClashSymmetric
<1>4. CASE o # w
  <2>1. res'[o] = res[o] /\ o \notin taint
    BY <1>1, <1>4
  <2>2. QED
    BY <1>1, <1>2, <2>1 DEF TablesKept
<1>5. QED
  BY <1>3, <1>4

LEMMA HoldsEnd ==
  ASSUME HoldsExclude, HoldsOnlyEnd
  PROVE  HoldsExclude'
<1>1. SUFFICES ASSUME NEW h \in Hold, NEW g \in Hold, g # h, Alive(h)', Alive(g)'
               PROVE  ~Clash(HoldClaim(h)', HoldClaim(g)')
  BY DEF HoldsExclude, Clash, Occupies
<1>2. /\ Alive(h) /\ HoldClaim(h)' = HoldClaim(h)
      /\ Alive(g) /\ HoldClaim(g)' = HoldClaim(g)
  BY <1>1 DEF HoldsOnlyEnd
<1>3. QED
  BY <1>1, <1>2 DEF HoldsExclude

LEMMA KeepsStep ==
  ASSUME TypeOK, Phases, Reading, SeesEveryClash, SeesEveryHold, HoldsExclude, TablesKept,
         [Next]_vars, taint \subseteq taint'
  PROVE  HoldsExclude' /\ TablesKept'
<1>1. CASE \E p \in Proc : CommitHold(p)
  BY <1>1, HoldMade
<1>2. CASE HoldsOnlyEnd /\ res' = res
  <2>1. TablesKept'
    <3>1. SUFFICES ASSUME NEW h \in Hold, NEW o \in Res, o \notin taint', Alive(h)',
                          Blocking(res[o])
                   PROVE  ~Clash(HoldClaim(h)', res[o])
      BY <1>2 DEF TablesKept, Clash, Occupies, Blocking
    <3>2. Alive(h) /\ HoldClaim(h)' = HoldClaim(h)
      BY <1>2, <3>1 DEF HoldsOnlyEnd
    <3>3. QED
      BY <3>1, <3>2 DEF TablesKept
  <2>2. QED
    BY <1>2, <2>1, HoldsEnd
<1>3. ASSUME HoldsOnlyEnd, NEW p \in Proc, CommitCreate(p) \/ CommitConvert(p)
      PROVE  TablesKept'
  <2>1. /\ plan[p].op \in {"create", "convert"} /\ CanCommit(p, plan[p].op)
        /\ InsertsReservation(p)
    BY <1>3 DEF CommitCreate, CommitConvert, CanCommit
  <2>2. PICK w \in Res : res' = [res EXCEPT ![w] = NewRow(p)]
    BY <2>1 DEF InsertsReservation
  <2>3. res'[w] = NewRow(p) /\ \A o \in Res \ {w} : res'[o] = res[o]
    BY <2>2 DEF TypeOK, RowsOK
  <2>4. ~stale[p] /\ Reclaims(plan[p]) /\ ~MovesJoined(p)
    BY <2>1, InsertionClaims
  <2>5. ASSUME NEW h \in Hold, Alive(h)'
        PROVE  h # plan[p].hold
    <3>1. CASE CommitCreate(p)
      <4>1. plan[p].op = "create" /\ Inserts(plan[p])
        BY <3>1, PlanShape DEF CommitCreate, CanCommit
      <4>2. QED
        BY <4>1, ConstantsAssumption DEF Inserts
    <3>2. CASE CommitConvert(p)
      <4>1. h = plan[p].hold => hold'[h].status = "CONSUMED"
        BY <3>2 DEF CommitConvert, TypeOK, RowsOK, HoldRow
      <4>2. QED
        BY <2>5, <4>1 DEF Alive, Guards, Held
    <3>3. QED
      BY <1>3, <3>1, <3>2
  <2>6. ASSUME NEW h \in Hold, Alive(h), Alive(h)', Blocking(res'[w])
        PROVE  ~Clash(res'[w], HoldClaim(h))
    BY <2>1, <2>3, <2>4, <2>5, <2>6, CommittedOverHolds DEF Claiming
  <2>7. taint \subseteq taint'
    OBVIOUS
  <2>8. QED
    BY <1>3, <2>3, <2>6, <2>7, RowOverHolds
<1>4. ASSUME HoldsOnlyEnd, NEW p \in Proc, WritesReservation(p),
             \/ plan[p].op \in {"update", "assign"} /\ CanCommit(p, plan[p].op)
             \/ plan[p].op = "status"
      PROVE  TablesKept'
  <2> DEFINE w == plan[p].res
  <2>1. /\ w \in Res /\ plan[p].hold \notin Hold
        /\ plan[p].op = "status" => ~Reclaims(plan[p])
    BY <1>4, PlanShape, ConstantsAssumption DEF Updates, Assigns, Restates, Reclaims
  <2>2. /\ res'[w] = NewRow(p) /\ \A o \in Res \ {w} : res'[o] = res[o]
        /\ w \in taint' \/ (~stale[p] /\ ~MovesJoined(p))
        /\ taint' = taint \/ w \in taint'
    BY <1>4, <2>1 DEF WritesReservation, TypeOK, RowsOK
  <2>3. ASSUME w \notin taint', NEW h \in Hold, Alive(h), Blocking(NewRow(p))
        PROVE  ~Clash(NewRow(p), HoldClaim(h))
    <3>1. CASE Reclaims(plan[p])
      BY <1>4, <2>1, <2>2, <2>3, <3>1, CommittedOverHolds DEF Claiming
    <3>2. CASE ~Reclaims(plan[p])
      <4>1. /\ NewRow(p).slot = res[w].slot /\ Occupies(NewRow(p)) = Occupies(res[w])
            /\ Blocking(res[w])
        BY <1>4, <2>2, <2>3, <3>2, SameClaim DEF Reading
      <4>2. ~Clash(HoldClaim(h), res[w])
        BY <2>1, <2>2, <2>3, <4>1 DEF TablesKept
      <4>3. ~Clash(res[w], HoldClaim(h))
        BY <4>2, ClashSymmetric
      <4>4. QED
        BY <4>1, <4>3 DEF Clash
    <3>3. QED
      BY <3>1, <3>2
  <2>4. taint \subseteq taint'
    OBVIOUS
  <2>5. w \in taint' \/ \A h \in Hold :
          Alive(h) /\ Alive(h)' /\ Blocking(res'[w]) => ~Clash(res'[w], HoldClaim(h))
    BY <2>2, <2>3
  <2>6. QED
    BY <1>4, <2>1, <2>2, <2>4, <2>5, RowOverHolds
<1>5. ASSUME HoldsOnlyEnd, NEW r \in Res, Remove(r)
      PROVE  TablesKept'
  <2>1. res'[r].status = "removed" /\ \A o \in Res \ {r} : res'[o] = res[o]
    BY <1>5 DEF Remove, TypeOK, RowsOK, Row
  <2>2. ~Blocking(res'[r])
    BY <2>1 DEF Blocking, BLOCKING_RESERVATION_STATUSES
  <2>3. QED
    BY <1>5, <2>1, <2>2, RowOverHolds
<1>6. CASE HoldsOnlyEnd
  <2>1. TablesKept'
    BY <1>2, <1>3, <1>4, <1>5, <1>6, ReservationWrites
  <2>2. QED
    BY <1>6, <2>1, HoldsEnd
<1>7. QED
  BY <1>1, <1>6, HoldWrites

LEMMA HoldsStayApart == Spec => [](HoldsExclude /\ TablesKept)
<1>1. Init => HoldsExclude /\ TablesKept
  BY DEF Init, HoldsExclude, TablesKept, Alive, Guards, Held, NoHoldRow
<1>2. QED
  BY <1>1, Typing, RequestPhases, RequestsRead, ClashesAreSeen, HoldsAreSeen,
     KeepsStep, TaintGrows, PTL DEF Spec

\* OutlastingHoldKeepsTable: a live hold that outlasts the start of its slot keeps its
\* table from reservations and from other such holds, whatever creates, conversions,
\* changes and sweeps do meanwhile, up to reservations written from stale copies.
THEOREM HoldsKeepTables == Spec => []OutlastingHoldKeepsTable
<1>1. HoldsExclude /\ TablesKept => OutlastingHoldKeepsTable
  BY DEF HoldsExclude, TablesKept, OutlastingHoldKeepsTable, Alive
<1>2. QED
  BY <1>1, HoldsStayApart, PTL

-----------------------------------------------------------------------------
(* Advisory locks.                                                            *)

\* The table of the lock a request waits for.
NextTable(p) == Keys(p)[got[p] + 1][2]

\* Who holds a lock and waits for another is assigning tables, and waits for a later
\* table of the same slot than every one it holds.
LEMMA WaitsUpwards ==
  ASSUME TypeOK, NEW p \in Proc, NEW q \in Proc, WaitsFor(p, q),
         got[q] < Len(Keys(q))
  PROVE  NextTable(p) \in Table /\ NextTable(q) \in Table /\ NextTable(p) < NextTable(q)
<1>1. PICK i \in 1..got[q] : Keys(q)[i] = Keys(p)[got[p] + 1]
  BY DEF WaitsFor, HoldsKey
<1>2. got[q] \in Nat /\ i \in Nat /\ i >= 1 /\ i < got[q] + 1
  BY <1>1 DEF TypeOK, ProcsOK
<1>3. plan[q].op = "assign"
  <2>1. SUFFICES ASSUME plan[q].op # "assign" PROVE FALSE
    OBVIOUS
  <2>2. Keys(q) \in {<<<<plan[q].at, NoTable>>>>, <<>>}
    BY <2>1 DEF Keys
  <2>3. Len(Keys(q)) <= 1 /\ Len(Keys(q)) \in Nat
    BY <2>2
  <2>4. QED
    BY <1>2, <2>3
<1> DEFINE req == plan[q].req
<1>4. req \in Seatings /\ req \in Seq(Table)
  BY <1>3, PlanShape, SeatingFacts DEF Assigns
<1>5. Len(req) \in Nat /\ DOMAIN req = 1..Len(req)
  BY <1>4, LenProperties
<1>6. Keys(q) = [k \in 1..Len(req) |-> <<plan[q].at, req[k]>>]
  BY <1>3, <1>5 DEF Keys
<1>7. Len(Keys(q)) = Len(req)
  <2>1. Keys(q) \in [1..Len(req) -> {plan[q].at} \X Table]
    <3>1. \A k \in 1..Len(req) : req[k] \in Table
      BY <1>4, ElementOfSeq
    <3>2. QED
      BY <1>6, <3>1
  <2>2. QED
    BY <1>5, <2>1, LenProperties
<1>8. i \in 1..Len(req) /\ got[q] + 1 \in 1..Len(req)
  BY <1>2, <1>5, <1>7
<1>9. NextTable(p) = req[i] /\ NextTable(q) = req[got[q] + 1]
  BY <1>1, <1>6, <1>8 DEF NextTable
<1>10. req[i] < req[got[q] + 1]
  BY <1>2, <1>4, <1>5, <1>8, SeatingsAssumption
<1>11. req[i] \in Table /\ req[got[q] + 1] \in Table
  BY <1>4, <1>8, ElementOfSeq
<1>12. QED
  BY <1>9, <1>10, <1>11

LEMMA NoCircle == ASSUME TypeOK PROVE NoLockCycle
<1>1. SUFFICES ASSUME NEW S \in SUBSET Proc, S # {},
                      \A p \in S : \E q \in S : WaitsFor(p, q)
               PROVE  FALSE
  BY DEF NoLockCycle
<1>2. \A p \in S : got[p] < Len(Keys(p))
  BY <1>1 DEF WaitsFor
<1>3. \A p \in S : \E q \in S :
        NextTable(p) \in Table /\ NextTable(q) \in Table /\ NextTable(p) < NextTable(q)
  BY <1>1, <1>2, WaitsUpwards
<1> DEFINE Above(p) == {t \in Table : NextTable(p) < t}
           Sets == {Above(p) : p \in S}
<1>4. Sets \subseteq FiniteSubsetsOf(Table) /\ Sets # {}
  <2>1. \A p \in S : Above(p) \subseteq Table /\ IsFiniteSet(Above(p))
    BY FS_Subset, ConstantsAssumption
  <2>2. QED
    BY <1>1, <2>1 DEF FiniteSubsetsOf
<1>5. PICK p \in S : \A y \in Sets : <<y, Above(p)>> \notin StrictSubsetOrdering(Table)
  <2>1. IsWellFoundedOn(StrictSubsetOrdering(Table), FiniteSubsetsOf(Table))
    BY FS_StrictSubsetOrderingWellFounded
  <2>2. \E x \in Sets : \A y \in Sets : ~ (<<y, x>> \in StrictSubsetOrdering(Table))
    <3> HIDE DEF Sets
    <3>1. QED
      BY <1>4, <2>1, WFMin
  <2>3. QED
    BY <2>2
<1>6. PICK q \in S :
        NextTable(p) \in Table /\ NextTable(q) \in Table /\ NextTable(p) < NextTable(q)
  BY <1>3
<1>7. Above(q) \subseteq Above(p) /\ NextTable(q) \in Above(p) /\ NextTable(q) \notin Above(q)
  <2>1. PICK a \in Nat, b \in Nat : a = NextTable(p) /\ b = NextTable(q) /\ b \in Table /\ a < b
    BY <1>6, ConstantsAssumption
  <2>2. Above(p) = {t \in Table : a < t} /\ Above(q) = {t \in Table : b < t}
    BY <2>1
  <2> HIDE DEF Above
  <2>3. \A t \in Table : t \in Nat
    BY ConstantsAssumption
  <2>4. \A t \in Table : b < t => a < t
    BY <2>1, <2>3
  <2>5. ~ (b < b)
    BY <2>1
  <2>6. NextTable(q) \in Table /\ a < NextTable(q) /\ ~ (b < NextTable(q))
    BY <2>1, <2>5
  <2>7. QED
    BY <2>2, <2>4, <2>6
<1>8. <<Above(q), Above(p)>> \in StrictSubsetOrdering(Table)
  <2>1. Above(q) \in SUBSET Table /\ Above(p) \in SUBSET Table
    OBVIOUS
  <2>2. Above(q) # Above(p)
    BY <1>7
  <2> HIDE DEF Above
  <2>3. QED
    BY <1>7, <2>1, <2>2 DEF StrictSubsetOrdering
<1>9. QED
  BY <1>5, <1>8

\* NoLockCycle: since assignTables sorts its tables, no set of requests waits for each
\* other's advisory locks, for any number of requests and tables.
THEOREM LocksAreFree == Spec => []NoLockCycle
BY Typing, NoCircle, PTL

-----------------------------------------------------------------------------
(* What is on the ledger.                                                     *)

\* Every reservation, every hold that holds and every request that names a slot names one that exists.
Placed ==
  /\ \A r \in Res : res[r].status # "none" => res[r].slot \in Slot
  /\ \A h \in Hold : Held(h) => hold[h].slot \in Slot
  /\ \A p \in Proc : plan[p].slot \in Slot \cup {Keep}

\* The plans of requests that begin.
LEMMA NewPlanPlaced ==
  ASSUME Placed, NEW p \in Proc, NEW m, UNCHANGED rows, TypeOK,
         plan' = [plan EXCEPT ![p] = m], m.slot \in Slot \cup {Keep}
  PROVE  Placed'
BY DEF Placed, rows, TypeOK, ProcsOK, Held

LEMMA EndsPlaced ==
  ASSUME TypeOK, Placed, NEW p \in Proc, plan' = [plan EXCEPT ![p] = NoPlan], NEW q \in Proc
  PROVE  plan'[q].slot \in Slot \cup {Keep}
BY DEF Placed, TypeOK, ProcsOK, NoPlan

LEMMA PlanSlots ==
  /\ \A s, t, st : Insertion("create", s, t, st).slot = s
  /\ \A h, t, st : Conversion(h, t, st).slot = hold[h].slot
  /\ \A s, t, o : Holding(s, t, o).slot = s
  /\ \A r, dto : Change(r, dto).slot = dto.slot
  /\ \A r, q : Assignment(r, q).slot = Keep
  /\ \A r, st : Restatus(r, st).slot = Keep
  /\ \A hs : Expiry(hs).slot = Keep
BY DEF Insertion, Conversion, Holding, Change, Assignment, Restatus, Expiry, NoPlan

\* A reservation that is written has a slot.
LEMMA NewRowPlaced ==
  ASSUME TypeOK, Placed, NEW p \in Proc,
         \/ plan[p].op \in {"create", "convert"}
         \/ plan[p].res \in Res /\ res[plan[p].res].status # "none"
  PROVE  NewRow(p).slot \in Slot
<1>1. NewRow(p).slot = Chosen(plan[p].slot, IF plan[p].res = NoRes THEN NoSlot
                                            ELSE res[plan[p].res].slot)
  BY DEF NewRow, NoRow
<1>2. plan[p].slot \in Slot \cup {Keep}
  BY DEF Placed
<1>3. CASE plan[p].op \in {"create", "convert"}
  BY <1>1, <1>2, <1>3, PlanShape DEF Inserts, Chosen
<1>4. CASE plan[p].res \in Res /\ res[plan[p].res].status # "none"
  BY <1>1, <1>2, <1>4, ConstantsAssumption DEF Chosen, Placed
<1>5. QED
  BY <1>3, <1>4

LEMMA PlacedStep ==
  ASSUME TypeOK, Placed, [Next]_vars
  PROVE  Placed'
<1>1. ASSUME NEW p \in Proc, BeginCreate(p) \/ BeginHold(p)
      PROVE  Placed'
  <2>1. CASE BeginCreate(p)
    <3>1. PICK s \in Slot, t \in Table \cup {NoTable}, st \in Asks :
            TakesSnapshot(p, Insertion("create", s, t, st))
      BY <2>1 DEF BeginCreate
    <3>2. Insertion("create", s, t, st).slot = s
      BY PlanSlots
    <3>3. QED
      BY <3>1, <3>2, NewPlanPlaced DEF TakesSnapshot
  <2>2. CASE BeginHold(p)
    <3>1. PICK s \in Slot, t \in Table \cup {NoTable}, o \in Outlasts :
            TakesSnapshot(p, Holding(s, t, o))
      BY <2>2 DEF BeginHold
    <3>2. Holding(s, t, o).slot = s
      BY PlanSlots
    <3>3. QED
      BY <3>1, <3>2, NewPlanPlaced DEF TakesSnapshot
  <2>3. QED
    BY <1>1, <2>1, <2>2
<1>2. ASSUME NEW p \in Proc, BeginConvert(p)
      PROVE  Placed'
  <2>1. PICK h \in Hold : Held(h) /\ \E t, st : TakesSnapshot(p, Conversion(h, t, st))
    BY <1>2 DEF BeginConvert
  <2>2. \A t, st : Conversion(h, t, st).slot \in Slot
    BY <2>1, PlanSlots DEF Placed, Held
  <2>3. QED
    BY <2>1, <2>2, NewPlanPlaced DEF TakesSnapshot
<1>3. ASSUME NEW p \in Proc, BeginUpdate(p)
      PROVE  Placed'
  BY <1>3, NewPlanPlaced DEF BeginUpdate, TakesSnapshot, Placed
<1>4. ASSUME NEW p \in Proc,
             \/ ReadForUpdate(p) \/ ReadForAssign(p) \/ ReadForStatus(p)
             \/ ReadForCancel(p) \/ ReadForSweep(p)
      PROVE  Placed'
  <2>1. PICK m : ReadsOutside(p, m) /\ m.slot \in Slot \cup {Keep}
    <3>1. CASE ReadForUpdate(p)
      <4>1. PICK r \in Res, dto \in Edits : ReadsOutside(p, Change(r, dto))
        BY <3>1 DEF ReadForUpdate
      <4>2. Change(r, dto).slot \in Slot \cup {Keep}
        BY PlanSlots, EditsType
      <4>3. QED
        BY <4>1, <4>2
    <3>2. CASE ReadForAssign(p)
      BY <3>2, PlanSlots DEF ReadForAssign
    <3>3. CASE ReadForStatus(p)
      BY <3>3, PlanSlots DEF ReadForStatus
    <3>4. CASE ReadForCancel(p) \/ ReadForSweep(p)
      BY <3>4, PlanSlots DEF ReadForCancel, ReadForSweep
    <3>5. QED
      BY <1>4, <3>1, <3>2, <3>3, <3>4
  <2>2. QED
    BY <2>1, NewPlanPlaced DEF ReadsOutside
<1>5. ASSUME NEW p \in Proc, CommitCreate(p) \/ CommitConvert(p)
      PROVE  Placed'
  <2>1. EndsWriting(p) /\ InsertsReservation(p) /\ plan[p].op \in {"create", "convert"}
    BY <1>5 DEF CommitCreate, CommitConvert, CanCommit
  <2>2. \A h \in Hold : hold'[h].slot = hold[h].slot /\ (Held(h)' => Held(h))
    BY <1>5 DEF CommitCreate, CommitConvert, TypeOK, RowsOK, HoldRow, Held
  <2>3. \A r \in Res : res'[r] = res[r] \/ res'[r].slot \in Slot
    BY <2>1, NewRowPlaced DEF InsertsReservation, TypeOK, RowsOK
  <2>4. QED
    BY <2>1, <2>2, <2>3, EndsPlaced DEF EndsWriting, Placed
<1>6. ASSUME NEW p \in Proc, CommitUpdate(p) \/ CommitAssign(p) \/ WriteStatus(p)
      PROVE  Placed'
  <2>1. WritesReservation(p) /\ plan[p].op \in {"update", "assign", "status"}
    BY <1>6 DEF CommitUpdate, CommitAssign, WriteStatus, CanCommit
  <2>2. plan[p].res \in Res /\ res[plan[p].res].status # "none"
    BY <2>1, PlanShape DEF WritesReservation, Updates, Assigns, Restates, Present, Status
  <2>3. \A r \in Res : res'[r] = res[r] \/ res'[r].slot \in Slot
    BY <2>1, <2>2, NewRowPlaced DEF WritesReservation, TypeOK, RowsOK
  <2>4. QED
    BY <2>1, <2>3, EndsPlaced DEF WritesReservation, EndsWriting, Placed, Held
<1>7. ASSUME NEW p \in Proc, CommitHold(p)
      PROVE  Placed'
  <2>1. plan[p].slot \in Slot
    BY <1>7, PlanShape DEF CommitHold, CanCommit, Inserts, Placed
  <2>2. \A h \in Hold : hold'[h] = hold[h] \/ hold'[h].slot \in Slot
    BY <1>7, <2>1 DEF CommitHold, TypeOK, RowsOK
  <2>3. QED
    BY <1>7, <2>2, EndsPlaced DEF CommitHold, EndsWriting, Placed, Held
<1>8. ASSUME NEW p \in Proc, WriteExpired(p)
      PROVE  Placed'
  <2>1. \A h \in Hold : hold'[h].slot = hold[h].slot /\ (Held(h)' => Held(h))
    BY <1>8 DEF WriteExpired, TypeOK, RowsOK, HoldRow, Held
  <2>2. QED
    BY <1>8, <2>1, EndsPlaced DEF WriteExpired, EndsWriting, Placed
<1>9. ASSUME NEW p \in Proc, AcquireLock(p) \/ Fail(p)
      PROVE  Placed'
  <2>1. \A q \in Proc : plan'[q].slot \in Slot \cup {Keep}
    BY <1>9, EndsPlaced DEF AcquireLock, Fail, Placed
  <2>2. QED
    BY <1>9, <2>1 DEF AcquireLock, Fail, rows, Placed, Held
<1>10. CASE \E r \in Res : Remove(r)
  <2>1. \A r \in Res : /\ res'[r].slot = res[r].slot
                        /\ res'[r].status # "none" => res[r].status # "none"
    BY <1>10 DEF Remove, TypeOK, RowsOK, Row, Present, Status
  <2>2. QED
    BY <1>10, <2>1 DEF Remove, Placed, Held
<1>11. CASE ListHolds \/ \E h \in Hold : Lapse(h)
  <2>1. \A h \in Hold : hold'[h].slot = hold[h].slot /\ (Held(h)' => Held(h))
    BY <1>11 DEF ListHolds, Lapse, TypeOK, RowsOK, HoldRow, Held
  <2>2. QED
    BY <1>11, <2>1 DEF ListHolds, Lapse, procs, Placed
<1>12. CASE UNCHANGED vars
  BY <1>12 DEF vars, rows, procs, Placed, Held
<1>13. ASSUME NEW p \in Proc, Request(p)
       PROVE  Placed'
  BY <1>1, <1>2, <1>3, <1>4, <1>5, <1>6, <1>7, <1>8, <1>9, <1>13 DEF Request
<1>14. QED
  BY <1>10, <1>11, <1>12, <1>13 DEF Next

LEMMA AllPlaced == Spec => []Placed
<1>1. Init => Placed
  BY DEF Init, Placed, NoRow, NoHoldRow, NoPlan, Held
<1>2. QED
  BY <1>1, Typing, PlacedStep, PTL DEF Spec

\* Rows that do not clash share no spot.
LEMMA SpotsApart ==
  ASSUME NEW x, NEW y, ~Clash(x, y)
  PROVE  SpotsOf(x) \cap SpotsOf(y) = {}
<1>1. CASE x.slot # y.slot
  BY <1>1 DEF SpotsOf
<1>2. CASE NoTable \notin Occupies(x) /\ NoTable \notin Occupies(y)
           /\ Occupies(x) \cap Occupies(y) = {}
  BY <1>2 DEF SpotsOf
<1>3. QED
  BY <1>1, <1>2 DEF Clash

Claimants == Res \cup Hold
Spot == Slot \X (Table \cup {NoTable})

LEMMA ResNotHold == \A h \in Hold : h \notin Res
BY ConstantsAssumption

\* What is on the ledger claims spots, what is not claims none.
LEMMA ClaimShape ==
  ASSUME TypeOK, Placed, NEW o \in Claimants
  PROVE  /\ ClaimOf(o) \in SUBSET Spot
         /\ Listed(o) <=> ClaimOf(o) # {}
         /\ Gone(o) => ClaimOf(o) = {}
<1>1. CASE ~Listed(o)
  BY <1>1 DEF ClaimOf
<1>2. CASE o \in Res /\ Listed(o)
  <2>1. ClaimOf(o) = SpotsOf(res[o]) /\ Blocking(res[o])
    BY <1>2 DEF ClaimOf, Listed
  <2>2. res[o].slot \in Slot
    BY <1>2, <2>1 DEF Placed, Blocking, BLOCKING_RESERVATION_STATUSES
  <2>3. Occupies(res[o]) \subseteq Table \cup {NoTable} /\ res[o].table \in Occupies(res[o])
    BY <1>2 DEF TypeOK, RowsOK, Row, Occupies
  <2>4. SpotsOf(res[o]) \in SUBSET Spot /\ <<res[o].slot, res[o].table>> \in SpotsOf(res[o])
    BY <2>2, <2>3 DEF SpotsOf, Spot
  <2>5. QED
    BY <1>2, <2>1, <2>4 DEF Gone
<1>3. CASE o \in Hold /\ Listed(o)
  <2>1. o \notin Res
    BY <1>3, ResNotHold
  <2>2. ClaimOf(o) = SpotsOf(HoldClaim(o)) /\ Held(o)
    BY <1>3, <2>1 DEF ClaimOf, Listed, Alive, Guards
  <2>3. hold[o].slot \in Slot /\ hold[o].table \in Table \cup {NoTable}
    BY <1>3, <2>2 DEF Placed, TypeOK, RowsOK, HoldRow
  <2>4. /\ SpotsOf(HoldClaim(o)) \in SUBSET Spot
        /\ <<hold[o].slot, hold[o].table>> \in SpotsOf(HoldClaim(o))
    BY <2>3, HoldClaimForm DEF SpotsOf, Spot
  <2>5. QED
    BY <1>3, <2>2, <2>4 DEF Gone
<1>4. QED
  BY <1>1, <1>2, <1>3 DEF Claimants

LEMMA ClaimsApart ==
  ASSUME DoubleBookingOnlyIfTainted, HoldsExclude, TablesKept,
         NEW o \in Claimants, NEW w \in Claimants, o # w
  PROVE  ClaimOf(o) \cap ClaimOf(w) = {}
<1>1. CASE ~Listed(o) \/ ~Listed(w)
  BY <1>1 DEF ClaimOf
<1>2. CASE Listed(o) /\ Listed(w) /\ o \in Res /\ w \in Res
  BY <1>2, SpotsApart DEF ClaimOf, Listed, DoubleBookingOnlyIfTainted
<1>3. CASE Listed(o) /\ Listed(w) /\ o \in Hold /\ w \in Hold
  BY <1>3, SpotsApart, ResNotHold DEF ClaimOf, Listed, HoldsExclude
<1>4. CASE Listed(o) /\ Listed(w) /\ o \in Hold /\ w \in Res
  BY <1>4, SpotsApart, ResNotHold DEF ClaimOf, Listed, TablesKept
<1>5. CASE Listed(o) /\ Listed(w) /\ o \in Res /\ w \in Hold
  BY <1>5, SpotsApart, ResNotHold, ClashSymmetric DEF ClaimOf, Listed, TablesKept
<1>6. QED
  BY <1>1, <1>2, <1>3, <1>4, <1>5 DEF Claimants

\* The two facts in one state, and so in the next one.
Exclusive ==
  TypeOK /\ Placed /\ DoubleBookingOnlyIfTainted /\ HoldsExclude /\ TablesKept

LedgerShape ==
  Exclusive => \A o \in Claimants :
    /\ ClaimOf(o) \in SUBSET Spot
    /\ Listed(o) <=> ClaimOf(o) # {}
    /\ Gone(o) => ClaimOf(o) = {}
    /\ \A w \in Claimants \ {o} : ClaimOf(o) \cap ClaimOf(w) = {}

LEMMA AlwaysShaped == LedgerShape
BY ClaimShape, ClaimsApart DEF LedgerShape, Exclusive

LEMMA NextShaped == LedgerShape'
BY AlwaysShaped, PTL

-----------------------------------------------------------------------------
(* The kinds of steps.                                                        *)

Same(o) == ClaimOf(o)' = ClaimOf(o) /\ Gone(o)' = Gone(o)
Ended(o) == ClaimOf(o)' = {} /\ Gone(o)'

OnLedger == [o \in Res \cup Hold |-> ClaimOf(o)]
OffLedger == {o \in Res \cup Hold : Gone(o)}

LEMMA EndStep ==
  ASSUME Exclusive, Exclusive', \A o \in Claimants : Same(o) \/ Ended(o)
  PROVE  Ledger!Next
<1> DEFINE O == {o \in Claimants : Ended(o)}
<1>1. OnLedger' = [o \in Claimants |-> IF o \in O THEN {} ELSE OnLedger[o]]
  BY DEF OnLedger, Claimants, Same, Ended
<1>2. OffLedger' = OffLedger \cup O
  BY AlwaysShaped, NextShaped DEF LedgerShape, OffLedger, Claimants, Same, Ended
<1>3. Ledger!End(O)
  BY <1>1, <1>2 DEF Ledger!End, OnLedger, OffLedger, Ledger!Owner, Claimants
<1>4. O \in SUBSET Ledger!Owner
  BY DEF Ledger!Owner, Claimants
<1>5. QED
  BY <1>3, <1>4 DEF Ledger!Next

\* One claim is made or changed.
LEMMA GrantStep ==
  ASSUME Exclusive, Exclusive', NEW w \in Claimants, Listed(w)', ~Gone(w),
         w \in Res \/ ~Listed(w), \A o \in Claimants \ {w} : Same(o)
  PROVE  Ledger!Next
<1> DEFINE S == ClaimOf(w)'
<1>1. S \in SUBSET Spot /\ S # {} /\ ~Gone(w)'
  BY NextShaped DEF LedgerShape
<1>2. \A o \in Claimants \ {w} : ClaimOf(o) \cap S = {}
  <2>1. \A o \in Claimants \ {w} : ClaimOf(o)' \cap S = {}
    BY NextShaped DEF LedgerShape
  <2>2. QED
    BY <2>1 DEF Same
<1>3. S \in Ledger!FreeFor({w})
  BY <1>1, <1>2 DEF Ledger!FreeFor, Ledger!Owner, OnLedger, Claimants, Spot
<1>4. OnLedger' = [OnLedger EXCEPT ![w] = S]
  BY DEF OnLedger, Claimants, Same
<1>5. OffLedger' = OffLedger
  BY <1>1 DEF OffLedger, Claimants, Same
<1>6. CASE ~Listed(w)
  <2>1. Ledger!New(w)
    BY <1>6, AlwaysShaped DEF LedgerShape, Ledger!New, OnLedger, OffLedger, Claimants
  <2>2. Ledger!Take(w)
    BY <1>3, <1>4, <1>5, <2>1 DEF Ledger!Take, OnLedger, OffLedger
  <2>3. QED
    BY <2>2 DEF Ledger!Next, Ledger!Owner, Claimants
<1>7. CASE Listed(w) /\ w \in Res
  <2>1. ClaimOf(w) # {}
    BY <1>7, AlwaysShaped DEF LedgerShape
  <2>2. Ledger!Move(w)
    BY <1>3, <1>4, <1>5, <2>1 DEF Ledger!Move, OnLedger, OffLedger, Claimants
  <2>3. QED
    BY <1>7, <2>2 DEF Ledger!Next
<1>8. QED
  BY <1>6, <1>7

\* A hold on the ledger ends in favour of a new reservation.
LEMMA ConvertStep ==
  ASSUME Exclusive, Exclusive', NEW h \in Hold, NEW r \in Res, Listed(h), Ended(h),
         Listed(r)', ~Listed(r), ~Gone(r), \A o \in Claimants \ {h, r} : Same(o)
  PROVE  Ledger!Next
<1> DEFINE S == ClaimOf(r)'
<1>1. h \in Claimants /\ r \in Claimants /\ h # r
  BY ResNotHold DEF Claimants
<1>2. S \in SUBSET Spot /\ S # {} /\ ~Gone(r)'
  BY <1>1, NextShaped DEF LedgerShape
<1>3. \A o \in Claimants \ {h, r} : ClaimOf(o) \cap S = {}
  <2>1. \A o \in Claimants \ {h, r} : ClaimOf(o)' \cap S = {}
    BY <1>1, NextShaped DEF LedgerShape
  <2>2. QED
    BY <2>1 DEF Same
<1>4. S \in Ledger!FreeFor({h, r})
  BY <1>2, <1>3 DEF Ledger!FreeFor, Ledger!Owner, OnLedger, Claimants, Spot
<1>5. OnLedger' = [OnLedger EXCEPT ![h] = {}, ![r] = S]
  BY <1>1 DEF OnLedger, Claimants, Same, Ended
<1>6. OffLedger' = OffLedger \cup {h}
  BY <1>1, <1>2 DEF OffLedger, Claimants, Same, Ended
<1>7. OnLedger[h] # {} /\ Ledger!New(r)
  BY <1>1, AlwaysShaped DEF LedgerShape, Ledger!New, OnLedger, OffLedger, Claimants
<1>8. Ledger!Convert(h, r)
  BY <1>4, <1>5, <1>6, <1>7 DEF Ledger!Convert, OnLedger, OffLedger
<1>9. QED
  BY <1>8 DEF Ledger!Next

LEMMA KeptRows ==
  /\ \A r \in Res : res'[r] = res[r] /\ (r \in taint' <=> r \in taint) => Same(r)
  /\ \A h \in Hold : hold'[h] = hold[h] => Same(h)
<1>1. ASSUME NEW r \in Res, res'[r] = res[r], r \in taint' <=> r \in taint
      PROVE  Same(r)
  BY <1>1 DEF Same, ClaimOf, Gone, Listed
<1>2. ASSUME NEW h \in Hold, hold'[h] = hold[h]
      PROVE  Same(h)
  <2>1. HoldClaim(h)' = HoldClaim(h) /\ (Alive(h)' <=> Alive(h)) /\ h \notin Res
    BY <1>2, ResNotHold DEF HoldClaim, Alive, Guards, Held
  <2>2. QED
    BY <1>2, <2>1 DEF Same, ClaimOf, Gone, Listed
<1>3. QED
  BY <1>1, <1>2

LEMMA EndedRows ==
  /\ \A r \in Res : ~Listed(r)' /\ res'[r].status # "none" => Ended(r)
  /\ \A h \in Hold : ~Alive(h)' /\ hold'[h].status # "none" => Ended(h)
<1>1. ASSUME NEW r \in Res, ~Listed(r)', res'[r].status # "none"
      PROVE  Ended(r)
  BY <1>1 DEF Ended, ClaimOf, Gone
<1>2. ASSUME NEW h \in Hold, ~Alive(h)', hold'[h].status # "none"
      PROVE  Ended(h)
  <2>1. h \notin Res /\ ~Listed(h)'
    BY <1>2, ResNotHold DEF Listed
  <2>2. QED
    BY <1>2, <2>1 DEF Ended, ClaimOf, Gone
<1>3. QED
  BY <1>1, <1>2

\* Holds are expired by requests, by list, and by the clock.
LEMMA HoldsEndStep ==
  ASSUME Exclusive, Exclusive', res' = res, taint' = taint,
         \A h \in Hold : hold'[h] = hold[h] \/ (~Alive(h)' /\ hold'[h].status # "none")
  PROVE  Ledger!Next
<1>1. \A o \in Claimants : Same(o) \/ Ended(o)
  BY KeptRows, EndedRows DEF Claimants
<1>2. QED
  BY <1>1, EndStep

\* A reservation is changed.
LEMMA ChangeStep ==
  ASSUME Exclusive, Exclusive', Phases, Reading, [Next]_vars,
         NEW p \in Proc, WritesReservation(p)
  PROVE  Ledger!Next
<1>1. /\ Present(plan[p].res) /\ res' = [res EXCEPT ![plan[p].res] = NewRow(p)]
      /\ hold' = hold /\ taint' \in {taint, taint \cup {plan[p].res}}
  BY DEF WritesReservation
<1>2. CASE plan[p].res \notin Res
  <2>1. res' = res
    BY <1>1, <1>2 DEF Exclusive, TypeOK, RowsOK
  <2>2. taint' \subseteq Res /\ taint \subseteq Res
    BY DEF Exclusive, TypeOK, RowsOK
  <2>3. taint' = taint
    BY <1>1, <1>2, <2>2
  <2>4. QED
    BY <1>1, <2>1, <2>3, HoldsEndStep
<1>3. CASE plan[p].res \in Res
  <2>1. PICK r \in Res : r = plan[p].res
    BY <1>3
  <2>2. r \in Claimants /\ \A o \in Claimants \ {r} : Same(o)
    BY <1>1, <2>1, KeptRows, ResNotHold DEF Claimants, Exclusive, TypeOK, RowsOK
  <2>3. res'[r].status # "none"
    <3>1. res'[r].status = Chosen(plan[p].status, res[r].status)
      <4>1. NewRow(p).status = Chosen(plan[p].status, res[r].status)
        BY <2>1, ConstantsAssumption DEF NewRow
      <4>2. QED
        BY <1>1, <2>1, <4>1 DEF Exclusive, TypeOK, RowsOK
    <3>2. plan[p].status \in Status \cup {"HELD", Keep} /\ res[r].status \in Status
      BY <1>1, <2>1 DEF Exclusive, TypeOK, ProcsOK, Plan, Present
    <3>3. QED
      BY <3>1, <3>2 DEF Chosen, Status
  <2>4. CASE ~Listed(r)'
    BY <2>2, <2>3, <2>4, EndedRows, EndStep
  <2>5. CASE Listed(r)'
    <3>1. r \notin taint /\ r \notin taint' /\ Blocking(res'[r])
      BY <1>1, <2>5 DEF Listed, Blocking
    <3>2. \/ res'[r].status = res[r].status
          \/ res'[r].status \in STATUS_TRANSITIONS[res[r].status] \cup {"removed"}
      BY <1>1, <2>1, <3>1, StatusStep DEF Exclusive
    <3>3. res[r].status \in Status
      BY <1>1, <2>1 DEF Present
    <3>4. Blocking(res[r])
      BY <3>1, <3>2, <3>3
         DEF Blocking, BLOCKING_RESERVATION_STATUSES, STATUS_TRANSITIONS, Status
    <3>5. Listed(r) /\ ~Gone(r)
      BY <3>1, <3>4 DEF Listed, Gone
    <3>6. QED
      BY <2>2, <2>5, <3>5, GrantStep
  <2>6. QED
    BY <2>4, <2>5
<1>4. QED
  BY <1>2, <1>3

\* A reservation is made, and a hold may end for it.
LEMMA InsertStep ==
  ASSUME Exclusive, Exclusive', Phases, Conversions, NEW p \in Proc,
         CommitCreate(p) \/ CommitConvert(p)
  PROVE  Ledger!Next
<1>1. PICK r \in Res : /\ res[r].status = "none"
                       /\ res' = [res EXCEPT ![r] = NewRow(p)]
                       /\ taint' = taint
  BY DEF CommitCreate, CommitConvert, InsertsReservation
<1>2. r \in Claimants /\ \A o \in Res \ {r} : Same(o)
  BY <1>1, KeptRows DEF Claimants, Exclusive, TypeOK, RowsOK
<1>3. ~Listed(r) /\ ~Gone(r)
  BY <1>1 DEF Listed, Gone, Blocking, BLOCKING_RESERVATION_STATUSES
<1>4. res'[r].status \in Status
  <2>1. plan[p].op \in {"create", "convert"}
    BY DEF CommitCreate, CommitConvert, CanCommit
  <2>2. Inserts(plan[p]) /\ plan[p].status \in Status
    BY <2>1, PlanShape DEF Inserts, Exclusive
  <2>3. NewRow(p).status = Chosen(plan[p].status, IF plan[p].res = NoRes THEN "none"
                                                  ELSE res[plan[p].res].status)
    BY DEF NewRow, NoRow
  <2>4. NewRow(p).status = plan[p].status
    BY <2>2, <2>3, ConstantsAssumption DEF Chosen
  <2>5. QED
    BY <1>1, <2>2, <2>4 DEF Exclusive, TypeOK, RowsOK
<1>5. CASE \A h \in Hold : Same(h)
  <2>1. \A o \in Claimants \ {r} : Same(o)
    BY <1>2, <1>5 DEF Claimants
  <2>2. CASE Listed(r)'
    BY <1>2, <1>3, <2>1, <2>2, GrantStep
  <2>3. CASE ~Listed(r)'
    BY <1>2, <1>4, <2>1, <2>3, EndedRows, EndStep DEF Status
  <2>4. QED
    BY <2>2, <2>3
<1>6. CASE \E h \in Hold : ~Same(h)
  <2>1. PICK h \in Hold : ~Same(h)
    BY <1>6
  <2>2. CommitConvert(p) /\ plan[p].hold = h
    BY <2>1, KeptRows DEF CommitCreate, CommitConvert, Exclusive, TypeOK, RowsOK
  <2>3. hold' = [hold EXCEPT ![h].status = "CONSUMED"] /\ Held(h)
    BY <2>2 DEF CommitConvert, CanCommit, Conversions
  <2>4. \A g \in Hold \ {h} : Same(g)
    BY <2>3, KeptRows DEF Exclusive, TypeOK, RowsOK
  <2>5. Ended(h)
    BY <2>3, EndedRows DEF Alive, Guards, Held, Exclusive, TypeOK, RowsOK, HoldRow
  <2>6. Listed(h)
    <3>1. h \notin Res /\ h \in Claimants
      BY ResNotHold DEF Claimants
    <3>2. CASE ~Listed(h)
      <4>1. Gone(h) /\ ClaimOf(h) = {}
        BY <2>3, <3>1, <3>2 DEF Gone, ClaimOf, Held
      <4>2. QED
        BY <2>1, <2>5, <4>1 DEF Same, Ended
    <3>3. QED
      BY <3>2
  <2>7. \A o \in Claimants \ {h, r} : Same(o)
    BY <1>2, <2>4 DEF Claimants
  <2>8. CASE Listed(r)'
    BY <1>3, <2>5, <2>6, <2>7, <2>8, ConvertStep
  <2>9. CASE ~Listed(r)'
    <3>1. Ended(r)
      BY <1>4, <2>9, EndedRows DEF Status
    <3>2. QED
      BY <2>5, <2>7, <3>1, EndStep
  <2>10. QED
    BY <2>8, <2>9
<1>7. QED
  BY <1>5, <1>6

\* A hold is made.
LEMMA HoldStep ==
  ASSUME Exclusive, Exclusive', NEW p \in Proc, CommitHold(p)
  PROVE  Ledger!Next
<1>1. PICK h \in Hold : /\ hold[h].status = "none" /\ hold'[h].status = "HELD"
                        /\ \A g \in Hold \ {h} : hold'[g] = hold[g]
  BY DEF CommitHold, Exclusive, TypeOK, RowsOK
<1>2. h \in Claimants /\ h \notin Res /\ \A o \in Claimants \ {h} : Same(o)
  BY <1>1, KeptRows, ResNotHold DEF CommitHold, Claimants
<1>3. ~Listed(h) /\ ~Gone(h)
  BY <1>1, <1>2 DEF Listed, Gone, Alive, Guards, Held
<1>4. CASE Listed(h)'
  BY <1>2, <1>3, <1>4, GrantStep
<1>5. CASE ~Listed(h)'
  <2>1. Ended(h)
    BY <1>1, <1>2, <1>5, EndedRows DEF Listed
  <2>2. QED
    BY <1>2, <2>1, EndStep
<1>6. QED
  BY <1>4, <1>5

LEMMA LedgerStep ==
  ASSUME Exclusive, Exclusive', Phases, Reading, Conversions, [Next]_vars
  PROVE  Ledger!Next
<1>1. ASSUME UNCHANGED rows PROVE Ledger!Next
  BY <1>1, HoldsEndStep DEF rows
<1>2. ASSUME NEW p \in Proc, Request(p) PROVE Ledger!Next
  <2>1. CASE UNCHANGED rows
    BY <1>1, <2>1
  <2>2. CASE CommitCreate(p) \/ CommitConvert(p)
    BY <2>2, InsertStep
  <2>3. CASE CommitUpdate(p) \/ CommitAssign(p) \/ WriteStatus(p)
    BY <2>3, ChangeStep DEF CommitUpdate, CommitAssign, WriteStatus
  <2>4. CASE CommitHold(p)
    BY <2>4, HoldStep
  <2>5. CASE WriteExpired(p)
    <3>1. \A h \in Hold : hold'[h] = hold[h] \/ (~Alive(h)' /\ hold'[h].status # "none")
      BY <2>5 DEF WriteExpired, Exclusive, TypeOK, RowsOK, HoldRow, Alive, Guards, Held
    <3>2. QED
      BY <2>5, <3>1, HoldsEndStep DEF WriteExpired
  <2>6. QED
    BY <1>2, <2>1, <2>2, <2>3, <2>4, <2>5
       DEF Request, BeginCreate, BeginConvert, BeginHold, ReadForUpdate, ReadForAssign,
           BeginUpdate, ReadForStatus, ReadForCancel, ReadForSweep, AcquireLock, Fail,
           TakesSnapshot, ReadsOutside
<1>3. ASSUME NEW r \in Res, Remove(r) PROVE Ledger!Next
  <2>1. res'[r].status = "removed" /\ \A o \in Res \ {r} : res'[o] = res[o]
    BY <1>3 DEF Remove, Exclusive, TypeOK, RowsOK, Row
  <2>2. Ended(r)
    BY <2>1, EndedRows DEF Listed, Blocking, BLOCKING_RESERVATION_STATUSES
  <2>3. \A o \in Claimants \ {r} : Same(o)
    BY <1>3, <2>1, KeptRows DEF Remove, Claimants
  <2>4. QED
    BY <2>2, <2>3, EndStep
<1>4. CASE ListHolds \/ \E h \in Hold : Lapse(h)
  <2>1. \A h \in Hold : hold'[h] = hold[h] \/ (~Alive(h)' /\ hold'[h].status # "none")
    BY <1>4 DEF ListHolds, Lapse, Exclusive, TypeOK, RowsOK, HoldRow, Alive, Guards, Held
  <2>2. QED
    BY <1>4, <2>1, HoldsEndStep DEF ListHolds, Lapse
<1>5. QED
  BY <1>1, <1>2, <1>3, <1>4 DEF Next, vars

\* OneLedger: the handlers implement the ledger of claims, for any numbers of requests,
\* reservations, holds, tables and slots.
THEOREM LedgerImplemented == Spec => OneLedger
<1>1. Init => Ledger!Init
  BY DEF Init, Ledger!Init, Ledger!Owner, Listed, Gone, ClaimOf, NoRow, NoHoldRow,
         Blocking, BLOCKING_RESERVATION_STATUSES, Alive, Guards, Held
<1>2. Spec => []Exclusive
  BY Typing, AllPlaced, Exclusion, HoldsStayApart, PTL DEF Exclusive
<1>3. QED
  BY <1>1, <1>2, LedgerStep, RequestPhases, RequestsRead, ConversionsHold, PTL
     DEF Spec, OneLedger, Ledger!Spec

-----------------------------------------------------------------------------
(* When no reservation is ever tainted.                                       *)

Changers == {"update", "assign", "status"}

\* No request changes a reservation.
Untouched == taint = {} /\ \A p \in Proc : plan[p].op \notin Changers

LEMMA UntouchedStep ==
  ASSUME Ops \cap Changers = {}, TypeOK, Untouched, [Next]_vars
  PROVE  Untouched'
<1>1. ASSUME NEW p \in Proc, NEW m, m.op \notin Changers, UNCHANGED taint,
             plan' = [plan EXCEPT ![p] = m]
      PROVE  Untouched'
  BY <1>1 DEF Untouched, TypeOK, ProcsOK
<1>2. NoPlan.op \notin Changers
  BY DEF NoPlan, Changers
<1>3. ASSUME NEW p \in Proc, Request(p)
      PROVE  Untouched'
  <2>1. CASE \E m : TakesSnapshot(p, m) \/ ReadsOutside(p, m)
    BY <1>1, <2>1 DEF TakesSnapshot, ReadsOutside, rows
  <2>2. CASE \/ CommitCreate(p) \/ CommitConvert(p) \/ CommitHold(p)
             \/ WriteExpired(p) \/ Fail(p)
    BY <1>1, <1>2, <2>2
       DEF CommitCreate, CommitConvert, CommitHold, WriteExpired, Fail, EndsWriting, rows
  <2>3. CASE AcquireLock(p)
    BY <2>3 DEF AcquireLock, rows, Untouched
  <2>4. CASE CommitUpdate(p) \/ CommitAssign(p) \/ WriteStatus(p)
    BY <2>4 DEF CommitUpdate, CommitAssign, WriteStatus, CanCommit, Untouched, Changers
  <2>5. QED
    BY <1>3, <2>1, <2>2, <2>3, <2>4
       DEF Request, BeginCreate, BeginConvert, BeginHold, ReadForUpdate, ReadForAssign,
           BeginUpdate, ReadForStatus, ReadForCancel, ReadForSweep
<1>4. CASE ListHolds \/ (\E r \in Res : Remove(r)) \/ (\E h \in Hold : Lapse(h)) \/ UNCHANGED vars
  BY <1>4 DEF ListHolds, Remove, Lapse, vars, rows, procs, Untouched
<1>5. QED
  BY <1>3, <1>4 DEF Next

LEMMA NeverTouched ==
  ASSUME Ops \cap Changers = {}
  PROVE  Spec => []Untouched
<1>1. Init => Untouched
  BY DEF Init, Untouched, NoPlan, Changers
<1>2. QED
  BY <1>1, UntouchedStep, Typing, PTL DEF Spec

LEMMA UntaintedExcludes ==
  taint = {} /\ DoubleBookingOnlyIfTainted => NoDoubleBooking
BY DEF DoubleBookingOnlyIfTainted, NoDoubleBooking

\* NoDoubleBooking, unconditionally, where reservations are only created, converted
\* from holds and deleted: the lock of the slot, the check on the snapshot, the unique
\* index and Serializable isolation suffice for any number of requests at once.
THEOREM CreationsExclude ==
  ASSUME Ops \cap Changers = {}
  PROVE  Spec => []NoDoubleBooking
<1>1. Untouched => taint = {}
  BY DEF Untouched
<1>2. QED
  BY <1>1, NeverTouched, Exclusion, UntaintedExcludes, PTL

\* Every hold outlasts the start of its slot.
Lasting ==
  /\ \A h \in Hold : Held(h) => hold[h].outlasts
  /\ \A p \in Proc : plan[p].op = "hold" => plan[p].outlasts

LEMMA LastingPlan ==
  ASSUME TypeOK, Lasting, NEW p \in Proc, NEW m, UNCHANGED hold,
         plan' = [plan EXCEPT ![p] = m], m.op = "hold" => m.outlasts
  PROVE  Lasting'
BY DEF Lasting, TypeOK, ProcsOK, Held

LEMMA LastingEnd ==
  ASSUME TypeOK, Lasting, NEW p \in Proc, plan' = [plan EXCEPT ![p] = NoPlan],
         \A h \in Hold : Held(h)' => hold'[h].outlasts
  PROVE  Lasting'
BY DEF Lasting, TypeOK, ProcsOK, NoPlan

LEMMA LastingStep ==
  ASSUME Outlasts \subseteq {TRUE}, TypeOK, Lasting, [Next]_vars
  PROVE  Lasting'
<1>1. ASSUME NEW p \in Proc, BeginHold(p)
      PROVE  Lasting'
  <2>1. PICK s \in Slot, t \in Table \cup {NoTable}, o \in Outlasts :
            TakesSnapshot(p, Holding(s, t, o))
    BY <1>1 DEF BeginHold
  <2>2. Holding(s, t, o).outlasts = TRUE
    <3>1. o = TRUE
      BY <2>1
    <3>2. QED
      BY <3>1 DEF Holding, Insertion, NoPlan
  <2>3. QED
    BY <2>1, <2>2, LastingPlan DEF TakesSnapshot, rows
<1>2. ASSUME NEW p \in Proc, NEW m, m.op # "hold", TakesSnapshot(p, m) \/ ReadsOutside(p, m)
      PROVE  Lasting'
  BY <1>2, LastingPlan DEF TakesSnapshot, ReadsOutside, rows
<1>3. ASSUME NEW p \in Proc, CommitCreate(p) \/ CommitConvert(p) \/ WriteExpired(p)
      PROVE  Lasting'
  <2>1. \A h \in Hold : Held(h)' => hold'[h].outlasts
    BY <1>3 DEF CommitCreate, CommitConvert, WriteExpired, Lasting, Held, TypeOK, RowsOK, HoldRow
  <2>2. QED
    BY <1>3, <2>1, LastingEnd DEF CommitCreate, CommitConvert, WriteExpired, EndsWriting
<1>4. ASSUME NEW p \in Proc, CommitHold(p)
      PROVE  Lasting'
  <2>1. plan[p].outlasts
    BY <1>4 DEF CommitHold, CanCommit, Lasting
  <2>2. \A h \in Hold : Held(h)' => hold'[h].outlasts
    BY <1>4, <2>1 DEF CommitHold, Lasting, Held, TypeOK, RowsOK
  <2>3. QED
    BY <1>4, <2>2, LastingEnd DEF CommitHold, EndsWriting
<1>5. ASSUME NEW p \in Proc, \/ CommitUpdate(p) \/ CommitAssign(p) \/ WriteStatus(p) \/ Fail(p)
      PROVE  Lasting'
  BY <1>5, LastingEnd
     DEF CommitUpdate, CommitAssign, WriteStatus, WritesReservation, EndsWriting, Fail, rows,
         Lasting, Held
<1>6. ASSUME NEW p \in Proc, Request(p)
      PROVE  Lasting'
  <2>1. CASE AcquireLock(p)
    BY <2>1 DEF AcquireLock, rows, Lasting, Held
  <2>2. CASE BeginCreate(p) \/ BeginConvert(p)
    <3>1. \A s, t, st, h : /\ Insertion("create", s, t, st).op = "create"
                           /\ Conversion(h, t, st).op = "convert"
      BY DEF Insertion, Conversion, NoPlan
    <3>2. QED
      BY <1>2, <2>2, <3>1 DEF BeginCreate, BeginConvert
  <2>3. CASE \/ ReadForUpdate(p) \/ ReadForAssign(p) \/ ReadForStatus(p)
             \/ ReadForCancel(p) \/ ReadForSweep(p)
    BY <1>2, <2>3, PlanOps
       DEF ReadForUpdate, ReadForAssign, ReadForStatus, ReadForCancel, ReadForSweep
  <2>4. CASE BeginUpdate(p)
    BY <1>2, <2>4 DEF BeginUpdate
  <2>5. QED
    BY <1>1, <1>3, <1>4, <1>5, <1>6, <2>1, <2>2, <2>3, <2>4 DEF Request
<1>7. CASE ListHolds \/ \E h \in Hold : Lapse(h)
  <2>1. \A h \in Hold : hold'[h].outlasts = hold[h].outlasts /\ (Held(h)' => Held(h))
    BY <1>7 DEF ListHolds, Lapse, Held, TypeOK, RowsOK, HoldRow
  <2>2. plan' = plan
    BY <1>7 DEF ListHolds, Lapse, procs
  <2>3. QED
    BY <2>1, <2>2 DEF Lasting
<1>8. CASE UNCHANGED vars \/ \E r \in Res : Remove(r)
  BY <1>8 DEF Remove, vars, rows, procs, Lasting, Held
<1>9. QED
  BY <1>6, <1>7, <1>8 DEF Next

LEMMA AlwaysLasting ==
  ASSUME Outlasts \subseteq {TRUE}
  PROVE  Spec => []Lasting
<1>1. Init => Lasting
  BY DEF Init, Lasting, NoHoldRow, NoPlan, Held
<1>2. QED
  BY <1>1, LastingStep, Typing, PTL DEF Spec

\* HoldKeepsTable, unconditionally, where every hold outlasts the start of its slot and
\* no request changes a reservation: a shorter hold, and a reservation written from a
\* stale copy, are the only ways to lose a held table.
THEOREM LastingHoldsKeepTables ==
  ASSUME Outlasts \subseteq {TRUE}, Ops \cap Changers = {}
  PROVE  Spec => []HoldKeepsTable
<1>1. Lasting /\ Untouched /\ OutlastingHoldKeepsTable => HoldKeepsTable
  BY DEF Lasting, Untouched, OutlastingHoldKeepsTable, HoldKeepsTable, Guards
<1>2. QED
  BY <1>1, AlwaysLasting, NeverTouched, HoldsKeepTables, PTL

\* Nothing disturbs a request between its read and its write, and no tables are joined.
Single(S) == \A t, u \in S : t = u

Undisturbed ==
  /\ taint = {}
  /\ \A p \in Proc : stale[p] /\ plan[p].res \in Res => ~Present(plan[p].res)
  /\ \A r \in Res : Single(res[r].tables)
  /\ \A p \in Proc : plan[p].tables # Keep => Single(plan[p].tables)

LEMMA SinglePlans ==
  ASSUME \A q \in Seatings : Single(Range(q))
  PROVE  /\ \A s, t, st : Single(Insertion("create", s, t, st).tables)
         /\ \A h, t, st : Single(Conversion(h, t, st).tables)
         /\ \A s, t, o : Single(Holding(s, t, o).tables)
         /\ \A r, dto : Change(r, dto).tables # Keep => Single(Change(r, dto).tables)
         /\ \A r : \A q \in Seatings : Single(Assignment(r, q).tables)
         /\ \A r, st : Restatus(r, st).tables = Keep
         /\ \A hs : Expiry(hs).tables = Keep
<1>1. \A t : Single(Just(t))
  BY DEF Just, Single
<1>2. \A r, dto : Change(r, dto).tables \in {Keep, Just(dto.table)}
  BY DEF Change, NextTables
<1>3. QED
  BY <1>1, <1>2 DEF Insertion, Conversion, Holding, Assignment, Restatus, Expiry, NoPlan

LEMMA UndisturbedPlan ==
  ASSUME TypeOK, Phases, Undisturbed, NEW p \in Proc, NEW m,
         TakesSnapshot(p, m) \/ ReadsOutside(p, m),
         pc[p] = "idle" \/ m = plan[p],
         m.tables # Keep => Single(m.tables)
  PROVE  Undisturbed'
<1>1. plan' = [plan EXCEPT ![p] = m] /\ UNCHANGED <<res, taint, stale>>
  BY DEF TakesSnapshot, ReadsOutside, rows
<1>2. stale[p] => m = plan[p]
  BY DEF Phases
<1>3. ASSUME NEW q \in Proc
      PROVE  /\ stale[q] /\ plan'[q].res \in Res => ~Present(plan'[q].res)
             /\ plan'[q].tables # Keep => Single(plan'[q].tables)
  <2>1. CASE q = p
    BY <1>1, <1>2, <2>1 DEF Undisturbed, TypeOK, ProcsOK
  <2>2. CASE q # p
    BY <1>1, <2>2 DEF Undisturbed, TypeOK, ProcsOK
  <2>3. QED
    BY <2>1, <2>2
<1>4. \A r : Present(r)' <=> Present(r)
  BY <1>1 DEF Present
<1>5. QED
  BY <1>1, <1>3, <1>4 DEF Undisturbed

LEMMA UndisturbedEnd ==
  ASSUME \A p, q \in Proc : p = q, TypeOK, Undisturbed, NEW p \in Proc,
         EndsWriting(p) \/ Fail(p), taint' = {}, \A r \in Res : Single(res'[r].tables)
  PROVE  Undisturbed'
<1>1. \A q \in Proc : plan'[q] = NoPlan
  BY DEF EndsWriting, Fail, TypeOK, ProcsOK
<1>2. \A q \in Proc : plan'[q].res \notin Res /\ plan'[q].tables = Keep
  BY <1>1, ConstantsAssumption DEF NoPlan
<1>3. QED
  BY <1>2 DEF Undisturbed

\* The row that a request writes names one table at most.
LEMMA SingleRow ==
  ASSUME TypeOK, Undisturbed, NEW p \in Proc
  PROVE  plan[p].res \in Res \cup {NoRes} => Single(NewRow(p).tables)
<1>1. NewRow(p).tables = Chosen(plan[p].tables, IF plan[p].res = NoRes THEN {}
                                                ELSE res[plan[p].res].tables)
  BY DEF NewRow, NoRow
<1>2. Single({})
  BY DEF Single
<1>3. QED
  BY <1>1, <1>2, ConstantsAssumption DEF Undisturbed, Chosen

LEMMA UndisturbedStep ==
  ASSUME \A p, q \in Proc : p = q, \A q \in Seatings : Single(Range(q)),
         TypeOK, Phases, Undisturbed, [Next]_vars
  PROVE  Undisturbed'
<1>1. ASSUME NEW p \in Proc, \/ BeginCreate(p) \/ BeginConvert(p) \/ BeginHold(p)
                             \/ ReadForUpdate(p) \/ ReadForAssign(p) \/ ReadForStatus(p)
                             \/ ReadForCancel(p) \/ ReadForSweep(p) \/ BeginUpdate(p)
      PROVE  Undisturbed'
  <2>1. PICK m : /\ TakesSnapshot(p, m) \/ ReadsOutside(p, m)
                 /\ pc[p] = "idle" \/ m = plan[p]
                 /\ m.tables # Keep => Single(m.tables)
    <3>1. CASE BeginCreate(p) \/ BeginConvert(p) \/ BeginHold(p)
      BY <3>1, SinglePlans DEF BeginCreate, BeginConvert, BeginHold
    <3>2. CASE ReadForUpdate(p) \/ ReadForAssign(p)
      BY <3>2, SinglePlans DEF ReadForUpdate, ReadForAssign, ReadsOutside
    <3>3. CASE ReadForStatus(p) \/ ReadForCancel(p) \/ ReadForSweep(p)
      <4>1. PICK m : ReadsOutside(p, m) /\ m.tables = Keep
        <5>1. CASE ReadForStatus(p)
          BY <5>1, SinglePlans DEF ReadForStatus
        <5>2. CASE ReadForCancel(p)
          BY <5>2, SinglePlans DEF ReadForCancel
        <5>3. CASE ReadForSweep(p)
          BY <5>3, SinglePlans DEF ReadForSweep
        <5>4. QED
          BY <3>3, <5>1, <5>2, <5>3
      <4>2. QED
        BY <4>1 DEF ReadsOutside
    <3>4. CASE BeginUpdate(p)
      BY <3>4 DEF BeginUpdate, Undisturbed
    <3>5. QED
      BY <1>1, <3>1, <3>2, <3>3, <3>4
  <2>2. QED
    BY <2>1, UndisturbedPlan
<1>2. ASSUME NEW p \in Proc, CommitCreate(p) \/ CommitConvert(p)
      PROVE  Undisturbed'
  <2>1. EndsWriting(p) /\ InsertsReservation(p) /\ taint' = taint
    BY <1>2 DEF CommitCreate, CommitConvert
  <2>2. \A r \in Res : res'[r] = res[r] \/ res'[r] = NewRow(p)
    BY <2>1 DEF InsertsReservation, TypeOK, RowsOK
  <2>3. plan[p].res \in Res \cup {NoRes}
    BY PlanShape DEF Plan
  <2>4. QED
    BY <2>1, <2>2, <2>3, SingleRow, UndisturbedEnd DEF Undisturbed
<1>3. ASSUME NEW p \in Proc, CommitUpdate(p) \/ CommitAssign(p) \/ WriteStatus(p)
      PROVE  Undisturbed'
  <2>1. WritesReservation(p) /\ plan[p].op \in {"update", "assign", "status"}
    BY <1>3 DEF CommitUpdate, CommitAssign, WriteStatus, CanCommit
  <2>2. plan[p].res \in Res
    BY <2>1, PlanShape DEF Updates, Assigns, Restates
  <2>3. ~stale[p] /\ ~MovesJoined(p)
    BY <2>1, <2>2 DEF WritesReservation, Undisturbed, MovesJoined, Single
  <2>4. taint' = {}
    BY <2>1, <2>3 DEF WritesReservation, Undisturbed
  <2>5. \A r \in Res : res'[r] = res[r] \/ res'[r] = NewRow(p)
    BY <2>1 DEF WritesReservation, TypeOK, RowsOK
  <2>6. QED
    BY <2>1, <2>2, <2>4, <2>5, SingleRow, UndisturbedEnd DEF WritesReservation, Undisturbed
<1>4. ASSUME NEW p \in Proc, CommitHold(p) \/ WriteExpired(p) \/ Fail(p)
      PROVE  Undisturbed'
  BY <1>4, UndisturbedEnd DEF CommitHold, WriteExpired, Fail, rows, Undisturbed
<1>5. CASE \E r \in Res : Remove(r)
  <2>1. PICK r \in Res : Remove(r)
    BY <1>5
  <2>2. \A o \in Res : res'[o].tables = res[o].tables /\ (o # r => res'[o] = res[o])
    BY <2>1 DEF Remove, TypeOK, RowsOK, Row
  <2>3. ~Present(r)'
    BY <2>1 DEF Remove, Present, Status, TypeOK, RowsOK, Row
  <2>4. \A o \in Res : Present(o)' => Present(o) /\ o # r
    BY <2>2, <2>3 DEF Present
  <2>5. \A q \in Proc : stale'[q] => stale[q] \/ plan[q].res = r
    BY <2>1 DEF Remove, Ages, WrittenRes
  <2>6. plan' = plan /\ taint' = taint
    BY <2>1 DEF Remove
  <2>7. QED
    BY <2>2, <2>4, <2>5, <2>6 DEF Undisturbed
<1>6. CASE ListHolds \/ (\E h \in Hold : Lapse(h)) \/ UNCHANGED vars
           \/ (\E p \in Proc : AcquireLock(p))
  BY <1>6 DEF ListHolds, Lapse, AcquireLock, vars, rows, procs, Undisturbed, Present
<1>7. QED
  BY <1>1, <1>2, <1>3, <1>4, <1>5, <1>6 DEF Next, Request

\* NoDoubleBooking, unconditionally, where requests come one after the other and no
\* tables are joined, whatever the requests are and whenever rows are deleted, holds
\* lapse and requests fail: every double booking takes a race or a joined reservation.
THEOREM OneByOneExcludes ==
  ASSUME \A p, q \in Proc : p = q, \A q \in Seatings : Single(Range(q))
  PROVE  Spec => []NoDoubleBooking
<1>1. Init => Undisturbed
  BY ConstantsAssumption DEF Init, Undisturbed, NoRow, NoPlan, Single
<1>2. Undisturbed => taint = {}
  BY DEF Undisturbed
<1>3. QED
  BY <1>1, <1>2, UndisturbedStep, Typing, RequestPhases, Exclusion, UntaintedExcludes, PTL DEF Spec
=============================================================================
