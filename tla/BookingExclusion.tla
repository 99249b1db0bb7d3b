--------------------------- MODULE BookingExclusion ---------------------------
(* Theorems about what reservations claim: tables of a slot are given to one  *)
(* live reservation, and statuses change along STATUS_TRANSITIONS, unless a   *)
(* request worked on a reservation that had changed (or moved a joined one).  *)
EXTENDS BookingProofs

-----------------------------------------------------------------------------
(* What a request knows of the reservation it is going to write.            *)

Informed(p) ==
  LET m == plan[p] IN
  m.res \in Res =>
    /\ res[m.res].status # "none"
    /\ ~stale[p] =>
         /\ Present(m.res)
         /\ m.status \in {Keep, res[m.res].status} \cup STATUS_TRANSITIONS[res[m.res].status]
         /\ m.op = "update" => /\ m.at = Chosen(m.slot, res[m.res].slot)
                               /\ m.req = Asked(Chosen(m.table, res[m.res].table))
         /\ m.op = "assign" => m.at = res[m.res].slot

\* Until it is stale, what a request read is what its reservation still is.
Reading == \A p \in Proc : Informed(p)

LEMMA InformedKept ==
  ASSUME NEW p \in Proc, Informed(p), plan'[p] = plan[p], stale[p] => stale'[p],
         plan[p].res \in Res =>
           \/ res'[plan[p].res] = res[plan[p].res]
           \/ res'[plan[p].res].status # "none" /\ stale'[p]
  PROVE  Informed(p)'
BY DEF Informed, Present

LEMMA NoPlanInformed ==
  ASSUME NEW p \in Proc, plan'[p].res = NoRes
  PROVE  Informed(p)'
BY ConstantsAssumption DEF Informed

\* The four ways in which a step may change reservations.
LEMMA ReservationWrites ==
  ASSUME [Next]_vars
  PROVE  \/ res' = res
         \/ \E p \in Proc : /\ plan[p].op \in {"create", "convert"} /\ CanCommit(p, plan[p].op)
                            /\ InsertsReservation(p) /\ EndsWriting(p) /\ taint' = taint
                            /\ CommitCreate(p) \/ CommitConvert(p)
         \/ \E p \in Proc : /\ \/ plan[p].op \in {"update", "assign"} /\ CanCommit(p, plan[p].op)
                               \/ plan[p].op = "status" /\ pc[p] = "read"
                            /\ WritesReservation(p)
         \/ \E r \in Res : Remove(r)
<1>1. ASSUME NEW p \in Proc, CommitCreate(p) \/ CommitConvert(p)
      PROVE  /\ plan[p].op \in {"create", "convert"} /\ CanCommit(p, plan[p].op)
             /\ InsertsReservation(p) /\ EndsWriting(p) /\ taint' = taint
  BY <1>1 DEF CommitCreate, CommitConvert, CanCommit
<1>2. ASSUME NEW p \in Proc, CommitUpdate(p) \/ CommitAssign(p) \/ WriteStatus(p)
      PROVE  /\ \/ plan[p].op \in {"update", "assign"} /\ CanCommit(p, plan[p].op)
                \/ plan[p].op = "status" /\ pc[p] = "read"
             /\ WritesReservation(p)
  BY <1>2 DEF CommitUpdate, CommitAssign, WriteStatus, CanCommit
<1>3. ASSUME NEW p \in Proc, BeginCreate(p) \/ BeginConvert(p) \/ BeginHold(p) \/ BeginUpdate(p)
      PROVE  res' = res
  BY <1>3 DEF BeginCreate, BeginConvert, BeginHold, BeginUpdate, TakesSnapshot, rows
<1>4. ASSUME NEW p \in Proc, ReadForUpdate(p) \/ ReadForAssign(p) \/ ReadForStatus(p)
                             \/ ReadForCancel(p) \/ ReadForSweep(p)
      PROVE  res' = res
  BY <1>4 DEF ReadForUpdate, ReadForAssign, ReadForStatus, ReadForCancel, ReadForSweep,
              ReadsOutside, rows
<1>5. ASSUME NEW p \in Proc, CommitHold(p) \/ WriteExpired(p) \/ AcquireLock(p) \/ Fail(p)
      PROVE  res' = res
  BY <1>5 DEF CommitHold, WriteExpired, AcquireLock, Fail, rows
<1>6. ASSUME NEW h \in Hold, Lapse(h)
      PROVE  res' = res
  BY <1>6 DEF Lapse
<1>7. CASE ListHolds
  BY <1>7 DEF ListHolds
<1>8. CASE UNCHANGED vars
  BY <1>8 DEF vars, rows
<1>9. QED
  BY <1>1, <1>2, <1>3, <1>4, <1>5, <1>6, <1>7, <1>8 DEF Next, Request

\* The effect of p's write on another request.
LEMMA EndsWritingOthers ==
  ASSUME TypeOK, NEW p \in Proc, EndsWriting(p), NEW q \in Proc, q # p
  PROVE  /\ plan'[q] = plan[q] /\ pc'[q] = pc[q] /\ seen'[q] = seen[q]
         /\ doomed[q] => doomed'[q]
         /\ stale[q] => stale'[q]
         /\ plan[q].res \in Res /\ plan[q].res = plan[p].res => stale'[q]
         /\ pc[q] = "tx" /\ plan[q].res \in Res /\ plan[q].res = plan[p].res => doomed'[q]
         /\ pc[q] = "tx" /\ Rivals(p, q) => doomed'[q]
<1>1. plan[q].res \in Res /\ plan[q].res = plan[p].res => WrittenRes(q) \cap WrittenRes(p) # {}
  BY DEF WrittenRes
<1>2. QED
  BY <1>1 DEF EndsWriting, TypeOK, ProcsOK

LEMMA EndsWritingInformed ==
  ASSUME TypeOK, Reading, NEW p \in Proc, EndsWriting(p),
         \A r \in Res : \/ res'[r] = res[r]
                        \/ res[r].status = "none"
                        \/ r = plan[p].res /\ res'[r].status # "none"
  PROVE  Reading'
<1>1. ASSUME NEW q \in Proc, q # p
      PROVE  Informed(q)'
  <2>1. Informed(q)
    BY DEF Reading
  <2>2. plan[q].res \in Res => res[plan[q].res].status # "none"
    BY <2>1 DEF Informed
  <2>3. QED
    BY <1>1, <2>1, <2>2, EndsWritingOthers, InformedKept
<1>2. Informed(p)'
  BY NoPlanInformed DEF EndsWriting, TypeOK, ProcsOK, NoPlan
<1>3. QED
  BY <1>1, <1>2 DEF Reading

\* The steps that change no reservation and give p the plan m.
LEMMA NewPlanInformed ==
  ASSUME TypeOK, Reading, NEW p \in Proc, NEW m, UNCHANGED rows, UNCHANGED stale,
         plan' = [plan EXCEPT ![p] = m], Informed(p)'
  PROVE  Reading'
<1>1. ASSUME NEW q \in Proc, q # p
      PROVE  Informed(q)'
  BY <1>1, InformedKept DEF Reading, rows, TypeOK, ProcsOK
<1>2. QED
  BY <1>1 DEF Reading

LEMMA ReadRows ==
  ASSUME TypeOK, Reading, NEW p \in Proc,
         ReadForUpdate(p) \/ ReadForAssign(p) \/ ReadForStatus(p)
  PROVE  Reading'
<1>1. ASSUME NEW r \in Res, Present(r), NEW m, ReadsOutside(p, m), m.res = r,
             m.status \in {Keep, res[r].status} \cup STATUS_TRANSITIONS[res[r].status],
             m.op = "update" => /\ m.at = Chosen(m.slot, res[r].slot)
                                /\ m.req = Asked(Chosen(m.table, res[r].table)),
             m.op = "assign" => m.at = res[r].slot
      PROVE  Reading'
  <2>1. plan' = [plan EXCEPT ![p] = m] /\ UNCHANGED rows /\ UNCHANGED stale
    BY <1>1 DEF ReadsOutside
  <2>2. plan'[p] = m /\ res' = res
    BY <2>1 DEF TypeOK, ProcsOK, rows
  <2>3. Informed(p)'
    BY <1>1, <2>2 DEF Informed, Present, Status
  <2>4. QED
    BY <2>1, <2>3, NewPlanInformed
<1>2. CASE ReadForUpdate(p)
  <2>1. PICK r \in Res, dto \in Edits :
          /\ Present(r)
          /\ dto.status # Keep => dto.status \in STATUS_TRANSITIONS[res[r].status]
          /\ ReadsOutside(p, Change(r, dto))
    BY <1>2 DEF ReadForUpdate
  <2>2. /\ Change(r, dto).res = r /\ Change(r, dto).op = "update"
        /\ Change(r, dto).status = dto.status
        /\ Change(r, dto).at = Chosen(Change(r, dto).slot, res[r].slot)
        /\ Change(r, dto).req = Asked(Chosen(Change(r, dto).table, res[r].table))
    BY DEF Change
  <2>3. QED
    BY <1>1, <2>1, <2>2
<1>3. CASE ReadForAssign(p)
  <2>1. PICK r \in Res, q \in Seatings : Present(r) /\ ReadsOutside(p, Assignment(r, q))
    BY <1>3 DEF ReadForAssign
  <2>2. /\ Assignment(r, q).res = r /\ Assignment(r, q).op = "assign"
        /\ Assignment(r, q).status = Keep /\ Assignment(r, q).at = res[r].slot
    BY DEF Assignment, NoPlan
  <2>3. QED
    BY <1>1, <2>1, <2>2
<1>4. CASE ReadForStatus(p)
  <2>1. PICK r \in Res, st \in Asks :
          /\ Present(r) /\ st \in {res[r].status} \cup STATUS_TRANSITIONS[res[r].status]
          /\ ReadsOutside(p, Restatus(r, st))
    BY <1>4 DEF ReadForStatus
  <2>2. Restatus(r, st).res = r /\ Restatus(r, st).op = "status" /\ Restatus(r, st).status = st
    BY DEF Restatus, NoPlan
  <2>3. QED
    BY <1>1, <2>1, <2>2
<1>5. QED
  BY <1>2, <1>3, <1>4

LEMMA ReadingStep ==
  ASSUME TypeOK, Phases, Reading, [Next]_vars
  PROVE  Reading'
<1>1. ASSUME NEW p \in Proc, BeginCreate(p) \/ BeginConvert(p) \/ BeginHold(p) \/ BeginUpdate(p)
      PROVE  Reading'
  <2>1. PICK m : TakesSnapshot(p, m) /\ (m.res = NoRes \/ m = plan[p])
    <3>1. \A op, s, t, st : Insertion(op, s, t, st).res = NoRes
      BY DEF Insertion, NoPlan
    <3>2. \A h, t, st : Conversion(h, t, st).res = NoRes
      BY DEF Conversion, Insertion, NoPlan
    <3>3. \A s, t, o : Holding(s, t, o).res = NoRes
      BY DEF Holding, Insertion, NoPlan
    <3>4. QED
      BY <1>1, <3>1, <3>2, <3>3 DEF BeginCreate, BeginConvert, BeginHold, BeginUpdate
  <2>2. /\ plan' = [plan EXCEPT ![p] = m] /\ plan'[p] = m
        /\ UNCHANGED rows /\ UNCHANGED stale /\ res' = res
    BY <2>1 DEF TakesSnapshot, TypeOK, ProcsOK, rows
  <2>3. Informed(p)'
    BY <2>1, <2>2, NoPlanInformed, InformedKept DEF Reading
  <2>4. QED
    BY <2>2, <2>3, NewPlanInformed
<1>2. ASSUME NEW p \in Proc, ReadForUpdate(p) \/ ReadForAssign(p) \/ ReadForStatus(p)
      PROVE  Reading'
  BY <1>2, ReadRows
<1>3. ASSUME NEW p \in Proc, ReadForCancel(p) \/ ReadForSweep(p)
      PROVE  Reading'
  <2>1. PICK hs : ReadsOutside(p, Expiry(hs))
    BY <1>3 DEF ReadForCancel, ReadForSweep
  <2>2. plan' = [plan EXCEPT ![p] = Expiry(hs)] /\ UNCHANGED rows /\ UNCHANGED stale
    BY <2>1 DEF ReadsOutside
  <2>3. Expiry(hs).res = NoRes
    BY DEF Expiry, NoPlan
  <2>4. Informed(p)'
    BY <2>2, <2>3, NoPlanInformed DEF TypeOK, ProcsOK
  <2>5. QED
    BY <2>2, <2>4, NewPlanInformed
<1>4. ASSUME NEW p \in Proc, EndsWriting(p), InsertsReservation(p)
      PROVE  Reading'
  <2>1. \A r \in Res : res'[r] = res[r] \/ res[r].status = "none"
    BY <1>4 DEF InsertsReservation, TypeOK, RowsOK
  <2>2. QED
    BY <1>4, <2>1, EndsWritingInformed
<1>5. ASSUME NEW p \in Proc, WritesReservation(p), plan[p].op \in {"update", "assign", "status"}
      PROVE  Reading'
  <2>1. plan[p].res \in Res /\ plan[p].status \in Status \cup {Keep}
    BY <1>5, PlanShape, ConstantsAssumption DEF Updates, Assigns, Restates, Plan
  <2>2. NewRow(p).status # "none"
    BY <1>5, <2>1, ConstantsAssumption
       DEF WritesReservation, Present, NewRow, Chosen, Status
  <2>3. \A r \in Res : res'[r] = res[r] \/ (r = plan[p].res /\ res'[r].status # "none")
    BY <1>5, <2>1, <2>2 DEF WritesReservation, TypeOK, RowsOK
  <2>4. QED
    BY <1>5, <2>3, EndsWritingInformed DEF WritesReservation
<1>6. ASSUME NEW p \in Proc, CommitHold(p) \/ WriteExpired(p)
      PROVE  Reading'
  BY <1>6, EndsWritingInformed DEF CommitHold, WriteExpired
<1>7. ASSUME NEW p \in Proc, AcquireLock(p)
      PROVE  Reading'
  BY <1>7, InformedKept DEF AcquireLock, Reading, rows
<1>8. ASSUME NEW p \in Proc, Fail(p)
      PROVE  Reading'
  <2>1. ASSUME NEW q \in Proc, q # p
        PROVE  Informed(q)'
    BY <1>8, <2>1, InformedKept DEF Fail, Reading, rows, TypeOK, ProcsOK
  <2>2. Informed(p)'
    BY <1>8, NoPlanInformed DEF Fail, TypeOK, ProcsOK, NoPlan
  <2>3. QED
    BY <2>1, <2>2 DEF Reading
<1>9. ASSUME NEW r \in Res, Remove(r)
      PROVE  Reading'
  <2>1. \A o \in Res : IF o = r THEN res'[o].status = "removed" ELSE res'[o] = res[o]
    BY <1>9 DEF Remove, TypeOK, RowsOK, Row
  <2>2. ASSUME NEW q \in Proc
        PROVE  Informed(q)'
    <3>1. plan'[q] = plan[q] /\ (stale[q] => stale'[q]) /\ (plan[q].res = r => stale'[q])
      BY <1>9 DEF Remove, Ages, WrittenRes
    <3>2. QED
      BY <2>1, <3>1, InformedKept DEF Reading
  <2>3. QED
    BY <2>2 DEF Reading
<1>10. ASSUME NEW h \in Hold, Lapse(h)
       PROVE  Reading'
  BY <1>10, InformedKept DEF Lapse, procs, Reading
<1>11. CASE ListHolds
  BY <1>11, InformedKept DEF ListHolds, Reading
<1>12. CASE UNCHANGED vars
  BY <1>12, InformedKept DEF vars, rows, procs, Reading
<1>13. QED
  BY <1>1, <1>2, <1>3, <1>4, <1>5, <1>6, <1>7, <1>8, <1>9, <1>10, <1>11, <1>12
     DEF Next, Request, CommitCreate, CommitConvert, CommitUpdate, CommitAssign, WriteStatus, CanCommit

LEMMA RequestsRead == Spec => []Reading
<1>1. Init => Reading
  BY ConstantsAssumption DEF Init, Reading, Informed, NoPlan
<1>2. QED
  BY <1>1, Typing, RequestPhases, ReadingStep, PTL DEF Spec

-----------------------------------------------------------------------------
(* The status theorem.                                                      *)

LEMMA StatusStep ==
  ASSUME TypeOK, Phases, Reading, [Next]_vars, NEW r \in Res,
         Present(r), res'[r].status # res[r].status
  PROVE  \/ res'[r].status \in STATUS_TRANSITIONS[res[r].status] \cup {"removed"}
         \/ r \in taint'
<1>1. ASSUME NEW p \in Proc, InsertsReservation(p)
      PROVE  FALSE
  BY <1>1 DEF InsertsReservation, Present, Status, TypeOK, RowsOK
<1>2. ASSUME NEW p \in Proc, WritesReservation(p), plan[p].op \in {"update", "assign", "status"}
      PROVE  res'[r].status \in STATUS_TRANSITIONS[res[r].status] \/ r \in taint'
  <2>1. plan[p].res = r /\ res'[r] = NewRow(p) /\ (stale[p] => r \in taint')
    BY <1>2, PlanShape DEF WritesReservation, TypeOK, RowsOK, Updates, Assigns, Restates
  <2>2. NewRow(p).status = Chosen(plan[p].status, res[r].status)
    BY <2>1, ConstantsAssumption DEF NewRow
  <2>3. ~stale[p] => plan[p].status \in {Keep, res[r].status} \cup STATUS_TRANSITIONS[res[r].status]
    BY <2>1 DEF Reading, Informed
  <2>4. QED
    BY <2>1, <2>2, <2>3 DEF Chosen
<1>3. ASSUME NEW o \in Res, Remove(o)
      PROVE  res'[r].status = "removed"
  BY <1>3 DEF Remove, TypeOK, RowsOK, Row
<1>4. QED
  BY <1>1, <1>2, <1>3, ReservationWrites

\* StatusLeavesTransitionsOnlyIfTainted: update and updateStatus move a status along
\* STATUS_TRANSITIONS, except when the reservation changed after they had read it.
THEOREM StatusSafety == Spec => StatusLeavesTransitionsOnlyIfTainted
<1>1. TypeOK /\ Phases /\ Reading /\ [Next]_vars =>
        [\A r \in Res : Present(r) /\ res'[r].status # res[r].status =>
           \/ res'[r].status \in STATUS_TRANSITIONS[res[r].status] \cup {"removed"}
           \/ r \in taint']_vars
  BY StatusStep
<1>2. QED
  BY <1>1, Typing, RequestPhases, RequestsRead, PTL DEF Spec, StatusLeavesTransitionsOnlyIfTainted

-----------------------------------------------------------------------------
(* What a request checks is what it claims.                                 *)

Aims(p) ==
  /\ plan[p].check /\ NewRow(p).slot = plan[p].at
  /\ NoTable \in Occupies(NewRow(p)) => Range(plan[p].req) = {}
  /\ Occupies(NewRow(p)) \subseteq Range(plan[p].req) \cup {NoTable}

\* A row that claims the table t, or none, was checked with Asked(t).
LEMMA OneTableAims ==
  ASSUME NEW row, NEW t \in Table \cup {NoTable}, row.table = t, row.tables = Just(t)
  PROVE  /\ NoTable \in Occupies(row) => Range(Asked(t)) = {}
         /\ Occupies(row) \subseteq Range(Asked(t)) \cup {NoTable}
BY AskedFacts, ConstantsAssumption DEF Occupies, Just

LEMMA ClaimAims ==
  ASSUME TypeOK, NEW p \in Proc, Informed(p), ~stale[p], Reclaims(plan[p]), ~MovesJoined(p),
         plan[p].op \in {"create", "convert", "hold", "update", "assign", "status"}
  PROVE  Aims(p)
<1> DEFINE m == plan[p]
<1>1. CASE Inserts(m)
  <2>1. NewRow(p).slot = m.slot /\ NewRow(p).table = m.table /\ NewRow(p).tables = m.tables
    <3>1. m.table \in Table \cup {NoTable} /\ m.tables = Just(m.table) /\ m.slot # Keep
      BY <1>1, PlanShape DEF Inserts, Plan
    <3>2. m.tables # Keep /\ m.table # Keep
      BY <3>1, AskedFacts, ConstantsAssumption
    <3>3. QED
      BY <3>1, <3>2 DEF NewRow, Chosen
  <2>2. m.table \in Table \cup {NoTable}
    BY <1>1, PlanShape DEF Inserts, Plan
  <2>3. QED
    BY <1>1, <2>1, <2>2, OneTableAims DEF Inserts, Aims
<1>2. CASE Updates(m)
  <2> DEFINE old == res[m.res]
  <2>1. /\ m \in Plan /\ m.res \in Res /\ old \in Row
        /\ m.at = Chosen(m.slot, old.slot) /\ m.req = Asked(Chosen(m.table, old.table))
        /\ m.check
    BY <1>2, PlanShape DEF Informed, Updates, TypeOK, RowsOK
  <2>2. /\ NewRow(p).slot = Chosen(m.slot, old.slot)
        /\ NewRow(p).table = Chosen(m.table, old.table)
        /\ NewRow(p).tables = Chosen(m.tables, old.tables)
    BY <2>1, ConstantsAssumption DEF NewRow
  <2>3. CASE m.table # Keep
    <3>1. m.table \in Table \cup {NoTable} /\ m.tables = Just(m.table)
      BY <1>2, <2>1, <2>3 DEF Updates, NextTables, Plan
    <3>2. m.tables # Keep
      BY <3>1, AskedFacts
    <3>3. QED
      BY <2>1, <2>2, <2>3, <3>1, <3>2, OneTableAims DEF Aims, Chosen
  <2>4. CASE m.table = Keep
    <3>1. m.slot # Keep /\ m.tables = Keep
      BY <1>2, <2>4 DEF Reclaims, Updates, NextTables
    <3>2. \A t, u \in old.tables : t = u
      BY <3>1 DEF MovesJoined
    <3>3. old.table \in Table \cup {NoTable} /\ old.tables = Just(old.table)
      BY <2>1, <3>2 DEF Row, Just
    <3>4. QED
      BY <2>1, <2>2, <2>4, <3>1, <3>3, OneTableAims DEF Aims, Chosen
  <2>5. QED
    BY <2>3, <2>4
<1>3. CASE Assigns(m)
  <2>1. /\ m.res \in Res /\ m.req \in Seatings /\ m.check /\ m.slot = Keep
        /\ m.table = m.req[1] /\ m.tables = Range(m.req) /\ m.at = res[m.res].slot
    BY <1>3 DEF Assigns, Informed
  <2>2. /\ m.table \in Table /\ m.table \in Range(m.req)
        /\ Range(m.req) \subseteq Table /\ NoTable \notin Range(m.req)
    BY <2>1, SeatingFacts
  <2>3. /\ NewRow(p).slot = res[m.res].slot /\ NewRow(p).table = m.table
        /\ NewRow(p).tables = Range(m.req)
    BY <2>1, <2>2, ConstantsAssumption DEF NewRow, Chosen
  <2>4. QED
    BY <2>1, <2>2, <2>3 DEF Aims, Occupies
<1>4. CASE Restates(m)
  BY <1>4 DEF Restates, Reclaims
<1>5. QED
  BY <1>1, <1>2, <1>3, <1>4, PlanShape

\* A request that does not change the claim leaves the row claiming what it did.
LEMMA SameClaim ==
  ASSUME TypeOK, NEW p \in Proc, Informed(p), ~stale[p], ~Reclaims(plan[p]),
         plan[p].op \in {"update", "assign", "status"}
  PROVE  LET old == res[plan[p].res] IN
         /\ NewRow(p).slot = old.slot
         /\ Occupies(NewRow(p)) = Occupies(old)
         /\ Blocking(NewRow(p)) => Blocking(old)
<1> DEFINE m == plan[p]
           old == res[m.res]
<1>1. m.res \in Res /\ m.slot = Keep /\ m.table = Keep /\ m.tables = Keep
  <2>1. CASE Updates(m)
    BY <2>1 DEF Updates, Reclaims, NextTables
  <2>2. CASE Assigns(m)
    BY <2>2, SeatingFacts, ConstantsAssumption DEF Assigns, Reclaims
  <2>3. CASE Restates(m)
    BY <2>3 DEF Restates
  <2>4. QED
    BY <2>1, <2>2, <2>3, PlanShape
<1>2. NewRow(p).slot = old.slot /\ Occupies(NewRow(p)) = Occupies(old)
  BY <1>1, ConstantsAssumption DEF NewRow, Chosen, Occupies
<1>3. /\ old.status \in Status
      /\ m.status \in {Keep, old.status} \cup STATUS_TRANSITIONS[old.status]
  BY <1>1 DEF Informed, Present
<1>4. NewRow(p).status = Chosen(m.status, old.status)
  BY <1>1, ConstantsAssumption DEF NewRow
<1>5. ~Blocking(old) => STATUS_TRANSITIONS[old.status] = {}
  BY <1>3 DEF Blocking, BLOCKING_RESERVATION_STATUSES, Status, STATUS_TRANSITIONS
<1>6. QED
  BY <1>2, <1>3, <1>4, <1>5 DEF Chosen, Blocking

-----------------------------------------------------------------------------
(* Transactions see every clash, so reservations of a slot are exclusive.   *)

\* Two requests whose rows clash query each other's row.
LEMMA ClashingRivals ==
  ASSUME NEW p \in Proc, NEW q \in Proc, pc[p] = "tx", pc[q] = "tx", Aims(p), Aims(q),
         Claiming(NewRow(p)), Claiming(NewRow(q)), Clash(NewRow(p), NewRow(q))
  PROVE  Rivals(p, q)
BY DEF Rivals, Sees, Aims, Clash, TableMatches

LEMMA ClashSymmetric == \A x, y : Clash(x, y) <=> Clash(y, x)
BY DEF Clash

\* The operations that claim a slot and tables.
Claims == {"create", "convert", "hold", "update", "assign"}

LEMMA ClaimingOps ==
  ASSUME TypeOK, Phases, NEW p \in Proc, pc[p] = "tx", Reclaims(plan[p])
  PROVE  plan[p].op \in Claims
<1>1. plan[p].op \notin {"status", "expire"}
  BY DEF Phases
<1>2. plan[p].op # "none"
  BY PlanShape DEF Reclaims, NoPlan
<1>3. QED
  BY <1>1, <1>2, PlanShape DEF Plan, Op, Claims

LEMMA MayClaimAims ==
  ASSUME TypeOK, Phases, NEW p \in Proc, Informed(p), MayClaim(p)
  PROVE  Aims(p) /\ plan[p].op \in Claims
BY ClaimAims, ClaimingOps DEF MayClaim, Claims

LEMMA InsertionClaims ==
  ASSUME TypeOK, Phases, NEW p \in Proc, plan[p].op \in {"create", "convert", "hold"}
  PROVE  ~stale[p] /\ Reclaims(plan[p]) /\ ~MovesJoined(p)
<1>1. Inserts(plan[p]) /\ plan[p].table \in Table \cup {NoTable}
  BY PlanShape DEF Inserts, Plan
<1>2. plan[p].tables # Keep
  BY <1>1, AskedFacts DEF Inserts
<1>3. QED
  BY <1>1, <1>2 DEF Phases, Inserts, Reclaims, MovesJoined

\* What q is about to write depends on its plan and on the row it updates.
LEMMA TargetKept ==
  ASSUME NEW q \in Proc, plan'[q] = plan[q], pc'[q] = pc[q],
         doomed[q] => doomed'[q], stale[q] => stale'[q],
         \/ plan[q].res = NoRes /\ plan[q].tables # Keep
         \/ plan[q].res \in Res /\ res'[plan[q].res] = res[plan[q].res]
  PROVE  /\ NewRow(q)' = NewRow(q)
         /\ MayClaim(q)' => MayClaim(q)
<1>1. NewRow(q)' = NewRow(q)
  BY ConstantsAssumption DEF NewRow
<1>2. MovesJoined(q)' <=> MovesJoined(q)
  BY DEF MovesJoined
<1>3. QED
  BY <1>1, <1>2 DEF MayClaim, Claiming, Blocking

\* p has written the reservation w, and q may still claim.
LEMMA SeesWritten ==
  ASSUME TypeOK, Phases, Reading, SeesEveryClash,
         NEW p \in Proc, EndsWriting(p), NEW w \in Res,
         \A o \in Res \ {w} : res'[o] = res[o],
         res'[w] = NewRow(p), taint \subseteq taint',
         \/ res[w].status = "none" /\ plan[p].op \in {"create", "convert"} /\ pc[p] = "tx"
         \/ /\ plan[p].op \in {"update", "assign", "status"} /\ w = plan[p].res
            /\ w \notin taint' => ~stale[p] /\ ~MovesJoined(p)
            /\ pc[p] = "tx" \/ plan[p].op = "status"
  PROVE  SeesEveryClash'
<1> SUFFICES ASSUME NEW q \in Proc, MayClaim(q)', NEW o \in Res, o \notin taint',
                    (o # plan[q].res)', Blocking(res[o])', Clash(NewRow(q), res[o])'
             PROVE  (o \in seen[q])'
  BY DEF SeesEveryClash
<1>1. q # p
  BY DEF MayClaim, EndsWriting, TypeOK, ProcsOK
<1>2. /\ plan'[q] = plan[q] /\ pc'[q] = pc[q] /\ seen'[q] = seen[q]
      /\ doomed[q] => doomed'[q]
      /\ stale[q] => stale'[q]
      /\ ~(plan[q].res \in Res /\ plan[q].res = plan[p].res)
      /\ ~Rivals(p, q)
  BY <1>1, EndsWritingOthers DEF MayClaim
<1>3. \/ plan[q].res = NoRes /\ plan[q].tables # Keep
      \/ plan[q].res \in Res /\ res'[plan[q].res] = res[plan[q].res] /\ plan[q].res # w
  <2>1. Reclaims(plan[q]) /\ pc[q] = "tx"
    BY <1>2 DEF MayClaim
  <2>2. plan[q].op \notin {"none", "expire"}
    BY <2>1, PlanShape DEF Reclaims, NoPlan, Phases
  <2>3. CASE Inserts(plan[q])
    <3>1. plan[q].table \in Table \cup {NoTable}
      BY <2>3, PlanShape DEF Inserts, Plan
    <3>2. QED
      BY <2>3, <3>1, AskedFacts DEF Inserts
  <2>4. CASE plan[q].res \in Res
    <3>1. res[plan[q].res].status # "none"
      BY <2>4 DEF Reading, Informed
    <3>2. plan[q].res # w
      BY <1>2, <2>4, <3>1
    <3>3. QED
      BY <2>4, <3>2
  <2>5. QED
    BY <2>2, <2>3, <2>4, PlanShape DEF Plan, Op, Updates, Assigns, Restates
<1>4. NewRow(q)' = NewRow(q) /\ MayClaim(q)
  BY <1>2, <1>3, TargetKept
<1>5. CASE o # w
  BY <1>2, <1>4, <1>5 DEF SeesEveryClash, Blocking, Clash, Occupies
<1>6. CASE o = w
  <2>1. Blocking(NewRow(p)) /\ Clash(NewRow(q), NewRow(p))
    BY <1>4, <1>6 DEF Blocking, Clash, Occupies
  <2>2. Aims(q) /\ pc[q] = "tx" /\ Claiming(NewRow(q))
    BY <1>4, MayClaimAims DEF Reading, MayClaim
  <2>3. CASE ~stale[p] /\ Reclaims(plan[p]) /\ ~MovesJoined(p) /\ pc[p] = "tx"
    <3>1. Aims(p)
      BY <2>3, ClaimAims, ClaimingOps DEF Reading, Claims
    <3>2. QED
      BY <1>2, <2>1, <2>2, <2>3, <3>1, ClashingRivals, ClashSymmetric DEF Claiming
  <2>4. CASE ~stale[p] /\ ~Reclaims(plan[p]) /\ plan[p].op \in {"update", "assign", "status"}
    <3>1. /\ w = plan[p].res
          /\ NewRow(p).slot = res[w].slot /\ Occupies(NewRow(p)) = Occupies(res[w])
          /\ Blocking(res[w])
      BY <2>1, <2>4, SameClaim, PlanShape DEF Reading
    <3>2. Clash(NewRow(q), res[w])
      BY <2>1, <3>1 DEF Clash
    <3>3. QED
      BY <1>2, <1>3, <1>4, <1>6, <3>1, <3>2 DEF SeesEveryClash
  <2>5. CASE plan[p].op \in {"create", "convert"} /\ pc[p] = "tx"
    BY <2>3, <2>5, InsertionClaims DEF MayClaim
  <2>6. CASE plan[p].op = "status"
    BY <1>6, <2>4, <2>6, PlanShape DEF Restates, Reclaims
  <2>7. QED
    BY <1>6, <2>3, <2>4, <2>5, <2>6
<1>7. QED
  BY <1>5, <1>6

\* SeesEveryClash, for one request.
Sighted(q) ==
  MayClaim(q) =>
    \A o \in Res \ taint :
      o # plan[q].res /\ Blocking(res[o]) /\ Clash(NewRow(q), res[o]) => o \in seen[q]

LEMMA AllSighted == SeesEveryClash <=> \A q \in Proc : Sighted(q)
BY DEF SeesEveryClash, Sighted

\* A request that does nothing, in a step that creates no new live claim.
LEMMA SightedKept ==
  ASSUME TypeOK, Phases, NEW q \in Proc, Sighted(q), Reading,
         plan'[q] = plan[q], pc'[q] = pc[q], seen'[q] = seen[q],
         doomed[q] => doomed'[q], stale[q] => stale'[q], taint \subseteq taint',
         \A o \in Res : \/ res'[o] = res[o]
                        \/ res'[o].status = "removed" /\ (o = plan[q].res => stale'[q])
  PROVE  Sighted(q)'
<1> SUFFICES ASSUME MayClaim(q)', NEW o \in Res, o \notin taint',
                    (o # plan[q].res)', Blocking(res[o])', Clash(NewRow(q), res[o])'
             PROVE  (o \in seen[q])'
  BY DEF Sighted
<1>1. \/ plan[q].res = NoRes /\ plan[q].tables # Keep
      \/ plan[q].res \in Res /\ res'[plan[q].res] = res[plan[q].res]
  <2>1. Reclaims(plan[q])
    BY DEF MayClaim
  <2>2. plan[q].op # "none"
    BY <2>1, PlanShape DEF Reclaims, NoPlan
  <2>3. CASE Inserts(plan[q])
    <3>1. plan[q].table \in Table \cup {NoTable}
      BY <2>3, PlanShape DEF Inserts, Plan
    <3>2. QED
      BY <2>3, <3>1, AskedFacts DEF Inserts
  <2>4. CASE plan[q].res \in Res
    BY <2>4 DEF MayClaim
  <2>5. plan[q].op # "expire"
    BY PlanShape DEF MayClaim, Phases
  <2>6. QED
    BY <2>2, <2>3, <2>4, <2>5, PlanShape DEF Plan, Op, Updates, Assigns, Restates
<1>2. NewRow(q)' = NewRow(q) /\ MayClaim(q)
  BY <1>1, TargetKept
<1>3. res'[o] = res[o]
  BY DEF Blocking, BLOCKING_RESERVATION_STATUSES
<1>4. QED
  BY <1>2, <1>3 DEF Sighted, Blocking, Clash, Occupies

\* MayClaimAims in a form that also speaks of the next state.
ClaimsAim == TypeOK /\ Phases /\ Reading => \A p \in Proc : MayClaim(p) => Aims(p)

LEMMA ClaimsAlwaysAim == ClaimsAim
BY MayClaimAims DEF ClaimsAim, Reading

LEMMA NextClaimsAim == ClaimsAim'
BY ClaimsAlwaysAim, PTL

\* The snapshot contains every live reservation that clashes with the new row.
LEMMA SnapshotSighted ==
  ASSUME TypeOK, Phases, Reading, TypeOK', Phases', Reading',
         NEW p \in Proc, NEW m, TakesSnapshot(p, m)
  PROVE  Sighted(p)'
<1> SUFFICES ASSUME MayClaim(p)', NEW o \in Res,
                    (o # plan[p].res)', Blocking(res[o])', Clash(NewRow(p), res[o])'
             PROVE  (o \in seen[p])'
  BY DEF Sighted
<1>1. Aims(p)'
  BY NextClaimsAim DEF ClaimsAim
<1>2. plan'[p] = m /\ res' = res /\ seen'[p] = IF m.check THEN FindSlotConflicts(m) ELSE {}
  BY DEF TakesSnapshot, rows, TypeOK, ProcsOK
<1>3. m.check /\ res[o].slot = m.at /\ TableMatches(Range(m.req), Occupies(res[o]))
  BY <1>1, <1>2 DEF Aims, Clash, TableMatches, Occupies
<1>4. QED
  BY <1>2, <1>3 DEF FindSlotConflicts, ConflictingReservations, Blocking

LEMMA SeesStep ==
  ASSUME TypeOK, Phases, Reading, SeesEveryClash, TypeOK', Phases', Reading', [Next]_vars
  PROVE  SeesEveryClash'
<1>1. (\A q \in Proc : Sighted(q)') => SeesEveryClash'
  BY AllSighted DEF SeesEveryClash, Sighted
<1>2. ASSUME NEW p \in Proc, NEW m, TakesSnapshot(p, m)
      PROVE  \A q \in Proc : Sighted(q)'
  <2>1. ASSUME NEW q \in Proc, q # p
        PROVE  Sighted(q)'
    BY <1>2, <2>1, SightedKept, AllSighted DEF TakesSnapshot, rows, TypeOK, ProcsOK
  <2>2. QED
    BY <1>2, <2>1, SnapshotSighted
<1>3. ASSUME NEW p \in Proc, NEW m, ReadsOutside(p, m)
      PROVE  \A q \in Proc : Sighted(q)'
  <2>1. ASSUME NEW q \in Proc, q # p
        PROVE  Sighted(q)'
    BY <1>3, <2>1, SightedKept, AllSighted DEF ReadsOutside, rows, TypeOK, ProcsOK
  <2>2. Sighted(p)'
    BY <1>3 DEF Sighted, MayClaim, ReadsOutside, TypeOK, ProcsOK
  <2>3. QED
    BY <2>1, <2>2
<1>4. ASSUME NEW p \in Proc, CommitHold(p) \/ WriteExpired(p)
      PROVE  \A q \in Proc : Sighted(q)'
  <2>1. EndsWriting(p) /\ UNCHANGED <<res, taint>>
    BY <1>4 DEF CommitHold, WriteExpired
  <2>2. ASSUME NEW q \in Proc, q # p
        PROVE  Sighted(q)'
    BY <2>1, <2>2, EndsWritingOthers, SightedKept, AllSighted
  <2>3. Sighted(p)'
    BY <2>1 DEF Sighted, MayClaim, EndsWriting, TypeOK, ProcsOK
  <2>4. QED
    BY <2>2, <2>3
<1>5. ASSUME NEW p \in Proc, AcquireLock(p)
      PROVE  \A q \in Proc : Sighted(q)'
  BY <1>5, SightedKept, AllSighted DEF AcquireLock, rows
<1>6. ASSUME NEW p \in Proc, Fail(p)
      PROVE  \A q \in Proc : Sighted(q)'
  <2>1. ASSUME NEW q \in Proc, q # p
        PROVE  Sighted(q)'
    BY <1>6, <2>1, SightedKept, AllSighted DEF Fail, rows, TypeOK, ProcsOK
  <2>2. Sighted(p)'
    BY <1>6 DEF Sighted, MayClaim, Fail, TypeOK, ProcsOK
  <2>3. QED
    BY <2>1, <2>2
<1>7. ASSUME NEW r \in Res, Remove(r)
      PROVE  \A q \in Proc : Sighted(q)'
  <2>1. \A o \in Res : res'[o] = res[o] \/ (o = r /\ res'[o].status = "removed")
    BY <1>7 DEF Remove, TypeOK, RowsOK, Row
  <2>2. \A q \in Proc : /\ doomed[q] => doomed'[q]
                        /\ stale[q] => stale'[q]
                        /\ plan[q].res = r => stale'[q]
    BY <1>7 DEF Remove, Ages, WrittenRes
  <2>3. QED
    BY <1>7, <2>1, <2>2, SightedKept, AllSighted DEF Remove
<1>8. ASSUME NEW h \in Hold, Lapse(h)
      PROVE  \A q \in Proc : Sighted(q)'
  BY <1>8, SightedKept, AllSighted DEF Lapse, procs
<1>9. ASSUME ListHolds
      PROVE  \A q \in Proc : Sighted(q)'
  <2>1. /\ UNCHANGED <<res, taint, pc, plan, seen, stale>>
        /\ \A q \in Proc : doomed[q] => doomed'[q]
    BY <1>9 DEF ListHolds
  <2>2. QED
    BY <2>1, SightedKept, AllSighted
<1>10. ASSUME UNCHANGED vars
       PROVE  \A q \in Proc : Sighted(q)'
  <2>1. UNCHANGED <<res, taint, pc, plan, seen, doomed, stale>>
    BY <1>10 DEF vars, rows, procs
  <2>2. QED
    BY <2>1, SightedKept, AllSighted
<1>11. ASSUME NEW p \in Proc, CommitCreate(p) \/ CommitConvert(p)
       PROVE  SeesEveryClash'
  <2>1. PICK w \in Res : res[w].status = "none" /\ res' = [res EXCEPT ![w] = NewRow(p)]
    BY <1>11 DEF CommitCreate, CommitConvert, InsertsReservation
  <2>2. /\ EndsWriting(p) /\ taint' = taint /\ pc[p] = "tx"
        /\ plan[p].op \in {"create", "convert"}
    BY <1>11 DEF CommitCreate, CommitConvert, CanCommit
  <2>3. res'[w] = NewRow(p) /\ \A o \in Res \ {w} : res'[o] = res[o]
    BY <2>1 DEF TypeOK, RowsOK
  <2>4. QED
    BY <2>1, <2>2, <2>3, SeesWritten
<1>12. ASSUME NEW p \in Proc, CommitUpdate(p) \/ CommitAssign(p) \/ WriteStatus(p)
       PROVE  SeesEveryClash'
  <2> DEFINE w == plan[p].res
  <2>1. /\ WritesReservation(p) /\ plan[p].op \in {"update", "assign", "status"}
        /\ pc[p] = "tx" \/ plan[p].op = "status"
    BY <1>12 DEF CommitUpdate, CommitAssign, WriteStatus, CanCommit
  <2>2. w \in Res
    BY <2>1, PlanShape DEF Updates, Assigns, Restates
  <2>3. /\ EndsWriting(p) /\ res'[w] = NewRow(p) /\ \A o \in Res \ {w} : res'[o] = res[o]
        /\ taint \subseteq taint' /\ (w \notin taint' => ~stale[p] /\ ~MovesJoined(p))
    BY <2>1, <2>2 DEF WritesReservation, TypeOK, RowsOK
  <2>4. QED
    BY <2>1, <2>2, <2>3, SeesWritten
<1>13. ASSUME NEW p \in Proc, BeginCreate(p) \/ BeginConvert(p) \/ BeginHold(p) \/ BeginUpdate(p)
       PROVE  \A q \in Proc : Sighted(q)'
  BY <1>2, <1>13 DEF BeginCreate, BeginConvert, BeginHold, BeginUpdate
<1>14. ASSUME NEW p \in Proc, ReadForUpdate(p) \/ ReadForAssign(p) \/ ReadForStatus(p)
                              \/ ReadForCancel(p) \/ ReadForSweep(p)
       PROVE  \A q \in Proc : Sighted(q)'
  BY <1>3, <1>14 DEF ReadForUpdate, ReadForAssign, ReadForStatus, ReadForCancel, ReadForSweep
<1>15. ASSUME NEW p \in Proc, Request(p)
       PROVE  SeesEveryClash'
  BY <1>1, <1>4, <1>5, <1>6, <1>11, <1>12, <1>13, <1>14, <1>15 DEF Request
<1>16. QED
  BY <1>1, <1>7, <1>8, <1>9, <1>10, <1>15 DEF Next

\* SeesEveryClash: the advisory locks, the conflict query and Serializable isolation
\* leave no transaction that can commit a claim it has not checked.
THEOREM ClashesAreSeen == Spec => []SeesEveryClash
<1>1. Init => SeesEveryClash
  BY DEF Init, SeesEveryClash, MayClaim
<1>2. QED
  BY <1>1, Typing, RequestPhases, RequestsRead, SeesStep, PTL DEF Spec

-----------------------------------------------------------------------------
(* The exclusion theorem.                                                   *)

\* A claim that commits clashes with no live reservation.
LEMMA CommittedClaim ==
  ASSUME TypeOK, Phases, Reading, SeesEveryClash, NEW p \in Proc, CanCommit(p, plan[p].op),
         ~stale[p], Reclaims(plan[p]), ~MovesJoined(p), Claiming(NewRow(p)),
         NEW o \in Res \ taint, o # plan[p].res, Blocking(res[o])
  PROVE  ~Clash(NewRow(p), res[o])
<1>1. MayClaim(p)
  BY DEF MayClaim, CanCommit
<1>2. plan[p].check
  BY <1>1, MayClaimAims DEF Reading, Aims
<1>3. o \notin seen[p]
  BY <1>2 DEF CanCommit, SlotIsFree
<1>4. QED
  BY <1>1, <1>3 DEF SeesEveryClash

\* The row w is written, and it clashes with none of the others.
LEMMA OneRowWritten ==
  ASSUME DoubleBookingOnlyIfTainted, NEW w \in Res, taint \subseteq taint',
         \A o \in Res \ {w} : res'[o] = res[o],
         w \in taint' \/ \A o \in Res \ (taint \cup {w}) :
           Blocking(res'[w]) /\ Blocking(res[o]) => ~Clash(res'[w], res[o])
  PROVE  DoubleBookingOnlyIfTainted'
<1> SUFFICES ASSUME NEW r \in Res, NEW o \in Res, r # o, Blocking(res'[r]), Blocking(res'[o]),
                    Clash(res'[r], res'[o]), r \notin taint', o \notin taint'
             PROVE  FALSE
  BY DEF DoubleBookingOnlyIfTainted, Blocking, Clash, Occupies
<1>1. CASE r = w
  BY <1>1
<1>2. CASE o = w
  BY <1>2, ClashSymmetric
<1>3. CASE r # w /\ o # w
  BY <1>3 DEF DoubleBookingOnlyIfTainted
<1>4. QED
  BY <1>1, <1>2, <1>3

LEMMA ExclusionStep ==
  ASSUME TypeOK, Phases, Reading, SeesEveryClash, DoubleBookingOnlyIfTainted,
         [Next]_vars, taint \subseteq taint'
  PROVE  DoubleBookingOnlyIfTainted'
<1>1. CASE res' = res
  BY <1>1 DEF DoubleBookingOnlyIfTainted, Blocking, Clash, Occupies
<1>2. ASSUME NEW p \in Proc, plan[p].op \in {"create", "convert"}, CanCommit(p, plan[p].op),
             InsertsReservation(p)
      PROVE  DoubleBookingOnlyIfTainted'
  <2>1. PICK w \in Res : res' = [res EXCEPT ![w] = NewRow(p)]
    BY <1>2 DEF InsertsReservation
  <2>2. res'[w] = NewRow(p) /\ \A o \in Res \ {w} : res'[o] = res[o]
    BY <2>1 DEF TypeOK, RowsOK
  <2>3. plan[p].res \notin Res
    BY <1>2, PlanShape, ConstantsAssumption DEF Inserts
  <2>4. ~stale[p] /\ Reclaims(plan[p]) /\ ~MovesJoined(p)
    BY <1>2, InsertionClaims
  <2>5. \A o \in Res \ (taint \cup {w}) :
          Blocking(res'[w]) /\ Blocking(res[o]) => ~Clash(res'[w], res[o])
    BY <1>2, <2>2, <2>3, <2>4, CommittedClaim DEF Claiming
  <2>6. QED
    BY <2>2, <2>5, OneRowWritten
<1>3. ASSUME NEW p \in Proc, WritesReservation(p),
             \/ plan[p].op \in {"update", "assign"} /\ CanCommit(p, plan[p].op)
             \/ plan[p].op = "status"
      PROVE  DoubleBookingOnlyIfTainted'
  <2> DEFINE w == plan[p].res
  <2>1. w \in Res /\ (plan[p].op = "status" => ~Reclaims(plan[p]))
    BY <1>3, PlanShape DEF Updates, Assigns, Restates, Reclaims
  <2>2. /\ res'[w] = NewRow(p) /\ \A o \in Res \ {w} : res'[o] = res[o]
        /\ w \in taint' \/ (~stale[p] /\ ~MovesJoined(p))
    BY <1>3, <2>1 DEF WritesReservation, TypeOK, RowsOK
  <2>3. ASSUME w \notin taint', NEW o \in Res \ (taint \cup {w}), Blocking(NewRow(p)), Blocking(res[o])
        PROVE  ~Clash(NewRow(p), res[o])
    <3>1. CASE Reclaims(plan[p])
      BY <1>3, <2>1, <2>2, <2>3, <3>1, CommittedClaim DEF Claiming
    <3>2. CASE ~Reclaims(plan[p])
      <4>1. /\ NewRow(p).slot = res[w].slot /\ Occupies(NewRow(p)) = Occupies(res[w])
            /\ Blocking(res[w])
        BY <1>3, <2>2, <2>3, <3>2, SameClaim DEF Reading
      <4>2. ~Clash(res[w], res[o])
        BY <2>1, <2>3, <4>1 DEF DoubleBookingOnlyIfTainted
      <4>3. QED
        BY <4>1, <4>2 DEF Clash
    <3>3. QED
      BY <3>1, <3>2
  <2>4. QED
    BY <2>1, <2>2, <2>3, OneRowWritten
<1>4. ASSUME NEW r \in Res, Remove(r)
      PROVE  DoubleBookingOnlyIfTainted'
  <2>1. res'[r].status = "removed" /\ \A o \in Res \ {r} : res'[o] = res[o]
    BY <1>4 DEF Remove, TypeOK, RowsOK, Row
  <2>2. ~Blocking(res'[r])
    BY <2>1 DEF Blocking, BLOCKING_RESERVATION_STATUSES
  <2>3. QED
    BY <2>1, <2>2, OneRowWritten
<1>5. QED
  BY <1>1, <1>2, <1>3, <1>4, ReservationWrites

LEMMA TaintGrows == ASSUME [Next]_vars PROVE taint \subseteq taint'
<1>1. ASSUME NEW p \in Proc, BeginCreate(p) \/ BeginConvert(p) \/ BeginHold(p) \/ BeginUpdate(p)
      PROVE  taint' = taint
  BY <1>1 DEF BeginCreate, BeginConvert, BeginHold, BeginUpdate, TakesSnapshot, rows
<1>2. ASSUME NEW p \in Proc, ReadForUpdate(p) \/ ReadForAssign(p) \/ ReadForStatus(p)
                             \/ ReadForCancel(p) \/ ReadForSweep(p)
      PROVE  taint' = taint
  BY <1>2 DEF ReadForUpdate, ReadForAssign, ReadForStatus, ReadForCancel, ReadForSweep,
              ReadsOutside, rows
<1>3. ASSUME NEW p \in Proc, CommitCreate(p) \/ CommitConvert(p) \/ CommitHold(p)
                             \/ WriteExpired(p) \/ AcquireLock(p) \/ Fail(p)
      PROVE  taint' = taint
  BY <1>3 DEF CommitCreate, CommitConvert, CommitHold, WriteExpired, AcquireLock, Fail, rows
<1>4. ASSUME NEW p \in Proc, CommitUpdate(p) \/ CommitAssign(p) \/ WriteStatus(p)
      PROVE  taint \subseteq taint'
  BY <1>4 DEF CommitUpdate, CommitAssign, WriteStatus, WritesReservation
<1>5. CASE ListHolds \/ (\E r \in Res : Remove(r)) \/ (\E h \in Hold : Lapse(h)) \/ UNCHANGED vars
  BY <1>5 DEF ListHolds, Remove, Lapse, vars, rows
<1>6. QED
  BY <1>1, <1>2, <1>3, <1>4, <1>5 DEF Next, Request

\* DoubleBookingOnlyIfTainted: two live reservations of a slot share a table only if
\* one of them was written by a request that worked on stale data, or was moved while
\* joined; every other interleaving of creates, conversions, updates, assignments,
\* status changes, deletions and sweeps keeps them apart.
THEOREM Exclusion == Spec => []DoubleBookingOnlyIfTainted
<1>1. Init => DoubleBookingOnlyIfTainted
  BY DEF Init, DoubleBookingOnlyIfTainted, NoRow, Blocking, BLOCKING_RESERVATION_STATUSES
<1>2. QED
  BY <1>1, Typing, RequestPhases, RequestsRead, ClashesAreSeen, ExclusionStep, TaintGrows, PTL DEF Spec

=============================================================================
