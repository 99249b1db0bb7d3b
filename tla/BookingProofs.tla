---------------------------- MODULE BookingProofs ----------------------------
(* Theorems about Booking, for every value of its constants. *)
EXTENDS Booking, SequenceTheorems, TLAPS

-----------------------------------------------------------------------------
(* Facts about the constants and the operators on plans and rows.           *)

\* assignTables' table lists are not empty, and what they name are tables.
LEMMA SeatingFacts ==
  ASSUME NEW q \in Seatings
  PROVE  /\ q \in Seq(Table) /\ 1 \in DOMAIN q
         /\ q[1] \in Table /\ q[1] \in Range(q) /\ Range(q) \subseteq Table
         /\ NoTable \notin Range(q)
<1>1. q \in Seq(Table) /\ q # <<>>
  BY SeatingsAssumption
<1>2. Len(q) \in Nat \ {0} /\ DOMAIN q = 1..Len(q) /\ q \in [1..Len(q) -> Table]
  BY <1>1, EmptySeq, LenProperties
<1>3. QED
  BY <1>1, <1>2, ConstantsAssumption DEF Range

\* The tables of a request for at most one table.
LEMMA AskedFacts ==
  ASSUME NEW t \in Table \cup {NoTable}
  PROVE  /\ Asked(t) \in Seq(Table) /\ Range(Asked(t)) = Just(t)
         /\ Just(t) \in SUBSET Table /\ Just(t) # Keep
<1>1. NoTable \notin Table /\ \A S \in SUBSET Table : Keep # S
  BY ConstantsAssumption
<1>2. CASE t = NoTable
  <2>1. Asked(t) = <<>> /\ Just(t) = {}
    BY <1>2 DEF Asked, Just
  <2>2. Range(<<>>) = {}
    BY DEF Range
  <2>3. QED
    BY <1>1, <2>1, <2>2
<1>3. CASE t \in Table
  <2>1. Asked(t) = <<t>> /\ Just(t) = {t}
    BY <1>1, <1>3 DEF Asked, Just
  <2>2. Range(<<t>>) = {t}
    BY DEF Range
  <2>3. QED
    BY <1>1, <1>3, <2>1, <2>2
<1>4. QED
  BY <1>2, <1>3

\* The operation of a request tells the shape of its plan.
LEMMA PlanShape ==
  ASSUME TypeOK, NEW p \in Proc
  PROVE  LET m == plan[p] IN
         /\ m \in Plan
         /\ m.op \in {"create", "convert", "hold"} => Inserts(m)
         /\ m.op = "update" => Updates(m)
         /\ m.op = "assign" => Assigns(m)
         /\ m.op = "status" => Restates(m)
         /\ m.op = "expire" => Expires(m)
         /\ m.op = "none" => m = NoPlan
<1> DEFINE m == plan[p]
<1>1. m \in Plan
  BY DEF TypeOK, ProcsOK
<1>2. m = NoPlan \/ Inserts(m) \/ Updates(m) \/ Assigns(m) \/ Restates(m) \/ Expires(m)
  BY <1>1 DEF Plan
<1>3. /\ m = NoPlan => m.op = "none"
      /\ Inserts(m) => m.op \in {"create", "convert", "hold"}
      /\ Updates(m) => m.op = "update"
      /\ Assigns(m) => m.op = "assign"
      /\ Restates(m) => m.op = "status"
      /\ Expires(m) => m.op = "expire"
  BY DEF NoPlan, Inserts, Updates, Assigns, Restates, Expires
<1>4. QED
  BY <1>1, <1>2, <1>3

\* What a request inserts, and what it makes of the row it updates.
LEMMA NewRowType ==
  ASSUME TypeOK, NEW p \in Proc, pc[p] # "idle", plan[p].op \notin {"hold", "none"},
         \/ plan[p].res = NoRes /\ plan[p].op \in {"create", "convert"}
         \/ plan[p].res \in Res
  PROVE  NewRow(p) \in Row
<1> DEFINE m == plan[p]
           old == IF m.res = NoRes THEN NoRow ELSE res[m.res]
<1>1. m \in Plan
  BY DEF TypeOK, ProcsOK
<1>2. old \in Row
  BY ConstantsAssumption DEF TypeOK, RowsOK, NoRow, Row, ResStatus, Status
<1>3. Chosen(m.status, old.status) \in ResStatus
  BY <1>1, <1>2, ConstantsAssumption
     DEF Plan, Inserts, Updates, Assigns, Restates, Expires, NoPlan, Row, ResStatus, Chosen
<1>4. Chosen(m.slot, old.slot) \in Slot \cup {NoSlot}
  BY <1>1, <1>2 DEF Plan, Row, Chosen
<1>5. /\ Chosen(m.table, old.table) \in Table \cup {NoTable}
      /\ Chosen(m.tables, old.tables) \in SUBSET Table
  BY <1>1, <1>2 DEF Plan, Row, Chosen
<1>6. /\ Chosen(m.table, old.table) # NoTable
            => Chosen(m.table, old.table) \in Chosen(m.tables, old.tables)
      /\ Chosen(m.table, old.table) = NoTable => Chosen(m.tables, old.tables) = {}
  <2>1. CASE m.table = Keep /\ m.tables = Keep
    BY <1>2, <2>1 DEF Row, Chosen
  <2>2. CASE m.table # Keep /\ m.tables = Just(m.table)
    <3>1. m.table \in Table \cup {NoTable}
      BY <1>1, <2>2 DEF Plan
    <3>2. QED
      BY <2>2, <3>1, AskedFacts DEF Chosen, Just
  <2>3. CASE Assigns(m)
    <3>1. m.table \in Table /\ m.table \in m.tables /\ m.tables \subseteq Table
      BY <2>3, SeatingFacts DEF Assigns
    <3>2. QED
      BY <3>1, ConstantsAssumption DEF Chosen
  <2>4. QED
    BY <1>1, <2>1, <2>2, <2>3, ConstantsAssumption
       DEF Plan, Inserts, Updates, Restates, Expires, NoPlan, NextTables
<1>7. (IF m.hold = NoHold THEN old.from ELSE m.hold) \in Hold \cup {NoHold}
  BY <1>1, <1>2 DEF Plan, Row
<1>8. QED
  BY <1>3, <1>4, <1>5, <1>6, <1>7 DEF NewRow, Row

-----------------------------------------------------------------------------
(* Every variable keeps its type.                                           *)

LEMMA NoPlanType == NoPlan \in Plan
BY EmptySeq DEF NoPlan, Plan, Op

\* A request that is over leaves no trace in the variables of the requests.
LEMMA EndsWritingType ==
  ASSUME TypeOK, NEW p \in Proc, EndsWriting(p)
  PROVE  ProcsOK'
BY NoPlanType DEF TypeOK, ProcsOK, EndsWriting

LEMMA TakesSnapshotType ==
  ASSUME TypeOK, NEW p \in Proc, NEW m \in Plan, TakesSnapshot(p, m)
  PROVE  TypeOK'
<1>1. FindSlotConflicts(m) \subseteq Res \cup Hold
  BY DEF FindSlotConflicts, ConflictingReservations, ConflictingHolds
<1>2. QED
  BY <1>1 DEF TypeOK, RowsOK, ProcsOK, TakesSnapshot, rows

LEMMA ReadsOutsideType ==
  ASSUME TypeOK, NEW p \in Proc, NEW m \in Plan, ReadsOutside(p, m)
  PROVE  TypeOK'
BY DEF TypeOK, RowsOK, ProcsOK, ReadsOutside, rows

\* The plans of the requests that insert a row.
LEMMA InsertionType ==
  ASSUME NEW s \in Slot \cup {NoSlot}, NEW t \in Table \cup {NoTable}
  PROVE  /\ \A st \in Status : Insertion("create", s, t, st) \in Plan
         /\ \A o \in Outlasts : Holding(s, t, o) \in Plan
         /\ \A st \in Status, h \in Hold :
              [Insertion("convert", s, t, st) EXCEPT !.hold = h] \in Plan
<1>1. /\ s # Keep /\ t # Keep /\ Outlasts \subseteq BOOLEAN
      /\ Asked(t) \in Seq(Table) /\ Just(t) \in SUBSET Table
  BY AskedFacts, ConstantsAssumption
<1>2. ASSUME NEW st \in Status
      PROVE  Insertion("create", s, t, st) \in Plan
  BY <1>1 DEF Insertion, NoPlan, Plan, Op, Inserts
<1>3. ASSUME NEW o \in Outlasts
      PROVE  Holding(s, t, o) \in Plan
  BY <1>1 DEF Holding, Insertion, NoPlan, Plan, Op, Inserts
<1>4. ASSUME NEW st \in Status, NEW h \in Hold
      PROVE  [Insertion("convert", s, t, st) EXCEPT !.hold = h] \in Plan
  BY <1>1 DEF Insertion, NoPlan, Plan, Op, Inserts
<1>5. QED
  BY <1>2, <1>3, <1>4

LEMMA BeginConvertType ==
  ASSUME TypeOK, NEW p \in Proc, BeginConvert(p)
  PROVE  TypeOK'
<1>1. PICK h \in Hold, override \in Table \cup {NoTable}, st \in Asks :
        LET t == IF override = NoTable THEN hold[h].table ELSE override
        IN  t # NoTable /\ TakesSnapshot(p, Conversion(h, t, st))
  BY DEF BeginConvert
<1> DEFINE t == IF override = NoTable THEN hold[h].table ELSE override
<1>2. t \in Table /\ hold[h].slot \in Slot \cup {NoSlot} /\ st \in Status
  BY <1>1, ConstantsAssumption DEF TypeOK, RowsOK, HoldRow
<1>3. Conversion(h, t, st) \in Plan
  BY <1>2, InsertionType DEF Conversion
<1>4. QED
  BY <1>1, <1>3, TakesSnapshotType

\* The plan that update derives from a request and the row it read.
UpdatePlan(r, dto, c, at, req) ==
  [op |-> "update", res |-> r, hold |-> NoHold, expiring |-> {}, check |-> c,
   at |-> at, req |-> req, status |-> dto.status, slot |-> dto.slot, table |-> dto.table,
   tables |-> NextTables(dto.table), outlasts |-> FALSE]

LEMMA EditsType ==
  ASSUME NEW dto \in Edits
  PROVE  /\ dto.slot \in Slot \cup {Keep} /\ dto.table \in Table \cup {NoTable, Keep}
         /\ dto.status \in Status \cup {Keep} /\ dto.duration \in BOOLEAN
BY ConstantsAssumption

LEMMA UpdatePlanType ==
  ASSUME NEW r \in Res, NEW dto \in Edits, NEW c \in BOOLEAN,
         NEW at \in Slot \cup {NoSlot}, NEW req \in Seq(Table),
         dto.slot # Keep \/ dto.table # Keep => c
  PROVE  UpdatePlan(r, dto, c, at, req) \in Plan
<1>1. dto.status # "HELD"
  BY EditsType, ConstantsAssumption DEF Status
<1>2. NextTables(dto.table) \in {Keep} \cup SUBSET Table
  BY EditsType, AskedFacts DEF NextTables
<1>3. QED
  BY <1>1, <1>2, EditsType DEF UpdatePlan, Plan, Op, Updates, Reclaims

LEMMA ReadForUpdateType ==
  ASSUME TypeOK, NEW p \in Proc, ReadForUpdate(p)
  PROVE  TypeOK'
<1>1. PICK r \in Res, dto \in Edits : ReadsOutside(p, Change(r, dto))
  BY DEF ReadForUpdate
<1>2. /\ Chosen(dto.table, res[r].table) \in Table \cup {NoTable}
      /\ Chosen(dto.slot, res[r].slot) \in Slot \cup {NoSlot}
  BY EditsType DEF Chosen, TypeOK, RowsOK, Row
<1>3. PICK at \in Slot \cup {NoSlot} : at = Chosen(dto.slot, res[r].slot)
  BY <1>2
<1>4. PICK req \in Seq(Table) : req = Asked(Chosen(dto.table, res[r].table))
  BY <1>2, AskedFacts
<1>5. PICK c \in BOOLEAN : c = NeedsConflictCheck(dto)
  BY EditsType DEF NeedsConflictCheck
<1>6. dto.slot # Keep \/ dto.table # Keep => c
  BY <1>5 DEF NeedsConflictCheck
<1>7. Change(r, dto) = UpdatePlan(r, dto, c, at, req)
  BY <1>3, <1>4, <1>5 DEF Change, UpdatePlan
<1>8. UpdatePlan(r, dto, c, at, req) \in Plan
  BY <1>6, UpdatePlanType
<1>9. QED
  BY <1>1, <1>7, <1>8, ReadsOutsideType

LEMMA ReadForAssignType ==
  ASSUME TypeOK, NEW p \in Proc, ReadForAssign(p)
  PROVE  TypeOK'
<1>1. PICK r \in Res, q \in Seatings : ReadsOutside(p, Assignment(r, q))
  BY DEF ReadForAssign
<1>2. res[r].slot \in Slot \cup {NoSlot}
  BY DEF TypeOK, RowsOK, Row
<1>3. Assignment(r, q) \in Plan
  BY <1>2, SeatingFacts DEF Assignment, NoPlan, Plan, Op, Assigns
<1>4. QED
  BY <1>1, <1>3, ReadsOutsideType

LEMMA ReadForStatusType ==
  ASSUME TypeOK, NEW p \in Proc, ReadForStatus(p)
  PROVE  TypeOK'
<1>1. PICK r \in Res, st \in Asks : ReadsOutside(p, Restatus(r, st))
  BY DEF ReadForStatus
<1>2. Restatus(r, st) \in Plan
  BY EmptySeq, ConstantsAssumption DEF Restatus, NoPlan, Plan, Op, Restates
<1>3. QED
  BY <1>1, <1>2, ReadsOutsideType

\* The plan of a request that expires holds it has read.
LEMMA ReadForExpiryType ==
  ASSUME TypeOK, NEW p \in Proc, ReadForCancel(p) \/ ReadForSweep(p)
  PROVE  TypeOK'
<1>1. PICK batch \in SUBSET Hold : ReadsOutside(p, Expiry(batch))
  <2>1. CASE ReadForCancel(p)
    BY <2>1 DEF ReadForCancel
  <2>2. CASE ReadForSweep(p)
    BY <2>2 DEF ReadForSweep
  <2>3. QED
    BY <2>1, <2>2
<1>2. Expiry(batch) \in Plan
  BY EmptySeq DEF Expiry, NoPlan, Plan, Op, Expires
<1>3. QED
  BY <1>1, <1>2, ReadsOutsideType

\* A commit that inserts a reservation.
LEMMA InsertsReservationType ==
  ASSUME TypeOK, NEW p \in Proc, pc[p] = "tx", plan[p].op \in {"create", "convert"},
         InsertsReservation(p)
  PROVE  res' \in [Res -> Row]
<1>1. plan[p].res = NoRes
  BY PlanShape DEF Inserts
<1>2. NewRow(p) \in Row
  BY <1>1, NewRowType
<1>3. QED
  BY <1>2 DEF InsertsReservation, TypeOK, RowsOK

\* A commit, or a status write, on an existing reservation.
LEMMA WritesReservationType ==
  ASSUME TypeOK, NEW p \in Proc, pc[p] # "idle",
         plan[p].op \in {"update", "assign", "status"}, WritesReservation(p)
  PROVE  TypeOK'
<1>1. plan[p].res \in Res
  BY PlanShape DEF Updates, Assigns, Restates
<1>2. NewRow(p) \in Row
  BY <1>1, NewRowType
<1>3. RowsOK'
  BY <1>1, <1>2 DEF WritesReservation, TypeOK, RowsOK
<1>4. ProcsOK'
  BY EndsWritingType DEF WritesReservation
<1>5. QED
  BY <1>3, <1>4 DEF TypeOK

LEMMA TypeStep ==
  ASSUME TypeOK, [Next]_vars
  PROVE  TypeOK'
<1>1. ASSUME NEW p \in Proc, BeginCreate(p)
      PROVE  TypeOK'
  BY <1>1, ConstantsAssumption, InsertionType, TakesSnapshotType DEF BeginCreate
<1>2. ASSUME NEW p \in Proc, BeginHold(p)
      PROVE  TypeOK'
  BY <1>2, InsertionType, TakesSnapshotType DEF BeginHold
<1>3. ASSUME NEW p \in Proc, CommitCreate(p)
      PROVE  TypeOK'
  BY <1>3, InsertsReservationType, EndsWritingType DEF CommitCreate, CanCommit, TypeOK, RowsOK
<1>4. ASSUME NEW p \in Proc, CommitConvert(p)
      PROVE  TypeOK'
  <2>1. hold' \in [Hold -> HoldRow]
    BY <1>4 DEF CommitConvert, TypeOK, RowsOK, HoldRow
  <2>2. QED
    BY <1>4, <2>1, InsertsReservationType, EndsWritingType
       DEF CommitConvert, CanCommit, TypeOK, RowsOK
<1>5. ASSUME NEW p \in Proc, CommitHold(p)
      PROVE  TypeOK'
  <2>1. plan[p] \in Plan /\ Inserts(plan[p])
    BY <1>5, PlanShape DEF CommitHold, CanCommit
  <2>2. /\ plan[p].slot \in Slot \cup {NoSlot} /\ plan[p].table \in Table \cup {NoTable}
        /\ plan[p].outlasts \in BOOLEAN
    BY <2>1 DEF Plan, Inserts
  <2>3. hold' \in [Hold -> HoldRow]
    BY <1>5, <2>2 DEF CommitHold, TypeOK, RowsOK, HoldRow
  <2>4. QED
    BY <1>5, <2>3, EndsWritingType DEF CommitHold, TypeOK, RowsOK
<1>6. ASSUME NEW p \in Proc, BeginUpdate(p)
      PROVE  TypeOK'
  BY <1>6, TakesSnapshotType DEF BeginUpdate, TypeOK, ProcsOK
<1>7. ASSUME NEW p \in Proc, CommitUpdate(p) \/ CommitAssign(p) \/ WriteStatus(p)
      PROVE  TypeOK'
  BY <1>7, WritesReservationType DEF CommitUpdate, CommitAssign, WriteStatus, CanCommit
<1>8. ASSUME NEW p \in Proc, WriteExpired(p)
      PROVE  TypeOK'
  <2>1. hold' \in [Hold -> HoldRow]
    BY <1>8 DEF WriteExpired, TypeOK, RowsOK, HoldRow
  <2>2. QED
    BY <1>8, <2>1, EndsWritingType DEF WriteExpired, TypeOK, RowsOK
<1>9. ASSUME NEW p \in Proc, AcquireLock(p)
      PROVE  TypeOK'
  BY <1>9 DEF AcquireLock, rows, TypeOK, RowsOK, ProcsOK
<1>10. ASSUME NEW p \in Proc, Fail(p)
       PROVE  TypeOK'
  BY <1>10, NoPlanType DEF Fail, rows, TypeOK, RowsOK, ProcsOK
<1>11. ASSUME NEW r \in Res, Remove(r)
       PROVE  TypeOK'
  <2>1. res' \in [Res -> Row]
    BY <1>11 DEF Remove, TypeOK, RowsOK, Row, ResStatus
  <2>2. QED
    BY <1>11, <2>1 DEF Remove, Ages, TypeOK, RowsOK, ProcsOK
<1>12. ASSUME NEW h \in Hold, Lapse(h)
       PROVE  TypeOK'
  BY <1>12 DEF Lapse, procs, TypeOK, RowsOK, ProcsOK, HoldRow
<1>13. CASE ListHolds
  <2>1. hold' \in [Hold -> HoldRow]
    BY <1>13 DEF ListHolds, TypeOK, RowsOK, HoldRow
  <2>2. QED
    BY <1>13, <2>1 DEF ListHolds, TypeOK, RowsOK, ProcsOK
<1>14. CASE UNCHANGED vars
  BY <1>14 DEF vars, rows, procs, TypeOK, RowsOK, ProcsOK
<1>15. QED
  BY <1>1, <1>2, <1>3, <1>4, <1>5, <1>6, <1>7, <1>8, <1>9, <1>10, <1>11, <1>12, <1>13, <1>14,
     BeginConvertType, ReadForUpdateType, ReadForAssignType, ReadForStatusType, ReadForExpiryType
     DEF Next, Request

\* TypeOK: reservations, holds, assignments and requests keep their types, and the
\* first table of a reservation stays one of its assignments, in every behaviour.
THEOREM Typing == Spec => []TypeOK
<1>1. Init => TypeOK
  <2>1. NoRow \in Row /\ NoHoldRow \in HoldRow
    BY DEF NoRow, Row, ResStatus, NoHoldRow, HoldRow
  <2>2. QED
    BY <2>1, NoPlanType DEF Init, TypeOK, RowsOK, ProcsOK
<1>2. QED
  BY <1>1, TypeStep, PTL DEF Spec

-----------------------------------------------------------------------------
(* Where a request is, given what it plans.                                 *)

Phases ==
  \A p \in Proc :
    /\ plan[p].op \in {"create", "convert", "hold"} => pc[p] = "tx" /\ ~stale[p]
    /\ plan[p].op \in {"status", "expire"} => pc[p] = "read"
    /\ pc[p] = "idle" => plan[p] = NoPlan /\ ~doomed[p] /\ ~stale[p]

LEMMA TakesSnapshotPhases ==
  ASSUME TypeOK, Phases, NEW p \in Proc, NEW m, TakesSnapshot(p, m),
         m.op \notin {"status", "expire"},
         m.op \in {"create", "convert", "hold"} => ~stale[p]
  PROVE  Phases'
BY DEF TypeOK, ProcsOK, Phases, TakesSnapshot

LEMMA ReadsOutsidePhases ==
  ASSUME TypeOK, Phases, NEW p \in Proc, NEW m, ReadsOutside(p, m),
         m.op \notin {"create", "convert", "hold"}
  PROVE  Phases'
BY DEF TypeOK, ProcsOK, Phases, ReadsOutside

LEMMA EndsWritingPhases ==
  ASSUME TypeOK, Phases, NEW p \in Proc, EndsWriting(p)
  PROVE  Phases'
<1>1. ASSUME NEW q \in Proc, plan[q].op \in {"create", "convert", "hold"}
      PROVE  WrittenRes(q) = {}
  BY <1>1, PlanShape, ConstantsAssumption DEF Inserts, WrittenRes
<1>2. ASSUME NEW q \in Proc, pc[q] = "idle"
      PROVE  WrittenRes(q) = {}
  BY <1>2, ConstantsAssumption DEF Phases, NoPlan, WrittenRes
<1>3. NoPlan.op = "none"
  BY DEF NoPlan
<1>4. QED
  BY <1>1, <1>2, <1>3 DEF TypeOK, ProcsOK, Phases, EndsWriting

LEMMA PlanOps ==
  /\ \A s, t, st : Insertion("create", s, t, st).op = "create"
  /\ \A h, t, st : Conversion(h, t, st).op = "convert"
  /\ \A s, t, o : Holding(s, t, o).op = "hold"
  /\ \A r, dto : Change(r, dto).op = "update"
  /\ \A r, q : Assignment(r, q).op = "assign"
  /\ \A r, st : Restatus(r, st).op = "status"
  /\ \A hs : Expiry(hs).op = "expire"
BY DEF Insertion, Conversion, Holding, Change, Assignment, Restatus, Expiry, NoPlan

LEMMA PhasesStep ==
  ASSUME TypeOK, Phases, [Next]_vars
  PROVE  Phases'
<1>1. ASSUME NEW p \in Proc, BeginCreate(p) \/ BeginConvert(p) \/ BeginHold(p)
      PROVE  Phases'
  <2>1. \E m : TakesSnapshot(p, m) /\ m.op \in {"create", "convert", "hold"}
    <3>1. CASE BeginCreate(p)
      BY <3>1, PlanOps DEF BeginCreate
    <3>2. CASE BeginConvert(p)
      BY <3>2, PlanOps DEF BeginConvert
    <3>3. CASE BeginHold(p)
      BY <3>3, PlanOps DEF BeginHold
    <3>4. QED
      BY <1>1, <3>1, <3>2, <3>3
  <2>2. ~stale[p]
    BY <1>1 DEF BeginCreate, BeginConvert, BeginHold, Phases
  <2>3. QED
    BY <2>1, <2>2, TakesSnapshotPhases
<1>2. ASSUME NEW p \in Proc, BeginUpdate(p)
      PROVE  Phases'
  BY <1>2, TakesSnapshotPhases DEF BeginUpdate
<1>3. ASSUME NEW p \in Proc, ReadForUpdate(p) \/ ReadForAssign(p) \/ ReadForStatus(p)
                             \/ ReadForCancel(p) \/ ReadForSweep(p)
      PROVE  Phases'
  <2>1. \E m : ReadsOutside(p, m) /\ m.op \in {"update", "assign", "status", "expire"}
    <3>1. CASE ReadForUpdate(p)
      BY <3>1, PlanOps DEF ReadForUpdate
    <3>2. CASE ReadForAssign(p)
      BY <3>2, PlanOps DEF ReadForAssign
    <3>3. CASE ReadForStatus(p)
      BY <3>3, PlanOps DEF ReadForStatus
    <3>4. CASE ReadForCancel(p) \/ ReadForSweep(p)
      BY <3>4, PlanOps DEF ReadForCancel, ReadForSweep
    <3>5. QED
      BY <1>3, <3>1, <3>2, <3>3, <3>4
  <2>2. QED
    BY <2>1, ReadsOutsidePhases
<1>4. ASSUME NEW p \in Proc, EndsWriting(p)
      PROVE  Phases'
  BY <1>4, EndsWritingPhases
<1>5. ASSUME NEW p \in Proc, AcquireLock(p)
      PROVE  Phases'
  BY <1>5 DEF AcquireLock, Phases
<1>6. ASSUME NEW p \in Proc, Fail(p)
      PROVE  Phases'
  BY <1>6 DEF Fail, TypeOK, ProcsOK, Phases, NoPlan
<1>7. ASSUME NEW r \in Res, Remove(r)
      PROVE  Phases'
  <2>1. ASSUME NEW q \in Proc, plan[q].op \in {"create", "convert", "hold"} \/ pc[q] = "idle"
        PROVE  WrittenRes(q) = {} /\ pc[q] # "read"
    BY <2>1, PlanShape, ConstantsAssumption DEF Inserts, WrittenRes, Phases, NoPlan
  <2>2. QED
    BY <1>7, <2>1 DEF Remove, Ages, TypeOK, ProcsOK, Phases
<1>8. ASSUME NEW h \in Hold, Lapse(h)
      PROVE  Phases'
  BY <1>8 DEF Lapse, procs, Phases
<1>9. CASE ListHolds
  BY <1>9 DEF ListHolds, TypeOK, ProcsOK, Phases
<1>10. CASE UNCHANGED vars
  BY <1>10 DEF vars, procs, Phases
<1>11. QED
  BY <1>1, <1>2, <1>3, <1>4, <1>5, <1>6, <1>7, <1>8, <1>9, <1>10
     DEF Next, Request, CommitCreate, CommitConvert, CommitHold, CommitUpdate, CommitAssign,
         WriteStatus, WritesReservation, WriteExpired

\* Phases: inserting requests are in their transaction from the start and are never
\* stale, status changes and expiries of holds have no transaction, and a request that
\* is over (committed, refused or crashed) leaves nothing behind for the next one.
THEOREM RequestPhases == Spec => []Phases
<1>1. Init => Phases
  BY DEF Init, Phases, NoPlan
<1>2. QED
  BY <1>1, Typing, PhasesStep, PTL DEF Spec

-----------------------------------------------------------------------------
(* A hold turns into at most one reservation.                               *)

\* A converted hold stays converted, no two reservations come from one hold, and
\* the hold of a conversion that may still commit is HELD: whoever ends the hold
\* first makes Postgres refuse the conversion.
Conversions ==
  /\ \A r \in Res : res[r].from # NoHold =>
       hold[res[r].from].status \in {"CONSUMED", "EXPIRED"}
  /\ \A r, o \in Res : r # o /\ res[r].from # NoHold => res[o].from # res[r].from
  /\ \A p \in Proc : plan[p].op = "convert" /\ ~doomed[p] => Held(plan[p].hold)

LEMMA NewRowFrom ==
  ASSUME TypeOK, NEW p \in Proc
  PROVE  /\ plan[p].op = "create" => NewRow(p).from = NoHold
         /\ plan[p].op = "convert" => NewRow(p).from = plan[p].hold
         /\ plan[p].op \in {"update", "assign", "status"} =>
              NewRow(p).from = res[plan[p].res].from
<1>1. CASE plan[p].op \in {"create", "convert"}
  <2>1. Inserts(plan[p])
    BY <1>1, PlanShape
  <2>2. QED
    BY <1>1, <2>1, ConstantsAssumption DEF Inserts, NewRow, NoRow
<1>2. CASE plan[p].op \in {"update", "assign", "status"}
  <2>1. plan[p].hold = NoHold /\ plan[p].res \in Res
    BY <1>2, PlanShape DEF Updates, Assigns, Restates
  <2>2. QED
    BY <1>2, <2>1, ConstantsAssumption DEF NewRow
<1>3. QED
  BY <1>1, <1>2

\* The steps that leave all rows as they are.
LEMMA UnchangedRowsConversions ==
  ASSUME TypeOK, Conversions, UNCHANGED rows,
         \A q \in Proc : plan'[q].op = "convert" /\ ~doomed'[q] =>
           \/ Held(plan'[q].hold)
           \/ plan'[q] = plan[q] /\ ~doomed[q]
  PROVE  Conversions'
BY DEF Conversions, rows, Held

\* What becomes of the other conversions when p writes.
LEMMA EndsWritingConversions ==
  ASSUME TypeOK, Phases, NEW p \in Proc, EndsWriting(p), NEW q \in Proc,
         plan'[q].op = "convert", ~doomed'[q]
  PROVE  /\ q # p /\ plan'[q] = plan[q] /\ ~doomed[q]
         /\ plan[q].hold \in Hold /\ plan[q].hold \notin WrittenHolds(p)
<1>1. q # p /\ plan'[q] = plan[q]
  BY DEF EndsWriting, TypeOK, ProcsOK, NoPlan
<1>2. pc[q] = "tx" /\ plan[q].hold \in Hold
  BY <1>1, PlanShape DEF Phases, Inserts
<1>3. plan[q].hold \in WrittenHolds(q)
  BY <1>2 DEF WrittenHolds
<1>4. QED
  BY <1>1, <1>2, <1>3 DEF EndsWriting

LEMMA ConversionsStep ==
  ASSUME TypeOK, Phases, Conversions, [Next]_vars
  PROVE  Conversions'
<1>1. ASSUME NEW p \in Proc, NEW m, TakesSnapshot(p, m),
             m.op = "convert" => Held(m.hold) \/ m = plan[p]
      PROVE  Conversions'
  BY <1>1, UnchangedRowsConversions DEF TakesSnapshot, TypeOK, ProcsOK
<1>2. ASSUME NEW p \in Proc, NEW m, ReadsOutside(p, m), m.op # "convert"
      PROVE  Conversions'
  BY <1>2, UnchangedRowsConversions DEF ReadsOutside, TypeOK, ProcsOK
<1>3. ASSUME NEW p \in Proc, CommitCreate(p)
      PROVE  Conversions'
  <2>1. PICK r \in Res : res[r].status = "none" /\ res' = [res EXCEPT ![r] = NewRow(p)]
    BY <1>3 DEF CommitCreate, InsertsReservation
  <2>2. \A o \in Res : res'[o].from = NoHold \/ res'[o].from = res[o].from
    BY <1>3, <2>1, NewRowFrom DEF CommitCreate, CanCommit, TypeOK, RowsOK
  <2>3. \A q \in Proc : plan'[q].op = "convert" /\ ~doomed'[q] => Held(plan'[q].hold)
    BY <1>3, EndsWritingConversions DEF CommitCreate, Conversions
  <2>4. QED
    BY <1>3, <2>2, <2>3 DEF CommitCreate, Conversions, Held
<1>4. ASSUME NEW p \in Proc, CommitConvert(p)
      PROVE  Conversions'
  <2> DEFINE h == plan[p].hold
  <2>1. h \in Hold /\ Held(h) /\ NewRow(p).from = h
    BY <1>4, NewRowFrom, PlanShape DEF CommitConvert, CanCommit, Conversions, Inserts
  <2>2. \A r \in Res : res[r].from # h
    BY <2>1, ConstantsAssumption DEF Conversions, Held
  <2>3. PICK r \in Res : res' = [res EXCEPT ![r] = NewRow(p)]
    BY <1>4 DEF CommitConvert, InsertsReservation
  <2>4. \A g \in Hold : hold'[g].status = IF g = h THEN "CONSUMED" ELSE hold[g].status
    BY <1>4, <2>1 DEF CommitConvert, TypeOK, RowsOK, HoldRow
  <2>5. \A o \in Res : res'[o].from = IF o = r THEN h ELSE res[o].from
    BY <2>1, <2>3 DEF TypeOK, RowsOK
  <2>6. \A q \in Proc : plan'[q].op = "convert" /\ ~doomed'[q] => hold'[plan'[q].hold].status = "HELD"
    BY <1>4, <2>1, <2>4, EndsWritingConversions DEF CommitConvert, Conversions, WrittenHolds, Held
  <2>7. \A o \in Res : res[o].from \in Hold \cup {NoHold}
    BY DEF TypeOK, RowsOK, Row
  <2>8. QED
    BY <2>1, <2>2, <2>4, <2>5, <2>6, <2>7 DEF Conversions, Held
<1>5. ASSUME NEW p \in Proc, CommitHold(p)
      PROVE  Conversions'
  <2>1. PICK h \in Hold : /\ hold[h].status = "none"
                          /\ \A g \in Hold \ {h} : hold'[g] = hold[g]
    BY <1>5 DEF CommitHold, TypeOK, RowsOK
  <2>2. \A r \in Res : res[r].from \in Hold \cup {NoHold} /\ res[r].from # h
    BY <2>1, ConstantsAssumption DEF Conversions, TypeOK, RowsOK, Row
  <2>3. \A q \in Proc : plan'[q].op = "convert" /\ ~doomed'[q] =>
          plan'[q].hold \in Hold \ {h} /\ Held(plan'[q].hold)
    BY <1>5, <2>1, EndsWritingConversions DEF CommitHold, Conversions, Held
  <2>4. QED
    BY <1>5, <2>1, <2>2, <2>3 DEF CommitHold, Conversions, Held
<1>6. ASSUME NEW p \in Proc, WritesReservation(p), plan[p].op \in {"update", "assign", "status"}
      PROVE  Conversions'
  <2>1. plan[p].res \in Res
    BY <1>6, PlanShape DEF Updates, Assigns, Restates
  <2>2. \A o \in Res : res'[o].from = res[o].from
    BY <1>6, <2>1, NewRowFrom DEF WritesReservation, TypeOK, RowsOK
  <2>3. \A q \in Proc : plan'[q].op = "convert" /\ ~doomed'[q] => Held(plan'[q].hold)
    BY <1>6, EndsWritingConversions DEF WritesReservation, Conversions
  <2>4. QED
    BY <1>6, <2>2, <2>3 DEF WritesReservation, Conversions, Held
<1>7. ASSUME NEW p \in Proc, WriteExpired(p)
      PROVE  Conversions'
  <2>1. \A h \in Hold : \/ hold'[h].status = "EXPIRED" /\ h \in WrittenHolds(p)
                        \/ hold'[h] = hold[h]
    BY <1>7 DEF WriteExpired, WrittenHolds, TypeOK, RowsOK, HoldRow
  <2>2. ASSUME NEW q \in Proc, plan'[q].op = "convert", ~doomed'[q]
        PROVE  hold'[plan'[q].hold].status = "HELD"
    <3>1. /\ plan'[q] = plan[q] /\ ~doomed[q]
          /\ plan[q].hold \in Hold /\ plan[q].hold \notin WrittenHolds(p)
      BY <1>7, <2>2, EndsWritingConversions DEF WriteExpired
    <3>2. Held(plan[q].hold)
      BY <2>2, <3>1 DEF Conversions
    <3>3. QED
      BY <2>1, <3>1, <3>2 DEF Held
  <2>3. \A r \in Res : res[r].from \in Hold \cup {NoHold}
    BY DEF TypeOK, RowsOK, Row
  <2>4. QED
    BY <1>7, <2>1, <2>2, <2>3 DEF WriteExpired, Conversions, Held
<1>8. CASE ListHolds
  <2> DEFINE due == {h \in Hold : Held(h) /\ hold[h].lapsed}
  <2>1. \A h \in Hold : \/ hold'[h].status = "EXPIRED" /\ h \in due
                        \/ hold'[h] = hold[h]
    BY <1>8 DEF ListHolds, TypeOK, RowsOK, HoldRow
  <2>2. ASSUME NEW q \in Proc, plan'[q].op = "convert", ~doomed'[q]
        PROVE  hold'[plan'[q].hold].status = "HELD"
    <3>1. plan'[q] = plan[q] /\ plan[q].hold \in Hold /\ pc[q] = "tx"
      BY <1>8, <2>2, PlanShape DEF ListHolds, Phases, Inserts
    <3>2. ~doomed[q] /\ plan[q].hold \notin due
      BY <1>8, <2>2, <3>1 DEF ListHolds, WrittenHolds
    <3>3. QED
      BY <2>1, <2>2, <3>1, <3>2 DEF Conversions, Held
  <2>3. \A r \in Res : res[r].from \in Hold \cup {NoHold}
    BY DEF TypeOK, RowsOK, Row
  <2>4. QED
    BY <1>8, <2>1, <2>2, <2>3 DEF ListHolds, Conversions, Held
<1>9. ASSUME NEW p \in Proc, AcquireLock(p)
      PROVE  Conversions'
  BY <1>9, UnchangedRowsConversions DEF AcquireLock
<1>10. ASSUME NEW p \in Proc, Fail(p)
       PROVE  Conversions'
  BY <1>10, UnchangedRowsConversions DEF Fail, NoPlan, TypeOK, ProcsOK
<1>11. ASSUME NEW r \in Res, Remove(r)
       PROVE  Conversions'
  <2>1. \A o \in Res : res'[o].from = res[o].from
    BY <1>11 DEF Remove, TypeOK, RowsOK, Row
  <2>2. QED
    BY <1>11, <2>1 DEF Remove, Ages, Conversions, Held
<1>12. ASSUME NEW h \in Hold, Lapse(h)
       PROVE  Conversions'
  <2>1. \A g \in Hold : hold'[g].status = hold[g].status
    BY <1>12 DEF Lapse, TypeOK, RowsOK, HoldRow
  <2>2. \A r \in Res : res[r].from \in Hold \cup {NoHold}
    BY DEF TypeOK, RowsOK, Row
  <2>3. \A q \in Proc : plan[q].op = "convert" => plan[q].hold \in Hold
    BY PlanShape DEF Inserts
  <2>4. QED
    BY <1>12, <2>1, <2>2, <2>3 DEF Lapse, procs, Conversions, Held
<1>13. CASE UNCHANGED vars
  BY <1>13 DEF vars, rows, procs, Conversions, Held
<1>14. ASSUME NEW p \in Proc, Request(p)
       PROVE  Conversions'
  <2>1. CASE BeginCreate(p) \/ BeginHold(p) \/ BeginUpdate(p)
    BY <1>1, <2>1, PlanOps DEF BeginCreate, BeginHold, BeginUpdate
  <2>2. CASE BeginConvert(p)
    <3>1. PICK h \in Hold : Held(h) /\ \E t, st : TakesSnapshot(p, Conversion(h, t, st))
      BY <2>2 DEF BeginConvert
    <3>2. \A t, st : Conversion(h, t, st).hold = h
      BY DEF Conversion, Insertion, NoPlan
    <3>3. QED
      BY <1>1, <3>1, <3>2
  <2>3. CASE ReadForUpdate(p) \/ ReadForAssign(p) \/ ReadForStatus(p)
             \/ ReadForCancel(p) \/ ReadForSweep(p)
    BY <1>2, <2>3, PlanOps
       DEF ReadForUpdate, ReadForAssign, ReadForStatus, ReadForCancel, ReadForSweep
  <2>4. QED
    BY <1>3, <1>4, <1>5, <1>6, <1>7, <1>9, <1>10, <1>14, <2>1, <2>2, <2>3
       DEF Request, CommitUpdate, CommitAssign, WriteStatus, CanCommit
<1>15. QED
  BY <1>8, <1>11, <1>12, <1>13, <1>14 DEF Next

LEMMA ConversionsHold == Spec => []Conversions
<1>1. Init => Conversions
  BY DEF Init, Conversions, NoRow, NoPlan
<1>2. QED
  BY <1>1, Typing, RequestPhases, ConversionsStep, PTL DEF Spec

\* ConvertedOnce: createFromHold turns a hold into at most one reservation, and the
\* hold never holds again, whatever cancel, getValid, list and the sweep do meanwhile.
THEOREM ConversionSafety == Spec => []ConvertedOnce
<1>1. Conversions => ConvertedOnce
  BY DEF Conversions, ConvertedOnce, Held
<1>2. QED
  BY <1>1, ConversionsHold, PTL

=============================================================================
