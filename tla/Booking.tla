------------------------------- MODULE Booking -------------------------------
(***************************************************************************)
(* Reservations and holds of one venue as the API keeps them in Postgres:  *)
(* ReservationsService (create, createFromHold, update, updateStatus,      *)
(* remove), HoldsService (create, list, getValid, cancel),                 *)
(* HoldsCleanupService (sweep) and SeatingService.assignTables.            *)
(*                                                                         *)
(* A request is a process.  Its handler may first read rows outside any    *)
(* transaction (pc = "read"), may open a Serializable transaction          *)
(* (pc = "tx") and ends by committing, by writing one row unconditionally, *)
(* or by failing.  A transaction is three kinds of steps: it takes its     *)
(* snapshot, which happens before it waits for its advisory locks; it      *)
(* acquires the locks one after the other; it commits.  All of its reads   *)
(* come from the snapshot, so what they found is kept in `seen`.           *)
(*                                                                         *)
(* Postgres refuses a commit in two situations, which `doomed` records:    *)
(* a row the transaction updates was written since its snapshot, or a      *)
(* transaction that committed since the snapshot wrote what this one read  *)
(* and read what this one writes.  It may refuse more commits than these   *)
(* (Fail covers them), so the model has every behaviour the database has.  *)
(***************************************************************************)
EXTENDS Naturals, Sequences, FiniteSets, Functions

CONSTANTS
  Res,        \* reservation row ids
  Hold,       \* hold row ids
  Table,      \* table ids, numbers so that sorting them means something
  Slot,       \* (local date, local time) pairs
  Proc,       \* requests in flight
  Seatings,   \* sorted table lists that pass assignTables' join and capacity checks
  Outlasts,   \* which answers "does the slot start before the hold expires?" may have
  Ops,        \* operations that requests call
  Asks,       \* statuses that create and status requests name
  Edits,      \* update requests: the fields of UpdateReservationDto, or Keep
  NoRes, NoHold, NoTable, NoSlot, Keep

ASSUME SeatingsAssumption ==
  \A q \in Seatings :
    /\ q \in Seq(Table) /\ q # <<>>
    /\ \A i, j \in DOMAIN q : i < j => q[i] < q[j]

Status == {"PENDING", "CONFIRMED", "SEATED", "COMPLETED", "CANCELLED"}

ASSUME ConstantsAssumption ==
  /\ Table \subseteq Nat /\ IsFiniteSet(Table)
  /\ NoTable \notin Table /\ NoRes \notin Res /\ NoHold \notin Hold
  /\ Keep \notin Slot \cup {NoSlot} /\ Keep \notin Table \cup {NoTable}
  /\ Keep \notin Status \cup {"HELD"}
  /\ \A S \in SUBSET Table : Keep # S
  /\ Outlasts \subseteq BOOLEAN /\ Asks \subseteq Status
  /\ Edits \subseteq [slot : Slot \cup {Keep}, table : Table \cup {NoTable, Keep},
                      status : Status \cup {Keep}, duration : BOOLEAN]
  /\ Res \cap Hold = {}

BLOCKING_RESERVATION_STATUSES == {"PENDING", "CONFIRMED", "SEATED"}

STATUS_TRANSITIONS ==
  [PENDING   |-> {"CONFIRMED", "CANCELLED"},
   CONFIRMED |-> {"SEATED", "CANCELLED"},
   SEATED    |-> {"COMPLETED", "CANCELLED"},
   COMPLETED |-> {},
   CANCELLED |-> {}]

VARIABLES
  res,     \* Reservation rows, with their ReservationTableAssignment rows in `tables`
  hold,    \* Hold rows; `lapsed` says that the clock has reached expiresAt
  pc,      \* where each request is: "idle", "read" (outside a transaction), "tx"
  plan,    \* what the request read outside its transaction and means to write
  got,     \* how many of its advisory locks the transaction has
  seen,    \* what findSlotConflicts returns on the transaction's snapshot
  doomed,  \* Postgres will refuse this transaction's writes
  stale,   \* (auxiliary) the reservation a request read has been written since
  taint    \* (auxiliary) reservations written by a stale request or moved while joined

rows == <<res, hold, taint>>
procs == <<pc, plan, got, seen, doomed, stale>>
vars == <<rows, procs>>

-----------------------------------------------------------------------------
(* Rows.                                                                    *)

ResStatus == Status \cup {"none", "removed"}

NoRow == [status |-> "none", slot |-> NoSlot, table |-> NoTable,
          tables |-> {}, from |-> NoHold]

NoHoldRow == [status |-> "none", slot |-> NoSlot, table |-> NoTable,
              lapsed |-> FALSE, outlasts |-> FALSE]

NoPlan == [op |-> "none", res |-> NoRes, hold |-> NoHold, expiring |-> {},
           check |-> FALSE, at |-> NoSlot, req |-> <<>>,
           status |-> Keep, slot |-> Keep, table |-> Keep, tables |-> Keep,
           outlasts |-> FALSE]

Present(r) == res[r].status \in Status
Held(h) == hold[h].status = "HELD"
Blocking(row) == row.status \in BLOCKING_RESERVATION_STATUSES
Claiming(row) == Blocking(row) \/ row.status = "HELD"

Occupies(row) == {row.table} \cup row.tables

\* Mutation: a request without a table is not exclusive across the venue.
MatchesNamed(requested, existing) ==
  \/ NoTable \in existing
  \/ requested \cap existing # {}

TableMatches(requested, existing) ==
  \/ requested = {}
  \/ NoTable \in existing
  \/ requested \cap existing # {}

\* Mutation: only the first table of a joined reservation is matched.
FirstTableConflicts(m) ==
  {r \in Res \ {m.res} : /\ Blocking(res[r])
                         /\ res[r].slot = m.at
                         /\ TableMatches(Range(m.req), {res[r].table})}

ConflictingReservations(m) ==
  {r \in Res \ {m.res} : /\ Blocking(res[r])
                         /\ res[r].slot = m.at
                         /\ TableMatches(Range(m.req), Occupies(res[r]))}

ConflictingHolds(m) ==
  {h \in Hold \ {m.hold} : /\ Held(h) /\ ~hold[h].lapsed
                           /\ hold[h].slot = m.at
                           /\ TableMatches(Range(m.req), {hold[h].table})
                           /\ hold[h].outlasts}

FindSlotConflicts(m) == ConflictingReservations(m) \cup ConflictingHolds(m)

\* Mutation: hasSlotConflicts looks at the reservations only.
SlotIsFreeOfReservations(p) == plan[p].check => seen[p] \cap Res = {}

\* assertSlotIsFree: the holds' expiry is compared with the time of the check,
\* after the locks, the rows themselves come from the snapshot.
SlotIsFree(p) ==
  plan[p].check => /\ seen[p] \cap Res = {}
                   /\ \A h \in seen[p] \cap Hold : hold[h].lapsed

\* uniq_reservation_venue_table_slot: no status in it, and NULL never collides.
UniqueReservation(r, row) ==
  row.table # NoTable =>
    \A o \in Res \ {r} :
      Present(o) => res[o].table # row.table \/ res[o].slot # row.slot

\* uniq_hold_venue_table_slot
UniqueHold(m) ==
  m.table # NoTable =>
    \A h \in Hold :
      hold[h].status # "none" => hold[h].table # m.table \/ hold[h].slot # m.slot

-----------------------------------------------------------------------------
(* Transactions.                                                            *)

Chosen(new, old) == IF new = Keep THEN old ELSE new

\* The row a request is about to write: its payload over the row it updates.
NewRow(p) ==
  LET m == plan[p]
      old == IF m.res = NoRes THEN NoRow ELSE res[m.res]
  IN  [status |-> Chosen(m.status, old.status),
       slot   |-> Chosen(m.slot, old.slot),
       table  |-> Chosen(m.table, old.table),
       tables |-> Chosen(m.tables, old.tables),
       from   |-> IF m.hold = NoHold THEN old.from ELSE m.hold]

\* The transaction's conflict query would return this row.
Sees(p, row) ==
  /\ pc[p] = "tx" /\ plan[p].check
  /\ Claiming(row)
  /\ row.slot = plan[p].at
  /\ TableMatches(Range(plan[p].req), Occupies(row))

\* Each of the two read what the other one writes.
Rivals(p, q) == Sees(p, NewRow(q)) /\ Sees(q, NewRow(p))

WrittenRes(p) == {plan[p].res} \cap Res
WrittenHolds(p) == ({plan[p].hold} \cup plan[p].expiring) \cap Hold

\* A write of p: it ends p's request, refuses the open transactions that update
\* the same rows or that are p's rivals, and ages what other requests have read.
EndsWriting(p) ==
  /\ pc' = [pc EXCEPT ![p] = "idle"]
  /\ plan' = [plan EXCEPT ![p] = NoPlan]
  /\ got' = [got EXCEPT ![p] = 0]
  /\ seen' = [seen EXCEPT ![p] = {}]
  /\ doomed' = [q \in Proc |->
       /\ q # p
       /\ \/ doomed[q]
          \/ /\ pc[q] = "tx"
             /\ \/ WrittenRes(q) \cap WrittenRes(p) # {}
                \/ WrittenHolds(q) \cap WrittenHolds(p) # {}
                \/ Rivals(p, q)]
  /\ stale' = [q \in Proc |->
       q # p /\ (stale[q] \/ WrittenRes(q) \cap WrittenRes(p) # {})]

\* The transaction's first statement fixes its snapshot.
TakesSnapshot(p, m) ==
  /\ m.op \in Ops
  /\ pc' = [pc EXCEPT ![p] = "tx"]
  /\ plan' = [plan EXCEPT ![p] = m]
  /\ seen' = [seen EXCEPT ![p] = IF m.check THEN FindSlotConflicts(m) ELSE {}]
  /\ UNCHANGED <<rows, got, doomed, stale>>

\* Rows read by a handler before, or without, a transaction.
ReadsOutside(p, m) ==
  /\ pc[p] = "idle" /\ m.op \in Ops
  /\ pc' = [pc EXCEPT ![p] = "read"]
  /\ plan' = [plan EXCEPT ![p] = m]
  /\ UNCHANGED <<rows, got, seen, doomed, stale>>

\* Mutation: an update locks the slot it leaves, then the one it goes to.
KeysOfBothSlots(p) ==
  LET m == plan[p]
  IN  IF m.op = "assign" THEN [i \in DOMAIN m.req |-> <<m.at, m.req[i]>>]
      ELSE IF m.op = "update" THEN <<<<res[m.res].slot, NoTable>>, <<m.at, NoTable>>>>
      ELSE <<<<m.at, NoTable>>>>

\* acquireSlotLock takes one lock per slot, acquireLocks one per (slot, table).
Keys(p) ==
  LET m == plan[p]
  IN  IF m.op = "assign" THEN [i \in DOMAIN m.req |-> <<m.at, m.req[i]>>]
      ELSE IF m.check THEN <<<<m.at, NoTable>>>>
      ELSE <<>>

HoldsKey(p, key) == \E i \in 1..got[p] : Keys(p)[i] = key

WaitsFor(p, q) ==
  /\ p # q /\ pc[p] = "tx" /\ got[p] < Len(Keys(p))
  /\ HoldsKey(q, Keys(p)[got[p] + 1])

AcquireLock(p) ==
  /\ pc[p] = "tx" /\ got[p] < Len(Keys(p))
  /\ \A q \in Proc : ~WaitsFor(p, q)
  /\ got' = [got EXCEPT ![p] = @ + 1]
  /\ UNCHANGED <<rows, pc, plan, seen, doomed, stale>>

CanCommit(p, op) ==
  /\ pc[p] = "tx" /\ plan[p].op = op /\ got[p] = Len(Keys(p))
  /\ ~doomed[p] /\ SlotIsFree(p)

\* A refusal (409, 400, 404, serialization failure, timeout) or a crash: the
\* transaction rolls back and Postgres releases its locks.
Fail(p) ==
  /\ pc[p] # "idle"
  /\ pc' = [pc EXCEPT ![p] = "idle"]
  /\ plan' = [plan EXCEPT ![p] = NoPlan]
  /\ got' = [got EXCEPT ![p] = 0]
  /\ seen' = [seen EXCEPT ![p] = {}]
  /\ doomed' = [doomed EXCEPT ![p] = FALSE]
  /\ stale' = [stale EXCEPT ![p] = FALSE]
  /\ UNCHANGED rows
-----------------------------------------------------------------------------
(* Creating: POST /reservations without and with a holdId, POST /holds.     *)

Just(t) == {t} \ {NoTable}
\* Mutation: a null tableId is not filtered out.
AskedNull(t) == <<t>>
Asked(t) == IF t = NoTable THEN <<>> ELSE <<t>>

Insertion(op, s, t, st) ==
  [NoPlan EXCEPT !.op = op, !.check = TRUE, !.at = s, !.req = Asked(t),
                 !.status = st, !.slot = s, !.table = t, !.tables = Just(t)]

Conversion(h, t, st) == [Insertion("convert", hold[h].slot, t, st) EXCEPT !.hold = h]

Holding(s, t, o) == [Insertion("hold", s, t, "HELD") EXCEPT !.outlasts = o]

BeginCreate(p) ==
  /\ pc[p] = "idle"
  /\ \E s \in Slot, t \in Table \cup {NoTable}, st \in Asks :
       TakesSnapshot(p, Insertion("create", s, t, st))

\* The hold must be HELD and unexpired when the transaction reads it; a tableId
\* in the request overrides the hold's.
BeginConvert(p) ==
  /\ pc[p] = "idle"
  /\ \E h \in Hold, override \in Table \cup {NoTable}, st \in Asks :
       LET t == IF override = NoTable THEN hold[h].table ELSE override
       IN  /\ Held(h) /\ ~hold[h].lapsed
           /\ t # NoTable
           /\ TakesSnapshot(p, Conversion(h, t, st))

BeginHold(p) ==
  /\ pc[p] = "idle"
  /\ \E s \in Slot, t \in Table \cup {NoTable}, o \in Outlasts :
       TakesSnapshot(p, Holding(s, t, o))

InsertsReservation(p) ==
  \E r \in Res :
    /\ res[r].status = "none"
    /\ UniqueReservation(r, NewRow(p))
    /\ res' = [res EXCEPT ![r] = NewRow(p)]

CommitCreate(p) ==
  /\ CanCommit(p, "create")
  /\ InsertsReservation(p)
  /\ EndsWriting(p)
  /\ UNCHANGED <<hold, taint>>

\* Mutation: the hold is not marked CONSUMED.
CommitConvertUnconsumed(p) ==
  /\ CanCommit(p, "convert")
  /\ InsertsReservation(p)
  /\ EndsWriting(p)
  /\ UNCHANGED <<hold, taint>>

CommitConvert(p) ==
  /\ CanCommit(p, "convert")
  /\ InsertsReservation(p)
  /\ hold' = [hold EXCEPT ![plan[p].hold].status = "CONSUMED"]
  /\ EndsWriting(p)
  /\ UNCHANGED taint

CommitHold(p) ==
  /\ CanCommit(p, "hold")
  /\ UniqueHold(plan[p])
  /\ \E h \in Hold :
       /\ hold[h].status = "none"
       /\ hold' = [hold EXCEPT ![h] =
            [status |-> "HELD", slot |-> plan[p].slot, table |-> plan[p].table,
             lapsed |-> FALSE, outlasts |-> plan[p].outlasts]]
  /\ EndsWriting(p)
  /\ UNCHANGED <<res, taint>>

-----------------------------------------------------------------------------
(* Changing a reservation.                                                  *)

\* Mutation: a change of slot alone is not checked.
ChecksTablesOnly(dto) == dto.table # Keep \/ dto.duration

NeedsConflictCheck(dto) == dto.slot # Keep \/ dto.table # Keep \/ dto.duration

\* The assignments are rewritten only when the request names a table, or none.
NextTables(t) == IF t = Keep THEN Keep ELSE Just(t)

Change(r, dto) ==
  [op |-> "update", res |-> r, hold |-> NoHold, expiring |-> {},
   check |-> NeedsConflictCheck(dto),
   at |-> Chosen(dto.slot, res[r].slot),
   req |-> Asked(Chosen(dto.table, res[r].table)),
   status |-> dto.status, slot |-> dto.slot, table |-> dto.table,
   tables |-> NextTables(dto.table), outlasts |-> FALSE]

Assignment(r, q) ==
  [NoPlan EXCEPT !.op = "assign", !.res = r, !.check = TRUE, !.at = res[r].slot,
                 !.req = q, !.table = q[1], !.tables = Range(q)]

Restatus(r, st) == [NoPlan EXCEPT !.op = "status", !.res = r, !.status = st]

\* update reads the row before its transaction and derives from that copy the
\* transition check and the table and slot to check. Naming the current status
\* writes no status, which is what Keep stands for.
ReadForUpdate(p) ==
  \E r \in Res, dto \in Edits :
    /\ Present(r)
    /\ dto.status # Keep => dto.status \in STATUS_TRANSITIONS[res[r].status]
    /\ ReadsOutside(p, Change(r, dto))

\* assignTables reads the slot, not the status, before its transaction.
ReadForAssign(p) ==
  \E r \in Res, q \in Seatings :
    /\ Present(r)
    /\ ReadsOutside(p, Assignment(r, q))

BeginUpdate(p) ==
  /\ pc[p] = "read" /\ plan[p].op \in {"update", "assign"}
  /\ Present(plan[p].res)
  /\ TakesSnapshot(p, plan[p])

\* Only the primary table is checked when a joined reservation changes slot.
MovesJoined(p) ==
  /\ plan[p].slot # Keep /\ plan[p].tables = Keep
  /\ \E t, u \in res[plan[p].res].tables : t # u

WritesReservation(p) ==
  LET r == plan[p].res IN
  /\ Present(r)
  /\ UniqueReservation(r, NewRow(p))
  /\ res' = [res EXCEPT ![r] = NewRow(p)]
  /\ taint' = IF stale[p] \/ MovesJoined(p) THEN taint \cup {r} ELSE taint
  /\ EndsWriting(p)
  /\ UNCHANGED hold

CommitUpdate(p) ==
  /\ CanCommit(p, "update")
  /\ WritesReservation(p)

CommitAssign(p) ==
  /\ CanCommit(p, "assign")
  /\ WritesReservation(p)

\* Mutation: updateStatus without ensureTransition.
ReadAnyForStatus(p) ==
  \E r \in Res, st \in Asks :
    /\ Present(r)
    /\ ReadsOutside(p, Restatus(r, st))

\* updateStatus: no transaction; asking for the current status is allowed.
ReadForStatus(p) ==
  \E r \in Res :
    /\ Present(r)
    /\ \E st \in Asks \cap ({res[r].status} \cup STATUS_TRANSITIONS[res[r].status]) :
         ReadsOutside(p, Restatus(r, st))

WriteStatus(p) ==
  /\ pc[p] = "read" /\ plan[p].op = "status"
  /\ WritesReservation(p)

Ages(rs) ==
  /\ doomed' = [q \in Proc |-> doomed[q] \/ (pc[q] = "tx" /\ WrittenRes(q) \cap rs # {})]
  /\ stale' = [q \in Proc |-> stale[q] \/ WrittenRes(q) \cap rs # {}]

\* remove: one DELETE; an id is never given out again.
Remove(r) ==
  /\ Present(r)
  /\ res' = [res EXCEPT ![r].status = "removed"]
  /\ Ages({r})
  /\ UNCHANGED <<hold, taint, pc, plan, got, seen>>

-----------------------------------------------------------------------------
(* Ending a hold.                                                           *)

\* The clock reaches a hold's expiresAt.
Lapse(h) ==
  /\ Held(h) /\ ~hold[h].lapsed
  /\ hold' = [hold EXCEPT ![h].lapsed = TRUE]
  /\ UNCHANGED <<res, taint, procs>>

Expiry(holds) == [NoPlan EXCEPT !.op = "expire", !.expiring = holds]

\* cancel and getValid read one hold and write it in a second statement.
ReadForCancel(p) ==
  \E h \in Hold :
    /\ Held(h)
    /\ ReadsOutside(p, Expiry({h}))

\* sweep: Read Committed, a SELECT of a batch of ids and an UPDATE by id.
ReadForSweep(p) ==
  \E batch \in (SUBSET Hold) \ {{}} :
    /\ \A h \in batch : Held(h) /\ hold[h].lapsed
    /\ ReadsOutside(p, Expiry(batch))

WriteExpired(p) ==
  /\ pc[p] = "read" /\ plan[p].op = "expire"
  /\ hold' = [h \in Hold |-> IF h \in plan[p].expiring
                               THEN [hold[h] EXCEPT !.status = "EXPIRED"] ELSE hold[h]]
  /\ EndsWriting(p)
  /\ UNCHANGED <<res, taint>>

\* list expires in a single UPDATE, which re-reads every row it waited for.
ListHolds ==
  LET due == {h \in Hold : Held(h) /\ hold[h].lapsed} IN
  /\ due # {}
  /\ hold' = [h \in Hold |-> IF h \in due
                               THEN [hold[h] EXCEPT !.status = "EXPIRED"] ELSE hold[h]]
  /\ doomed' = [q \in Proc |-> doomed[q] \/ (pc[q] = "tx" /\ WrittenHolds(q) \cap due # {})]
  /\ UNCHANGED <<res, taint, pc, plan, got, seen, stale>>

-----------------------------------------------------------------------------
Init ==
  /\ res = [r \in Res |-> NoRow]
  /\ hold = [h \in Hold |-> NoHoldRow]
  /\ pc = [p \in Proc |-> "idle"]
  /\ plan = [p \in Proc |-> NoPlan]
  /\ got = [p \in Proc |-> 0]
  /\ seen = [p \in Proc |-> {}]
  /\ doomed = [p \in Proc |-> FALSE]
  /\ stale = [p \in Proc |-> FALSE]
  /\ taint = {}

Request(p) ==
  \/ BeginCreate(p) \/ BeginConvert(p) \/ BeginHold(p)
  \/ CommitCreate(p) \/ CommitConvert(p) \/ CommitHold(p)
  \/ ReadForUpdate(p) \/ ReadForAssign(p) \/ BeginUpdate(p)
  \/ CommitUpdate(p) \/ CommitAssign(p)
  \/ ReadForStatus(p) \/ WriteStatus(p)
  \/ ReadForCancel(p) \/ ReadForSweep(p) \/ WriteExpired(p)
  \/ AcquireLock(p) \/ Fail(p)

Next ==
  \/ \E p \in Proc : Request(p)
  \/ \E r \in Res : Remove(r)
  \/ \E h \in Hold : Lapse(h)
  \/ ListHolds

Spec == Init /\ [][Next]_vars
-----------------------------------------------------------------------------
(* Properties.                                                              *)

\* The first table of a reservation (Reservation.tableId) is one of its
\* assignments; a reservation without it has none.
Row == {row \in [status : ResStatus, slot : Slot \cup {NoSlot}, table : Table \cup {NoTable},
                 tables : SUBSET Table, from : Hold \cup {NoHold}] :
          /\ row.table # NoTable => row.table \in row.tables
          /\ row.table = NoTable => row.tables = {}}

HoldRow == [status : {"none", "HELD", "CONSUMED", "EXPIRED"}, slot : Slot \cup {NoSlot},
            table : Table \cup {NoTable}, lapsed : BOOLEAN, outlasts : BOOLEAN]

Op == {"none", "create", "convert", "hold", "update", "assign", "status", "expire"}

Inserts(m) ==
  /\ m.op \in {"create", "convert", "hold"}
  /\ m.res = NoRes /\ m.hold \in IF m.op = "convert" THEN Hold ELSE {NoHold}
  /\ m.status \in IF m.op = "hold" THEN {"HELD"} ELSE Status
  /\ m.slot # Keep /\ m.table # Keep /\ m.tables = Just(m.table)
  /\ m.check /\ m.at = m.slot /\ m.req = Asked(m.table)

\* The request changes which tables of which slot its reservation has.
Reclaims(m) == m.slot # Keep \/ m.table # Keep

Updates(m) ==
  /\ m.op = "update" /\ m.res \in Res /\ m.hold = NoHold /\ m.status # "HELD"
  /\ m.tables = NextTables(m.table)
  /\ Reclaims(m) => m.check

Assigns(m) ==
  /\ m.op = "assign" /\ m.res \in Res /\ m.hold = NoHold
  /\ m.status = Keep /\ m.slot = Keep
  /\ m.req \in Seatings /\ m.table = m.req[1] /\ m.tables = Range(m.req) /\ m.check

Restates(m) ==
  /\ m.op = "status" /\ m.res \in Res /\ m.hold = NoHold /\ m.status \in Status
  /\ m.slot = Keep /\ m.table = Keep /\ m.tables = Keep

Expires(m) == m.op = "expire" /\ m.res = NoRes /\ m.hold = NoHold

Plan == {m \in [op : Op, res : Res \cup {NoRes}, hold : Hold \cup {NoHold},
                expiring : SUBSET Hold, check : BOOLEAN, at : Slot \cup {NoSlot},
                req : Seq(Table), status : Status \cup {"HELD", Keep}, slot : Slot \cup {NoSlot, Keep},
                table : Table \cup {NoTable, Keep}, tables : {Keep} \cup SUBSET Table,
                outlasts : BOOLEAN] :
           m = NoPlan \/ Inserts(m) \/ Updates(m) \/ Assigns(m) \/ Restates(m) \/ Expires(m)}

RowsOK ==
  /\ res \in [Res -> Row]
  /\ hold \in [Hold -> HoldRow]
  /\ taint \subseteq Res

ProcsOK ==
  /\ pc \in [Proc -> {"idle", "read", "tx"}]
  /\ plan \in [Proc -> Plan]
  /\ got \in [Proc -> Nat]
  /\ seen \in [Proc -> SUBSET (Res \cup Hold)]
  /\ doomed \in [Proc -> BOOLEAN]
  /\ stale \in [Proc -> BOOLEAN]

\* The type of every variable; the rows of Reservation agree with those of
\* ReservationTableAssignment whatever requests wrote them.
TypeOK == RowsOK /\ ProcsOK

\* A hold turns into at most one reservation, whatever conversions, cancellations
\* and sweeps race for it, and is never HELD again afterwards (createFromHold).
ConvertedOnce ==
  \A r \in Res : res[r].from # NoHold =>
    /\ ~Held(res[r].from)
    /\ \A o \in Res \ {r} : res[o].from # res[r].from

\* Two claims on one slot share a table; a claim without a table is on all of them.
Clash(x, y) ==
  /\ x.slot = y.slot
  /\ \/ NoTable \in Occupies(x) \cup Occupies(y)
     \/ Occupies(x) \cap Occupies(y) # {}

\* What the conflict check of booking-conflicts.ts is for: no table, joined tables
\* included, is given to two live reservations of a slot, and a live reservation
\* without a table has the slot for itself.
NoDoubleBooking ==
  \A r, o \in Res : r # o /\ Blocking(res[r]) /\ Blocking(res[o]) => ~Clash(res[r], res[o])

\* The locks, the snapshot check, the unique index and Serializable isolation
\* together leave only two ways to a double booking: a request that wrote a
\* reservation which had changed since the request read it, or a joined
\* reservation moved to another slot.
DoubleBookingOnlyIfTainted ==
  \A r, o \in Res :
    /\ r # o /\ Blocking(res[r]) /\ Blocking(res[o]) /\ Clash(res[r], res[o])
    => r \in taint \/ o \in taint

\* How they do it: a transaction that may still commit a new claim, a reservation's
\* or a hold's, has found, on its snapshot, every live reservation that clashes with
\* what it is about to write, those that committed after the snapshot included.
MayClaim(p) ==
  /\ pc[p] = "tx" /\ ~doomed[p] /\ ~stale[p]
  /\ Reclaims(plan[p]) /\ ~MovesJoined(p) /\ Claiming(NewRow(p))

SeesEveryClash ==
  \A p \in Proc : MayClaim(p) =>
    \A o \in Res \ taint :
      o # plan[p].res /\ Blocking(res[o]) /\ Clash(NewRow(p), res[o]) => o \in seen[p]

HoldClaim(h) == [slot |-> hold[h].slot, table |-> hold[h].table, tables |-> {}]
Guards(h) == Held(h) /\ ~hold[h].lapsed

\* A live hold keeps its table: nobody else's live reservation or live hold of the
\* slot shares a table with it.
HoldKeepsTable ==
  \A h \in Hold : Guards(h) =>
    /\ \A r \in Res : Blocking(res[r]) => ~Clash(HoldClaim(h), res[r])
    /\ \A g \in Hold \ {h} : Guards(g) => ~Clash(HoldClaim(h), HoldClaim(g))

\* ... which is so for holds that outlast the start of their slot, the only ones
\* findSlotConflicts reports, and up to tainted reservations.
OutlastingHoldKeepsTable ==
  \A h \in Hold : Guards(h) /\ hold[h].outlasts =>
    /\ \A r \in Res \ taint : Blocking(res[r]) => ~Clash(HoldClaim(h), res[r])
    /\ \A g \in Hold \ {h} :
         Guards(g) /\ hold[g].outlasts => ~Clash(HoldClaim(h), HoldClaim(g))

\* Requests that wait for each other's advisory locks never wait in a circle, since
\* assignTables takes the locks of its tables in sorted order.
NoLockCycle ==
  \A S \in (SUBSET Proc) \ {{}} : \E p \in S : \A q \in S : ~WaitsFor(p, q)

\* Who is on the ledger of claims: the live reservations and holds, but for tainted
\* reservations and for holds that no conflict check reports.
Alive(h) == Guards(h) /\ hold[h].outlasts
Listed(o) == IF o \in Res THEN Blocking(res[o]) /\ o \notin taint ELSE Alive(o)

\* The tables of a slot that a row claims; without a table it claims them all.
SpotsOf(row) ==
  {row.slot} \X (IF NoTable \in Occupies(row) THEN Table \cup {NoTable} ELSE Occupies(row))

ClaimOf(o) ==
  IF ~Listed(o) THEN {} ELSE SpotsOf(IF o \in Res THEN res[o] ELSE HoldClaim(o))

Gone(o) == ~Listed(o) /\ (IF o \in Res THEN res[o].status ELSE hold[o].status) # "none"

Ledger == INSTANCE Ledger WITH
  Spot <- Slot \X (Table \cup {NoTable}),
  claim <- [o \in Res \cup Hold |-> ClaimOf(o)],
  over <- {o \in Res \cup Hold : Gone(o)}

\* Every handler, with its reads, waits, checks and writes, acts on the claims as one
\* step that takes only what is free at that moment: a conversion passes the spots of
\* its hold on without a gap, and a claim that has ended never comes back.
OneLedger == Ledger!Spec

\* ensureTransition: a reservation's status changes only along STATUS_TRANSITIONS,
\* unless the request that changes it works on a reservation that changed after it was
\* read: updateStatus checks the transition on an earlier copy and writes unconditionally.
StatusLeavesTransitionsOnlyIfTainted ==
  [][\A r \in Res : Present(r) /\ res'[r].status # res[r].status =>
       \/ res'[r].status \in STATUS_TRANSITIONS[res[r].status] \cup {"removed"}
       \/ r \in taint']_vars

\* A hold that stopped holding gives its table back: when nothing live claims a
\* (table, slot), the unique index of Hold has no entry that refuses a new hold.
FreeTableCanBeHeld ==
  \A t \in Table, s \in Slot :
    LET wish == [slot |-> s, table |-> t, tables |-> {t}] IN
    /\ \A r \in Res : Blocking(res[r]) => ~Clash(wish, res[r])
    /\ \A h \in Hold : Guards(h) => ~Clash(wish, HoldClaim(h))
    => UniqueHold(wish)
=============================================================================
