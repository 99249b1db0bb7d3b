# Restaurant reservations: a TLA+ verification of the API

The repository is a multi-tenant restaurant reservation system. Its core is the
NestJS API under `apps/api`, which keeps everything in Postgres (through Prisma) and
uses Redis for a cache, locks and rate limits. Web applications call it; two workers
and a reminder loop run beside it. Several API processes may serve requests at once,
so the interesting behaviour is what concurrent handlers do to shared rows.

This directory holds TLA+ modules translated from that code, TLC configurations that
check them on small instances, and proofs that TLAPS checks for every instance.

| module | what it is | runs | proofs |
|--------|------------|------|--------|
| `Booking` | reservations and holds: requests, transactions, locks, snapshots, expiry | `booking_*.cfg` with `MCBooking` | `BookingProofs`, `BookingExclusion`, `BookingHolds` |
| `Ledger` | what booking promises: an abstract ledger of claims on tables that `Booking` implements | `booking_status`, `booking_seating`, `booking_holds` | `BookingHolds` |
| `Waitlist` | entries, offers and their holds, guests' links, the promoter | `waitlist*.cfg` with `MCWaitlist` | `WaitlistProofs`, `WaitlistOffers` |
| `Offers` | what the waitlist promises: the abstract specification `Waitlist` implements | `waitlist.cfg` | `WaitlistOffers` |
| `Idempotency` | requests that share an Idempotency-Key | `idempotency.cfg` with `MCIdempotency` | `IdempotencyProofs` |
| `Delivery` | webhooks and notifications after a commit, their workers, requeues | `delivery.cfg` with `MCDelivery` | `DeliveryProofs` |
| `Outbox` | what delivery promises: an abstract outbox that `Delivery` implements | `delivery.cfg` | `DeliveryProofs` |
| `AvailabilityCache` | the cached answers of GET /v1/availability and their flush | `cache.cfg` with `MCAvailabilityCache` | `CacheProofs` |

`PROJECT.json` lists components, runs, mutants, the map to source lines, findings,
hazards and theorems. Run a check with `tlc -config booking_holds.cfg MCBooking.tla`, a
proof with `tlapm BookingProofs.tla`.

## 1. Inventory

Paths are relative to `src/apps/api/src` unless they start otherwise.

**Reservations** (`reservations.service.ts`). State: `Reservation` rows (slot, primary
table, status, party, guest) and `ReservationTableAssignment` rows (joined tables).
Operations: create, createFromHold, update, updateStatus, remove, guest modify and
cancel. create, createFromHold and update run a Serializable transaction that takes an
advisory lock on the slot, asks `findSlotConflicts`, and writes. update and updateStatus
first read the row outside it. After the commit they enqueue notifications and webhooks
and invalidate the availability cache. Correct when: no two live reservations of a slot
share a table; a hold becomes at most one reservation; statuses follow
`STATUS_TRANSITIONS`; `tableId` and the assignment rows agree.

**Holds** (`holds.service.ts`, `holds.cleanup.service.ts`). State: `Hold` rows (slot,
table or none, expiresAt, HELD, CONSUMED or EXPIRED). Operations: create (Serializable,
same slot lock), getValid and cancel (read, then an unconditional write), list (one
UPDATE of all that are due), the periodic sweep (SELECT of ids, UPDATE by id). Correct
when: a live hold keeps its table; a hold that stopped holding gives it back.

**Slot conflict check** (`utils/booking-conflicts.ts`). Live reservations (PENDING,
CONFIRMED, SEATED) and unexpired holds of the same start time that match the tables of
the request; a claim without a table is on all of them.

**Table assignment** (`seating.service.ts`, `utils/sync-table-assignments.ts`).
assignTables reads the reservation, then in a Serializable transaction locks every
(slot, table) in sorted order, checks conflicts, and rewrites primary table and
assignments. suggest enumerates combinations of joinable tables. Correct when: locks are
never waited for in a circle and an assignment never takes a table that is taken.

**Waitlist** (`waitlist/waitlist.service.ts`, `waitlist/waitlist.promoter.ts`). State:
entries WAITING, OFFERED, CONVERTED, EXPIRED, each with the hold of its offer and a
code. Operations: create, offer, expire, convert, resolveOfferCode, consumeOffer,
forceExpire; a promoter loops over the first ten waiting entries. An offer creates a hold
through Holds and then assigns it with a conditional update; the loser of a race cancels
its hold. Correct when: an offered entry owns exactly one hold, a booked entry stays
converted, no hold is left without an entry, every waiting entry that fits is offered.

**Idempotent requests** (`idempotency/`). A response stored per (key, method, path) and
a lock (Redis with a 30 s lifetime, or a Postgres session lock). Correct when: of the
requests with one key at most one runs its handler and all get one answer.

**Webhook and notification delivery** (`webhooks/`, `workers/webhooks.worker.ts`,
`notifications/`, `workers/notifications.worker.ts`). Outbox rows written after the
commit, polled by workers, retried with back-off up to five attempts; administrators
redeliver or requeue. Correct when: every committed booking is announced, attempts are
bounded, a final state stays final unless requeued.

**Availability cache** (`cache/cache.service.ts`, `availability.controller.ts`).
Read-through with a time to live, invalidated after writes. Correct when: an answer is
no older than the last completed write of that day.

**Availability policy and engine** (`availability.service.ts`, `availability/`). Pure
functions of shifts, pacing rules, blackouts, buffers and bookings.

**Rate limit and quota** (`rate-limit/`). Token buckets in Redis, or in memory when it
fails, and a monthly counter. Correct when: no more than burst plus refill is let through.

**Reminders** (`comms/reminder.worker.ts`) and **privacy**
(`privacy/privacy.service.ts`, `workers/privacy.retention.worker.ts`): read a batch, act,
then mark. Correct when: a cancelled booking is not reminded and an active one is not
anonymised.

**The rest**: guest links, floor plan, menus, market, provider portal, API keys and
tenants, policies administration, audit log, metrics, mail, time zones, encryption of
personal data, the web applications and the generated client. Sequential edits, reports,
rendering, input and output; each is listed in `PROJECT.json` with the reason it is left.

What is hard, across all of them: handlers read rows and act on them later; transactions
are Serializable but take their snapshot *before* they wait for a lock; different
handlers lock different keys; unique indexes ignore the status of a row; side effects
follow the commit without being part of it; timers race with answers. `PROJECT.json`
lists each hazard at its line.

## 2. Module `Booking`, specification `Ledger`

### State and processes

| variable | in the code |
|----------|-------------|
| `res` | `Reservation` rows; `tables` is their `ReservationTableAssignment` rows; `from` is the hold a conversion consumed |
| `hold` | `Hold` rows; `lapsed`: now >= expiresAt; `outlasts`: the slot starts before expiresAt |
| `pc`, `plan` | a request's position, and what its handler has read and is going to write |
| `got` | how many of its `pg_advisory_xact_lock`s a transaction has |
| `seen` | what `findSlotConflicts` returns on the transaction's snapshot |
| `doomed` | Postgres will refuse this transaction's write or commit |
| `stale`, `taint` | auxiliary: no action is guarded by them |

A request is a process. Its handler may read outside a transaction (`ReadFor...`), may
open a transaction (`Begin...`), acquires its locks one by one (`AcquireLock`), and ends
with a commit (`Commit...`), a single write (`WriteStatus`, `WriteExpired`) or a failure
(`Fail`, which is also a crash of the process). `Remove`, `ListHolds` and `Lapse` are one
statement, or one tick of the clock, and need no process.

Three decisions make the model say what the database does.

* **The snapshot comes before the wait.** In a Serializable transaction the first
  statement fixes the snapshot, and the first statement is the one that waits for the
  lock. So `TakesSnapshot` computes `seen` at once and `AcquireLock` follows. What
  commits during the wait is invisible to the conflict check.
* **What refuses the commit then.** `EndsWriting` dooms every open transaction that
  updates a row which was just written (first updater wins) and every rival: a
  transaction that read what the other wrote and wrote what the other read, which
  Serializable isolation never lets both commit. The predicate read is the conflict
  query (`Sees`). Postgres may refuse more; `Fail` is always possible.
* **A unique index is checked by the write.** `UniqueReservation` and `UniqueHold` are
  the indexes of `prisma/schema.prisma`: no status in them, NULL tables never collide.

Time is abstracted to the two Booleans of a hold. Venue, party size, guest data, event
messages and the cache are left out: no guard on claims depends on them, and every key,
index and query of these operations begins with the venue, so one venue stands for all.
Every slot is a (date, time) pair, as it is in the queries, which compare start times for
equality.

### The ledger

`Ledger` says in four actions what the tables are promised: a claim is taken (`Take`),
moved (`Move`), passed from a hold to a reservation (`Convert`) or ended (`End`), each in
one step that takes only spots, (slot, table) pairs, that belong to nobody else at that
moment; who has left the ledger never returns. It knows no requests, locks, snapshots or
isolation levels. Under the mapping of `Booking` a live reservation claims its tables, or
all tables of its slot if it has none; so does a live hold. Off the ledger are tainted
reservations, from the step that taints them, and holds that do not outlast the start of
their slot, which no conflict check reports: the exceptions of the findings below, and no
others. `OneLedger` is the refinement. It says more than the invariants of exclusion:
that the check and the write of a handler, apart in time, act as one step; that a
conversion has no moment at which its table is free; and that a cancelled, completed,
expired or consumed claim never comes back, whatever stale write arrives late.

### Runs

All instances have two concurrent requests; each request goes back to idle, so
behaviours are not limited to two requests in all, only to two at once and to the pool of
row ids. Two requests are enough for each hazard: every refusal, lock wait and stale read
is a relation between two requests, and the theorems below need no such bound. Model
values are symmetric (no property or guard tells them apart; tables are numbers, which
are ordered, and are not in the symmetry). Deadlock is not checked, since a state in
which all row ids are used and every reservation is removed has nothing left to do.

| run | instance | shows |
|-----|----------|-------|
| `booking_status` | 2 reservations, 1 table, 2 slots; create, update, updateStatus, remove | statuses and claims go wrong only through a request that worked on stale data; `OneLedger` |
| `booking_seating` | 2 reservations, 2 tables, 2 slots; create, update, assignTables with `<<2>>` and `<<1,2>>` | types; every transaction that can commit a claim has seen all that clashes; no circle of lock waits; `OneLedger` |
| `booking_holds` | 2 holds, 2 reservations, 1 table, 1 slot; create, hold, convert, cancel, sweep, list, clock | a hold is converted once; a hold that outlasts its slot's start keeps its table; no double booking; `OneLedger` |
| `booking_double` | the instance of `booking_seating` | violated: `NoDoubleBooking` |
| `booking_far_hold` | as `booking_holds`, 2 tables | violated: `HoldKeepsTable` |
| `booking_expired_hold` | as `booking_holds`, 2 tables, holds that outlast the start only | violated: `FreeTableCanBeHeld` |

### Findings

The three violated runs are disagreements between the code and what the repository says.

1. **Double booking** (`booking_double`). update computes what to check from a row read
   before its transaction, and checks the primary table only; a joined reservation moved
   to another slot takes its other tables along unchecked.
2. **Holds on later slots hold nothing** (`booking_far_hold`). The conflict check ignores
   a hold whose expiresAt is not after the start of the *slot*, although a hold lives for
   minutes and slots lie days ahead.
3. **An expired hold blocks its table for good** (`booking_expired_hold`): the unique
   index has no status, so the next hold on that table and slot is refused.

A fourth disagreement needs no run of its own: updateStatus checks the transition on a row
it read earlier and writes unconditionally, so a final status can be left. That is the
exception which `StatusLeavesTransitionsOnlyIfTainted` names.

`DoubleBookingOnlyIfTainted`, `StatusLeavesTransitionsOnlyIfTainted` and
`OutlastingHoldKeepsTable` say that these are the *only* ways to go wrong: everything
else the locks, the snapshot check, the indexes and the isolation level do prevent.

### Proofs

Assumptions: `ConstantsAssumption` (null values are not ids; tables are finitely many and their ids are numbers;
update requests have the fields of the DTO) and `SeatingsAssumption` (assignTables works
on a nonempty list of table ids in strictly increasing order: it removes duplicates and
sorts). They hold for any numbers of reservations, holds, tables, slots and requests.

* `Typing`: `TypeOK`. It is inductive as it stands because `Plan` records, for each
  operation, how the fields of what a handler means to write depend on each other.
* `RequestPhases`: `Phases`. Which operations can be where; used by all that follow.
* `ConversionSafety`: `ConvertedOnce`, by the invariant `Conversions`. The property alone
  is not inductive: one has to know that the hold of a conversion that may still commit is
  HELD. So `Conversions` adds it, and the step that ends a hold (another conversion, a
  cancel, a sweep) must doom every other conversion of it.
* `StatusSafety`: `StatusLeavesTransitionsOnlyIfTainted`, from `Reading`: until it is
  stale, what a request read is what the row still is.
* `ClashesAreSeen`: `SeesEveryClash`, the heart of the argument. When a reservation is
  written that clashes with the claim of an open transaction, either the writer saw that
  transaction's row, or the two are rivals and the transaction is doomed, or the writer
  is stale or moved a joined reservation and the row is tainted.
* `Exclusion`: `DoubleBookingOnlyIfTainted`. A commit needs `seen` free of reservations,
  and `SeesEveryClash` says that `seen` has every clash.

* `HoldsKeepTables`: `OutlastingHoldKeepsTable`. `SeesEveryHold` is for holds what
  `SeesEveryClash` is for reservations: a transaction that may claim has found every live
  hold in its way, except the one it converts. Then no commit puts a hold or an untainted
  reservation on the table of a live hold (`HoldsExclude`, `TablesKept`).
* `LocksAreFree`: `NoLockCycle`. Only assignTables waits while it has a lock, and then
  for a later table than those it has (`WaitsUpwards`); as tables are finitely many, some
  request of any set waits for none of the others.

* `LedgerImplemented`: `OneLedger`. The invariant `Exclusive` collects what was proved
  before (types, exclusion, holds apart) and adds `Placed`: every claim is of a slot that
  exists. In each state the claims are then sets of spots that do not meet
  (`LedgerShape`), and a step is mapped by what it does to the claims: all are the same or
  ended (`EndStep`), one is granted or moved (`GrantStep`), or one is converted
  (`ConvertStep`, where `Conversions` says that the hold was still HELD). Each handler's
  write is one of these; everything else stutters.

The exceptions in these theorems are exactly the findings, as three theorems without
exception show. Their hypotheses are on the constants, and instances of the runs meet
them.

* `CreationsExclude`: where reservations are only created, converted from holds and
  deleted, `NoDoubleBooking` holds for any number of requests at once (`Untouched`: no
  reservation is ever tainted).
* `OneByOneExcludes`: where requests come one after the other and no tables are joined,
  `NoDoubleBooking` holds for every mix of operations, with deletions and the clock in
  between (`Undisturbed`: a request that is stale finds its reservation gone). So each
  double booking takes a race or a joined reservation.
* `LastingHoldsKeepTables`: where no request changes a reservation and every hold outlasts
  the start of its slot, `HoldKeepsTable` holds.

Every property of the passing runs of `Booking` is proved. There is no liveness property:
its handlers run once and fail.

### Not modelled in this component

`HoldsService.consume` has no caller. Edits of guest data claim nothing. Guest
time windows and party-size checks only refuse requests (`Fail`). createFromHold also
marks the waitlist entry of its hold CONVERTED, which is in `Waitlist`. What follows the
commit is in `Delivery` and `AvailabilityCache`. The set of tables is constant.

## 3. Module `Waitlist`, specification `Offers`

### State and processes

| variable | in the code |
|----------|-------------|
| `entry` | `Waitlist` rows: status, holdId, and whether offerToken is not null (offerCode goes with holdId) |
| `hold` | `Hold` rows made by offers; `lapsed`: now >= expiresAt |
| `req` | the request's position and what it has read: an API call, or the promoter's current offer |
| `batch` | the candidates the promoter has left in its cycle |
| `sweeping` | the ids a sweep has selected |
| `faults` | failed statements, refused holds and crashes so far |
| `offered`, `astray` | auxiliary: the hold an entry was offered; holds that a fault, a blind write or a booking before the assignment set adrift |

No two statements of a waitlist request share a transaction, so each is an action: an
offer is `ReadForOffer`, `MakeHold` (the transaction of `HoldsService.create`),
`AssignOffer` or `AssignNothing` (`updateMany where status = WAITING`), and the second read
(`OfferReturns`, or `AssignErrs` when it fails). Giving a hold back is a read and an
unconditional write inside `safeCancelHold`, which swallows errors (`ReadForCancel`,
`VoidHold`, `CancelErrs`). `expire` and `resolveOfferCode` give the hold back and then
`Close` the entry, unconditionally. A booking is one Serializable transaction: its snapshot
(`BeginBook`) and its commit (`CommitBook`), refused when rows it read were written between.
The promoter polls, takes the first candidate, looks for a slot and offers. The sweep is
the one of `Booking`.

The loser of a race gives its hold back twice, as `ConflictException` is thrown inside the
`try`; the second attempt is left out, so a fault in the first counts as a hold adrift.
Tables, times and the choice of the slot are abstracted: `Fits` are the entries for which
`findSlot` finds one. The mail and the audit record change no state of the model.

### Properties and runs

* `LiveHoldHasOwner`: no table is blocked for nobody. The exceptions are in `astray` and
  each is a statement of the code: a crash or error between hold and assignment, a
  swallowed error of a cancellation, a `Close` over an offer made since the row was read.
* `BookedEntryIsConverted`: nobody is left OFFERED a booked table.
* `OneOfferEach`: `Waitlist` implements `Offers` (`INSTANCE Offers WITH status <- ...`),
  in which an entry leaves WAITING for OFFERED in one step that pairs it, for ever, with
  one hold. Two writes and any number of racing offers implement that step.
* `EveryHoldEnds`, `FittingEntryIsServed`: liveness, below.
* `BookedStaysConverted`: what `docs/waitlist.md` says of a booking; violated.

| run | instance | shows |
|-----|----------|-------|
| `waitlist` | 2 entries that fit, 2 holds, promoter and 1 caller with every operation, 1 fault | the first three, with types; 2.2 million states up to symmetry of the holds |
| `waitlist_live` | 2 entries of which the first fits nothing, 3 holds, expire by staff, 2 faults | both liveness properties |
| `waitlist_reopened` | 1 entry, 1 hold, no fault; resolve, consume, book | violated: a link opened again after the booking makes a CONVERTED entry EXPIRED |

Two processes are enough for a race of two offers, of an offer and an expiry, and of a
booking and a cancellation; the proofs cover any number. Two entries and batches of
one or two show starvation: the order of entries is fixed (priority and time of joining
do not change), so what matters is who stands before an entry.

Fairness: a request that was started proceeds (`WF` of its own steps), time passes
(`Lapse`), and the timers of the sweep and the promoter, both `setInterval`-like loops of
60 s, go off again and again. None of it makes a caller start a request, or a
fault happen or not happen; faults are finite. Under this fairness a hold that was set
adrift ends by the sweep, and an entry that fits is served if fewer than `BATCH_SIZE`
entries before it fit nothing. Without that condition the code starves it: the promoter
always takes the same first ten.

### Proofs

`Typing` first. `Ownership` (module `WaitlistOffers`) is the inductive invariant of the rest:
a hold in the hands of a request that is about to assign it is in nobody else's hands and
was offered to nobody (`AssignsOwn`, `Fresh`), an entry's hold is the one it was offered
(`History`), whoever is about to close an entry has seen its hold end (`ClosesEnded`), and
the two properties themselves. Without `AssignsOwn` two entries could be given one hold;
without `ClosesEnded` an expiry could leave a live hold behind. From it `HoldsHaveOwners`,
`BookingConverts`, and the refinement `OffersImplemented`: every step of `Waitlist` is a
`Join`, an `Offer`, a `Settle` or a stutter of `Offers`. They hold for any numbers of
entries, holds, requests and faults. Liveness is only model-checked.

## 4. Module `Idempotency`

One key; `row` is its `IdempotencyKey` row (none, stored, expired), `lock` how often each
session holds the key's lock: Redis counts as one session with `SET NX PX`, Postgres
sessions lock re-entrantly, and Prisma runs each statement on any connection of its pool.
`Begin` to `ReleaseLock` are the statements of `IdempotencyInterceptor.intercept` and
`IdempotencyService` in their order; `LockErrs`, `HandleErrs`, `StoreErrs`, `ReleaseErrs`
and `Crash` are their error paths. `LapseLock` (30 s), `ExpireEntry` (24 h), `Cleanup` and
`Disconnect` are the clock and the database. A request that finds a stored response is
answered by it or by 409, so requests are not told apart by path and body.

* `HandlersExclude`: handlers overlap only when a lock ended under its holder, or when both
  locked on one Postgres session. That a release deletes whoever's lock there is does
  not matter before a lock has lapsed.
* `OneEffect`: requests with one key take effect once, but for the causes `excused`
  records, each at a statement: the lock was taken after a response had been stored
  unnoticed (there is no second look), handlers overlapped, a response was not stored, or
  it expired.
* `LockIsFreed`: with Redis no request or crash blocks the key for good. It needs weak
  fairness of the requests' own steps and of the expiry. With Postgres it is false: a
  lock released on another connection stays until its session ends.

Run `idempotency`: 3 requests, 2 sessions, 2 effects, lock depth 2, 1 fault; three
requests are needed for the release of a lock that is a third one's. Bounds are guards
(`Effects`, `Depth`, `Faults`); a request whose effect would exceed `Effects` waits, after
the property has already been decided at the second effect.

Proofs: `EffectsOnce` by `Once`, which adds that as long as nothing excuses it there is at
most one running request, and none once the effect is stored; `Exclusion` by `Held`:
unless a lock lapsed, all requests between lock and release have it on one session, which
counts at least as many locks as there are such requests. That count is the strengthening: a
release on the right session must not free a lock that others still have.
`LockIsFreed` is only model-checked.

Where docs and code disagree (`docs/perf/idempotency-and-cache.md`): line 18 says Redis is
not used for idempotency; line 12 promises 409 for a key used on a different route, but the
stored path is the route's *pattern* (`idempotency.interceptor.ts:156`), so one
key on two `:id`s replays the first answer.

## 5. Module `Delivery`

A job `<<c, k>>` is the row that change `c` of a reservation writes into the table of kind
`k` (`WebhookDelivery`, `NotificationOutbox`); `job` has its status and attempts, `due` the
PENDING rows of a kind whose time has come, in the order in which workers read them;
`worker` is a worker's batch, a copy of the rows it read; `lost` are rows that will not be
written; `asks` are requeues between their read and their write. `sends`, `accepted`,
`requeued` and `owed` are auxiliary.

`Enqueue` is the transaction of `enqueueReservationEvents`, for each kind, after the commit;
`EnqueueErrs` its error, which is logged, and `CrashApi` the death of the process in
between. `Poll`, `Send`, `RecordSuccess` and `RecordFailure` are the loop of both workers;
a failed success update is handled like a failed send (`SuccessErrs`), and a failed failure
update ends the job or, for notifications, the batch (`FailureErrs`). `Redeliver` and
`ReadForRequeue`, `Requeue` are the staff's. The length of a backoff is abstracted to
`ComesDue`.

* `RecordIsHonest`: DONE was accepted, FAILED was sent `MAX_ATTEMPTS` times, and no attempt
  is counted that was not made, whatever copies are written and reset.
* `SendsAreBounded`, `SettledStaysSettled`: with one worker of a kind (as deployed), nobody
  is sent the same thing for ever, and what is settled changes only when staff queue it.
  With two workers both are false: no row is claimed before it is sent.
* `EveryJobSettles`, `RequeuedIsSent`: whatever is owed for a commit, and was not lost
  before it was written, is delivered or given up; what is queued again is sent again
  unless a worker held the old row: then its outcome overwrites the redelivery.

* `OutboxKept`: `Delivery` implements `Outbox`, the abstract specification with the status
  of each job and no rows, batches, workers or faults: only committed changes are told of,
  only pending jobs are sent, a job is done when it was accepted and given up after
  `MAX_ATTEMPTS` sends, only staff bring it back, and it can be lost before its row is
  written but not afterwards. The mapping shows a job of `lost` as lost and every other
  job by its row.

Run `delivery`: two changes, a webhook each and one notification (the other guest left
no contact), one worker of each kind, batches of two, two attempts, one requeue, one
fault. Two attempts show retry and giving up; a batch of two shows a row that
changes while the worker is busy with the one before it. Fairness: a request whose
transaction committed writes its rows, workers are restarted by their supervisor and
loop, and time passes. Endpoints answer as they like.

Proofs: `HonestRecord` for any number of workers, by `CopiesAreHonest`: a copy in a batch
never counts more attempts than were sent, and a worker about to record a success was
accepted. `SettledForGood` by `Settling`: rows in `due` and rows later in a batch are PENDING
and appear once. `BoundedSends` by `Spending`: what was sent for a row is covered by the
attempts that the row, or the worker's copy of it, counts, by `MAX_ATTEMPTS` for each
requeue and by one for each fault. `OutboxImplemented`: with one worker of a kind every
step is a step of `Outbox` or a stutter; `Settling` gives that the job a worker is at is
PENDING, `HonestRecord` that it is accepted or was sent often enough when its end is
recorded, and `Tracked` that a lost job has no row and a requested requeue has one. With
two workers of a kind it is false, since a stale copy then sends a job that is done.
Liveness is only model-checked.

Docs: `docs/webhooks.md` tells of up to eight attempts with exponential backoff and
of one WEBHOOK_SECRET; the code has five attempts on a fixed schedule and a secret for each
endpoint. A delivery that was accepted but could not be recorded is sent again, and marked
FAILED if it was the last attempt.

## 6. Module `AvailabilityCache`

One venue and day. `place` has the kinds of claims on each place (a table at a time):
none, a hold, a reservation, or both, since a reservation can be made beside a hold that
the conflict check does not report (`booking-conflicts.ts:173`, finding 2 of section 2) and
the check compares equal start times (`:95`) where availability looks for overlaps.
`changes` counts commits; `entry` is the cached answer of each key, told apart by its age;
`reader` is a GET request between its steps `Ask`, `ReadFirst`, `ReadSecond` (reservations
and holds are two queries of a `Promise.all`) and `Set` (a call nobody waits for).

A `Commit` makes, moves or ends claims of one kind (`Alters`) or converts a hold
(`Converts`), on any number of places; others may remain on them. `writer` is the request
that made it and then flushes key by key, as the SCAN of `invalidateAvailability` meets them.
`FlushStops` is an enqueue that throws before the flush, a crash, or Redis failing. Two
changes flush nothing at all: `AssignTables` (`seating.service.ts:244-283`) and `HoldsLapse`,
the time of a hold being over, whether or not it is swept. A query that fixed its `now`
just before that still counts the hold; this can only make an answer say "taken", which
no property is about. `passed`, `raced` and the fields `wasFree` and `torn` of a request are
auxiliary.

* `StaleOnlyIfRaced`: after the flush of a change has gone over a key, the key's entry is
  older than the change only if its fill was reading while the flush went over it.
* `FreeWasFree`: an answer "free" was true at some time while it was computed, unless
  between the two queries a claim of the kind that was read first was laid over one of the
  other kind. That happens when a hold is converted, and also when a reservation is made
  beside a hold, which then ends before the holds are read (or a hold beside a reservation,
  the holds being read first). Then a place that was never free is answered free.
* `StaleAnswersEnd`: when nothing changes any more, every entry comes to agree with the last
  change, whatever flushes failed, raced or never began. Fairness: requests go on and the
  45 s pass.

Run `cache`: one place, one key, two readers, two writers, three changes, one fault; the
place starts free, held, booked or both. Two readers are needed to store over each other's
answers, two writers to flush in the other order than they committed, and three changes
for an entry that is stale against one of them and not the others. A wrong "free" without
a conversion takes a hold, a reservation beside it and the end of the hold, and is reached:
with conversions as the only exception the run fails. A second place adds nothing, since every
property is about one key or one place. Nor does a second key: each step of a reader or a
flush is about one key, and for a key that a flush has not reached, a flush half done is one
that has not begun. `Freshness` is proved for any number of keys.

Proofs: `Freshness` by `Bounded` (no change has a number above `changes`, and a fill that has
read before a flushed change is in `raced`); `FreeTruth` by `Truthful`: once half of an
answer says "free", the place was free, or was torn, or has no claims but of the kind yet
to be read. No restriction of the changes enters that proof: it holds whatever a commit does
to whichever places, so it does not depend on which overlaps the conflict check lets through.

Docs (`docs/perf/idempotency-and-cache.md`): it says that the key includes a hash of
time, area and table; the key has the policy's hash only (`cache.service.ts:97`), so an answer
to another question of the same day and party size is returned. It says 30 to 60
seconds, the code 45; that mutations flush immediately, but a failed enqueue skips the flush
(`reservations.service.ts:624`), a racing fill survives it, and assignTables, the sweep,
list and getValid change reservations and holds without any.

## 7. How the modules compose

The modules share the rows but not their states: each takes from its neighbours what its
properties need. `Booking` has the whole of a conversion; `Waitlist` sees it as the two
steps that touch an entry. A hold's life in `Waitlist` is the one `Booking` checks,
restricted to holds made by offers. What a commit of `Booking` means to the other two depends
on the operation. Creates, conversions, updates and status changes are a `Commit` of
`Delivery` when they have events to announce; holds, removals and assignments enqueue
nothing. All of them but the assignments are a `Commit` of `AvailabilityCache`, which flushes;
assignments are its `AssignTables`, and expiry is its `HoldsLapse`. A composed module would
multiply state spaces of millions without a property that spans more than these two steps.

## 8. Bounds, fairness and proofs in general

`Faults`, `Requeues`, `Changes`, `Effects` and `Depth` are guards of actions and named
constants. The theorems hold for all their values, and for any numbers of processes and
rows, under the assumptions the modules name. Out of the prover's reach, and therefore with
TLC only, are liveness under fairness and ENABLED. `CHECK_DEADLOCK FALSE` stands where
a bounded system really stops: all ids are used or all jobs settled.

## 9. Not modelled

* **Availability policy and engine, seating suggestions, calendar time**: functions of
  rows that change no state; sequential, and tested by examples.
* **Rate limits and quota**: an atomic Redis script and counters. The fallback without
  Redis reads another key than it writes (`rate-limit-usage.service.ts:89`): a
  sequential fault that a test of two requests shows.
* **Reminders, privacy**: batch read, act, mark, without a count or state of their own.
* **Floor plan edits, policy edits, menus, tenants, keys**: edits of rows which the
  models take as constant. Deleting a table under live claims is among the hazards.
* **Mail, audit, metrics, encryption, web applications, generated code**: input and output.

## 10. What could follow

Abstract specifications that `Idempotency` and `AvailabilityCache` implement; dropping a
table as an action of `Booking`; pure operators for the availability engine against a
reference definition.
