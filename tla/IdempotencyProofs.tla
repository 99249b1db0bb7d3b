-------------------------- MODULE IdempotencyProofs --------------------------
(* Theorems about the safety part of Idempotency, for any number of requests *)
(* with the key and of Postgres sessions.                                    *)
EXTENDS Idempotency, FiniteSetTheorems, TLAPS

-----------------------------------------------------------------------------
(* Types.                                                                    *)

Locker == Session \cup {redis}
Request == [at : Places, session : Locker, missed : BOOLEAN]

LEMMA IdleType == Idle \in Request
BY DEF Idle, Request, Locker, Places

\* A request that moves, answers or turns to releasing stays a request.
LEMMA MovesType ==
  ASSUME TypeOK, NEW p \in Proc, NEW place \in Places,
         Goes(p, place) \/ Answers(p) \/ Releases(p)
  PROVE  req' \in [Proc -> Request]
<1>1. [Idle EXCEPT !.at = "release"] \in Request
  BY DEF Idle, Request, Locker, Places
<1>2. req \in [Proc -> Request]
  BY DEF TypeOK, Request, Locker
<1>3. QED
  BY <1>1, <1>2, IdleType DEF Goes, Answers, Releases, Request

\* TypeOK with the requests' type named.
LEMMA TypeForm ==
  ASSUME TypeOK
  PROVE  req \in [Proc -> Request] /\ lock \in [Locker -> Nat]
BY DEF TypeOK, Request, Locker

LEMMA AcquireType ==
  ASSUME TypeOK, NEW p \in Proc, AcquireLock(p)
  PROVE  TypeOK'
<1>1. PICK s \in Clients :
        IF MayLock(s)
          THEN /\ lock' = [lock EXCEPT ![s] = IF s = redis THEN 1 ELSE @ + 1]
               /\ req' = [req EXCEPT ![p].at = "handle", ![p].session = s]
               /\ excused' = (excused \/ req[p].missed \/ \E q \in Proc : Running(q))
          ELSE Answers(p) /\ UNCHANGED <<lock, excused>>
  BY DEF AcquireLock
<1>2. s \in Locker /\ backend = IF s = redis THEN "redis" ELSE "postgres"
  BY IdempotencyAssumption DEF Clients, Locker, TypeOK
<1>3. CASE MayLock(s)
  <2>1. req' \in [Proc -> Request]
    BY <1>1, <1>2, <1>3, TypeForm DEF Request, Places
  <2>2. /\ lock' \in [Locker -> Nat] /\ lock'[redis] <= 1
        /\ \A t \in Locker : lock'[t] > 0 => lock[t] > 0 \/ t = s
    BY <1>1, <1>2, <1>3, TypeForm DEF TypeOK, Locker
  <2>3. excused' \in BOOLEAN
    BY <1>1, <1>3 DEF TypeOK, Request
  <2>4. QED
    BY <1>2, <2>1, <2>2, <2>3 DEF AcquireLock, TypeOK, Request, Locker
<1>4. CASE ~MayLock(s)
  BY <1>1, <1>4, MovesType DEF AcquireLock, TypeOK, Request, Locker, Places
<1>5. QED
  BY <1>3, <1>4

LEMMA ReleaseType ==
  ASSUME TypeOK, NEW p \in Proc, ReleaseLock(p)
  PROVE  TypeOK'
<1>1. PICK s \in Clients : lock' = [lock EXCEPT ![s] = IF @ > 0 THEN @ - 1 ELSE 0]
  BY DEF ReleaseLock
<1>2. lock' \in [Locker -> Nat] /\ \A t \in Locker : lock'[t] <= lock[t]
  BY <1>1, TypeForm DEF Clients, Locker
<1>3. req' \in [Proc -> Request]
  BY MovesType DEF ReleaseLock, Places
<1>4. lock'[redis] <= 1 /\ \A t \in Locker : lock'[t] > 0 => lock[t] > 0
  BY <1>2, TypeForm DEF TypeOK, Locker
<1>5. QED
  BY <1>2, <1>3, <1>4 DEF ReleaseLock, TypeOK, Request, Locker, service

\* Looking for a response, and running the handler.
LEMMA WorksType ==
  ASSUME TypeOK, NEW p \in Proc,
         \/ Begin(p) \/ FindEntry(p) \/ PurgeEntry(p) \/ Handle(p) \/ HandleRejects(p)
         \/ LockErrs(p) \/ HandleErrs(p) \/ StoreErrs(p) \/ ReleaseErrs(p) \/ Crash(p)
  PROVE  TypeOK'
<1>1. \/ \E place \in Places : Goes(p, place)
      \/ Answers(p)
      \/ Releases(p)
  <2>1. \/ Goes(p, "find") \/ Goes(p, "lock") \/ Goes(p, "purge") \/ Goes(p, "store")
        \/ Goes(p, "reject") \/ Answers(p) \/ Releases(p)
    BY DEF Begin, FindEntry, PurgeEntry, Handle, HandleRejects, LockErrs, HandleErrs,
           StoreErrs, ReleaseErrs, Crash, TypeOK
  <2>2. QED
    BY <2>1, Zenon DEF Places
<1>2. req' \in [Proc -> Request]
  BY <1>1, MovesType DEF Places
<1>3. UNCHANGED <<backend, lock, lapsed>>
  BY DEF Begin, FindEntry, PurgeEntry, Handle, HandleRejects, LockErrs, HandleErrs,
         StoreErrs, ReleaseErrs, Crash, service
<1>4. row' \in {"none", "stored", "expired"}
  BY DEF Begin, FindEntry, PurgeEntry, Handle, HandleRejects, LockErrs, HandleErrs,
         StoreErrs, ReleaseErrs, Crash, service, TypeOK
<1>5. effects' \in 0..Effects /\ faults' \in 0..Faults
  <2>1. /\ effects' = effects \/ (effects < Effects /\ effects' = effects + 1)
        /\ faults' = faults \/ (faults < Faults /\ faults' = faults + 1)
    BY DEF Begin, FindEntry, PurgeEntry, Handle, HandleRejects, LockErrs, HandleErrs,
           StoreErrs, ReleaseErrs, Crash, Fault, service
  <2>2. QED
    BY <2>1, IdempotencyAssumption DEF TypeOK
<1>6. excused' \in BOOLEAN
  BY DEF Begin, FindEntry, PurgeEntry, Handle, HandleRejects, LockErrs, HandleErrs,
         StoreErrs, ReleaseErrs, Crash, service, TypeOK
<1>7. QED
  BY <1>2, <1>3, <1>4, <1>5, <1>6 DEF TypeOK, Request, Locker

LEMMA StoreType ==
  ASSUME TypeOK, NEW p \in Proc, StoreResponse(p)
  PROVE  TypeOK'
<1>1. req' \in [Proc -> Request]
  <2>1. [Idle EXCEPT !.at = "release"] \in Request
    BY DEF Idle, Request, Locker, Places
  <2>2. \A q \in Proc : [req[q] EXCEPT !.missed = TRUE] \in Request
    BY TypeForm DEF Request
  <2>3. QED
    BY <2>1, <2>2, TypeForm DEF StoreResponse
<1>2. QED
  BY <1>1 DEF StoreResponse, TypeOK, Request, Locker, service

LEMMA ClockType ==
  ASSUME TypeOK,
         LapseLock \/ (\E s \in Session : Disconnect(s)) \/ ExpireEntry \/ Cleanup
  PROVE  TypeOK'
<1>1. CASE LapseLock
  BY <1>1 DEF LapseLock, TypeOK
<1>2. CASE \E s \in Session : Disconnect(s)
  BY <1>2, IdempotencyAssumption DEF Disconnect, Fault, TypeOK
<1>3. CASE ExpireEntry \/ Cleanup
  BY <1>3 DEF ExpireEntry, Cleanup, service, TypeOK
<1>4. QED
  BY <1>1, <1>2, <1>3

\* Type correctness of every variable, for any number of requests and sessions; the
\* bounds on effects and faults and the two kinds of locks are part of it.
THEOREM Typing == Safety => []TypeOK
<1>1. Init => TypeOK
  <2>1. SUFFICES ASSUME Init PROVE TypeOK
    OBVIOUS
  <2>2. req = [p \in Proc |-> Idle] /\ lock = [s \in Locker |-> 0]
    BY <2>1 DEF Init, Locker
  <2>3. req \in [Proc -> Request]
    BY <2>2, IdleType
  <2>4. /\ lock \in [Locker -> Nat]
        /\ \A s \in Locker : lock[s] = 0
    BY <2>2
  <2>5. /\ backend \in {"redis", "postgres"}
        /\ row = "none" /\ effects = 0 /\ faults = 0
        /\ lapsed \in BOOLEAN /\ excused \in BOOLEAN
    BY <2>1 DEF Init
  <2>6. QED
    BY <2>3, <2>4, <2>5, IdempotencyAssumption DEF TypeOK, Request, Locker
<1>2. TypeOK /\ [Next]_vars => TypeOK'
  <2>1. SUFFICES ASSUME TypeOK, Next PROVE TypeOK'
    BY DEF vars, TypeOK
  <2>2. CASE \E p \in Proc : AcquireLock(p) \/ ReleaseLock(p) \/ StoreResponse(p)
    BY <2>1, <2>2, AcquireType, ReleaseType, StoreType
  <2>3. CASE \E p \in Proc :
          \/ Begin(p) \/ FindEntry(p) \/ PurgeEntry(p) \/ Handle(p) \/ HandleRejects(p)
          \/ LockErrs(p) \/ HandleErrs(p) \/ StoreErrs(p) \/ ReleaseErrs(p) \/ Crash(p)
    BY <2>1, <2>3, WorksType
  <2>4. CASE LapseLock \/ (\E s \in Session : Disconnect(s)) \/ ExpireEntry \/ Cleanup
    BY <2>1, <2>4, ClockType
  <2>5. QED
    BY <2>1, <2>2, <2>3, <2>4 DEF Next, Proceeds, Fails
<1>3. QED
  BY <1>1, <1>2, PTL DEF Safety
-----------------------------------------------------------------------------
(* One effect.                                                               *)

\* Without an excuse at most one request runs, it runs before a response is stored,
\* and once the effect is there it is on its way to the store or stored; a request
\* that may still lock knows when it has missed the response.
Once ==
  ~excused =>
    /\ effects <= 1
    /\ row # "expired"
    /\ \A p \in Proc : ~At(p, "purge")
    /\ \A p, q \in Proc : Running(p) /\ Running(q) => p = q
    /\ \A p \in Proc : Running(p) => row = "none"
    /\ \A p \in Proc : At(p, "lock") /\ row = "stored" => req[p].missed
    /\ effects = 1 => row = "stored" \/ \E p \in Proc : At(p, "store")

\* Only request p moves.
Others(p) == \A q \in Proc \ {p} : req'[q] = req[q]

\* p goes to a place where it neither runs nor may lock.
LEMMA LeavesKeepsOnce ==
  ASSUME TypeOK, Once, NEW p \in Proc, Others(p), UNCHANGED <<row, effects>>,
         req'[p].at \in {"idle", "find", "release"}, ~At(p, "store"),
         excused' = excused
  PROVE  Once'
BY DEF Once, Others, At, Running, TypeOK

LEMMA MoveFacts ==
  ASSUME TypeOK, NEW p \in Proc
  PROVE  /\ \A place \in Places :
              Goes(p, place) => Others(p) /\ req'[p] = [req[p] EXCEPT !.at = place]
         /\ Answers(p) => Others(p) /\ req'[p] = Idle
         /\ Releases(p) => Others(p) /\ req'[p].at = "release"
BY DEF TypeOK, Goes, Answers, Releases, Others, Idle

LEMMA SearchKeepsOnce ==
  ASSUME TypeOK, Once, NEW p \in Proc,
         Begin(p) \/ FindEntry(p) \/ PurgeEntry(p) \/ LockErrs(p)
  PROVE  Once'
<1>1. CASE Begin(p)
  BY <1>1, LeavesKeepsOnce, MoveFacts DEF Begin, service, At, Places, TypeOK
<1>2. CASE FindEntry(p)
  <2>1. CASE row = "none" /\ Goes(p, "lock")
    <3>1. Others(p) /\ req'[p].at = "lock" /\ UNCHANGED <<row, effects, excused>>
      BY <1>2, <2>1, MoveFacts DEF FindEntry, service, Places, TypeOK
    <3>2. At(p, "find")
      BY <1>2 DEF FindEntry
    <3>3. QED
      BY <2>1, <3>1, <3>2 DEF Once, Others, At, Running
  <2>2. CASE row = "stored" /\ Answers(p)
    BY <1>2, <2>2, LeavesKeepsOnce, MoveFacts DEF FindEntry, service, At, Idle
  <2>3. CASE row = "expired"
    BY <1>2, <2>3 DEF FindEntry, service, Once
  <2>4. QED
    BY <1>2, <2>1, <2>2, <2>3 DEF FindEntry, TypeOK
<1>3. CASE PurgeEntry(p)
  BY <1>3 DEF PurgeEntry, Once, At
<1>4. CASE LockErrs(p)
  BY <1>4, LeavesKeepsOnce, MoveFacts DEF LockErrs, service, At, Idle
<1>5. QED
  BY <1>1, <1>2, <1>3, <1>4

LEMMA AcquireKeepsOnce ==
  ASSUME TypeOK, Once, NEW p \in Proc, AcquireLock(p)
  PROVE  Once'
<1>1. SUFFICES ASSUME ~excused' PROVE Once'
  BY DEF Once
<1>2. PICK s \in Clients :
        IF MayLock(s)
          THEN /\ lock' = [lock EXCEPT ![s] = IF s = redis THEN 1 ELSE @ + 1]
               /\ req' = [req EXCEPT ![p].at = "handle", ![p].session = s]
               /\ excused' = (excused \/ req[p].missed \/ \E q \in Proc : Running(q))
          ELSE Answers(p) /\ UNCHANGED <<lock, excused>>
  BY DEF AcquireLock
<1>3. CASE MayLock(s)
  <2>1. ~excused /\ ~req[p].missed /\ \A q \in Proc : ~Running(q)
    BY <1>1, <1>2, <1>3
  <2>2. row = "none" /\ effects # 1
    BY <2>1 DEF AcquireLock, Once, At, Running, TypeOK
  <2>3. Others(p) /\ req'[p].at = "handle"
    BY <1>2, <1>3 DEF Others, TypeOK
  <2>4. QED
    BY <2>1, <2>2, <2>3 DEF AcquireLock, Once, Others, At, Running, TypeOK
<1>4. CASE ~MayLock(s)
  BY <1>2, <1>4, LeavesKeepsOnce, MoveFacts DEF AcquireLock, At, Idle
<1>5. QED
  BY <1>3, <1>4

LEMMA HandlerKeepsOnce ==
  ASSUME TypeOK, Once, NEW p \in Proc, Handle(p) \/ HandleRejects(p) \/ HandleErrs(p)
  PROVE  Once'
<1>1. SUFFICES ASSUME ~excused' PROVE Once'
  BY DEF Once
<1>2. ~excused /\ UNCHANGED <<row, excused>>
  BY <1>1 DEF Handle, HandleRejects, HandleErrs, service, TypeOK
<1>3. Running(p) /\ ~At(p, "store") /\ effects # 1
  BY <1>2 DEF Handle, HandleRejects, HandleErrs, Once, Running, At
<1>4. CASE Handle(p)
  <2>1. effects = 0 /\ effects' = 1
    BY <1>2, <1>3, <1>4, IdempotencyAssumption DEF Handle, Once, TypeOK
  <2>2. Others(p) /\ req'[p].at = "store"
    BY <1>4, MoveFacts DEF Handle, Places, TypeOK
  <2>3. QED
    BY <1>2, <1>3, <2>1, <2>2 DEF Once, Others, At, Running
<1>5. CASE HandleRejects(p)
  <2>1. Others(p) /\ req'[p].at = "reject" /\ effects' = effects
    BY <1>5, MoveFacts DEF HandleRejects, Places, TypeOK
  <2>2. QED
    BY <1>2, <1>3, <2>1 DEF Once, Others, At, Running
<1>6. CASE HandleErrs(p)
  <2>1. effects' = effects /\ Others(p) /\ req'[p].at = "release"
    BY <1>1, <1>6, MoveFacts DEF HandleErrs, Places, TypeOK
  <2>2. QED
    BY <1>2, <1>3, <2>1, LeavesKeepsOnce
<1>7. QED
  BY <1>4, <1>5, <1>6

LEMMA StoreKeepsOnce ==
  ASSUME TypeOK, Once, NEW p \in Proc,
         StoreResponse(p) \/ StoreErrs(p) \/ ReleaseLock(p) \/ ReleaseErrs(p) \/ Crash(p)
  PROVE  Once'
<1>1. SUFFICES ASSUME ~excused' PROVE Once'
  BY DEF Once
<1>2. ~excused /\ UNCHANGED <<effects, excused>>
  BY <1>1 DEF StoreResponse, StoreErrs, ReleaseLock, ReleaseErrs, Crash, service, TypeOK
<1>3. CASE StoreResponse(p)
  <2>1. row = "none" /\ row' = "stored"
    BY <1>2, <1>3 DEF StoreResponse, Once, Running, At
  <2>2. /\ req'[p].at = "release"
        /\ \A q \in Proc \ {p} : req'[q] = IF At(q, "lock")
                                             THEN [req[q] EXCEPT !.missed = TRUE]
                                             ELSE req[q]
    BY <1>3 DEF StoreResponse, Idle
  <2>3. \A q \in Proc : req'[q].at = IF q = p THEN "release" ELSE req[q].at
    BY <2>2 DEF TypeOK
  <2>4. \A q \in Proc : At(q, "lock")' => req'[q].missed
    BY <2>2, <2>3 DEF At, TypeOK
  <2>5. \A q \in Proc : ~Running(q)'
    BY <1>2, <1>3, <2>3 DEF StoreResponse, Once, Running, At
  <2>6. QED
    BY <1>2, <2>1, <2>3, <2>4, <2>5 DEF Once, At
<1>4. CASE StoreErrs(p)
  <2>1. At(p, "reject") /\ Answers(p) /\ row' = row
    BY <1>1, <1>4 DEF StoreErrs, At
  <2>2. QED
    BY <1>2, <2>1, LeavesKeepsOnce, MoveFacts DEF At, Idle
<1>5. CASE ReleaseLock(p) \/ ReleaseErrs(p)
  BY <1>2, <1>5, LeavesKeepsOnce, MoveFacts DEF ReleaseLock, ReleaseErrs, At, Idle
<1>6. CASE Crash(p)
  <2>1. ~At(p, "store")
    BY <1>1, <1>6 DEF Crash
  <2>2. QED
    BY <1>2, <1>6, <2>1, LeavesKeepsOnce, MoveFacts DEF Crash, Idle
<1>7. QED
  BY <1>3, <1>4, <1>5, <1>6

LEMMA ClockKeepsOnce ==
  ASSUME TypeOK, Once,
         LapseLock \/ (\E s \in Session : Disconnect(s)) \/ ExpireEntry \/ Cleanup
  PROVE  Once'
BY DEF LapseLock, Disconnect, ExpireEntry, Cleanup, service, Once, At, Running

\* One key, one effect: whatever the requests, their order and the faults, a handler
\* takes effect a second time only for one of the four causes.
THEOREM EffectsOnce == Safety => []OneEffect
<1>1. Init => Once
  BY IdempotencyAssumption DEF Init, Once, At, Running, Idle
<1>2. TypeOK /\ Once /\ [Next]_vars => Once'
  <2>1. SUFFICES ASSUME TypeOK, Once, [Next]_vars PROVE Once'
    OBVIOUS
  <2>2. CASE \E p \in Proc : Begin(p) \/ Proceeds(p) \/ Fails(p)
    BY <2>1, <2>2, SearchKeepsOnce, AcquireKeepsOnce, HandlerKeepsOnce, StoreKeepsOnce
       DEF Proceeds, Fails
  <2>3. CASE LapseLock \/ (\E s \in Session : Disconnect(s)) \/ ExpireEntry \/ Cleanup
    BY <2>1, <2>3, ClockKeepsOnce
  <2>4. CASE UNCHANGED vars
    BY <2>1, <2>4 DEF vars, Once, At, Running
  <2>5. QED
    BY <2>1, <2>2, <2>3, <2>4 DEF Next
<1>3. TypeOK /\ Once => OneEffect
  BY DEF TypeOK, Once, OneEffect
<1>4. QED
  BY <1>1, <1>2, <1>3, Typing, PTL DEF Safety
-----------------------------------------------------------------------------
(* Exclusion.                                                                *)

Holders == {p \in Proc : Running(p) \/ At(p, "release")}

\* Until a lock ends under its holder there is one session on which all that run have
\* locked, as often as there are requests that have still to unlock, and no other
\* session has locked.
LockHeld(s) ==
  /\ \A t \in Locker \ {s} : lock[t] = 0
  /\ \A p \in Proc : Running(p) => req[p].session = s
  /\ Cardinality(Holders) <= lock[s]

Held == ~lapsed => \E s \in Locker : LockHeld(s)

LEMMA HoldersFinite ==
  /\ IsFiniteSet(Holders) /\ Cardinality(Holders) \in Nat
  /\ IsFiniteSet(Holders') /\ Cardinality(Holders') \in Nat
<1>1. Holders \subseteq Proc /\ Holders' \subseteq Proc
  BY DEF Holders
<1>2. QED
  BY <1>1, IdempotencyAssumption, FS_Subset, FS_CardinalityType

\* Requests move, and none begins to hold the lock.
LEMMA FewerKeepHeld ==
  ASSUME TypeOK, Held, UNCHANGED <<lock, lapsed>>, NEW p \in Proc, Others(p),
         \/ req'[p].at \notin {"handle", "store", "reject", "release"}
         \/ Running(p) /\ req'[p].at = "release"
         \/ Running(p) /\ req'[p].session = req[p].session
  PROVE  Held'
<1>1. SUFFICES ASSUME ~lapsed PROVE \E s \in Locker : LockHeld(s)'
  BY DEF Held, Locker
<1>2. PICK s \in Locker : LockHeld(s)
  BY <1>1 DEF Held
<1>3. Holders' \subseteq Holders
  BY DEF Holders, Others, Running, At
<1>4. Cardinality(Holders') <= Cardinality(Holders)
  BY <1>3, HoldersFinite, FS_Subset
<1>5. \A q \in Proc : Running(q)' => req'[q].session = s
  BY <1>2 DEF LockHeld, Running, Others
<1>6. lock[s] \in Nat
  BY <1>2, TypeForm
<1>7. LockHeld(s)'
  BY <1>2, <1>4, <1>5, <1>6, HoldersFinite DEF LockHeld, Locker
<1>8. QED
  BY <1>2, <1>7

LEMMA AcquireKeepsHeld ==
  ASSUME TypeOK, Held, NEW p \in Proc, AcquireLock(p)
  PROVE  Held'
<1>1. SUFFICES ASSUME ~lapsed PROVE \E s \in Locker : LockHeld(s)'
  BY DEF AcquireLock, Held, Locker
<1>2. PICK s \in Clients :
        IF MayLock(s)
          THEN /\ lock' = [lock EXCEPT ![s] = IF s = redis THEN 1 ELSE @ + 1]
               /\ req' = [req EXCEPT ![p].at = "handle", ![p].session = s]
               /\ excused' = (excused \/ req[p].missed \/ \E q \in Proc : Running(q))
          ELSE Answers(p) /\ UNCHANGED <<lock, excused>>
  BY DEF AcquireLock
<1>3. s \in Locker /\ backend = IF s = redis THEN "redis" ELSE "postgres"
  BY IdempotencyAssumption DEF Clients, Locker, TypeOK
<1>4. PICK t \in Locker : LockHeld(t)
  BY <1>1 DEF Held
<1>5. CASE MayLock(s)
  <2>1. \A u \in Locker \ {s} : lock[u] = 0
    BY <1>3, <1>5, TypeForm DEF MayLock, TypeOK, Locker
  <2>2. Cardinality(Holders) <= lock[s] /\ \A q \in Proc : Running(q) => req[q].session = s
    <3>1. CASE s = t
      BY <1>4, <3>1 DEF LockHeld
    <3>2. CASE s # t
      <4>1. Cardinality(Holders) = 0
        BY <1>4, <2>1, <3>2, HoldersFinite DEF LockHeld
      <4>2. Holders = {}
        BY <4>1, HoldersFinite, FS_EmptySet
      <4>3. QED
        BY <1>3, <4>1, <4>2, TypeForm DEF Holders
    <3>3. QED
      BY <3>1, <3>2
  <2>3. /\ req'[p].at = "handle" /\ req'[p].session = s
        /\ \A q \in Proc \ {p} : req'[q] = req[q]
    BY <1>2, <1>5, TypeForm DEF Request
  <2>4. Holders' = Holders \cup {p} /\ p \notin Holders
    BY <2>3 DEF AcquireLock, Holders, Running, At
  <2>5. Cardinality(Holders') = Cardinality(Holders) + 1
    BY <2>4, HoldersFinite, FS_AddElement
  <2>6. lock'[s] = lock[s] + 1 /\ \A u \in Locker \ {s} : lock'[u] = 0
    BY <1>2, <1>3, <1>5, <2>1, TypeForm DEF MayLock
  <2>7. \A q \in Proc : Running(q)' => req'[q].session = s
    BY <2>2, <2>3 DEF Running
  <2>8. LockHeld(s)'
    BY <1>3, <2>2, <2>5, <2>6, <2>7, HoldersFinite, TypeForm DEF LockHeld, Locker
  <2>9. QED
    BY <1>3, <2>8
<1>6. CASE ~MayLock(s)
  <2>1. UNCHANGED <<lock, lapsed>> /\ Others(p) /\ req'[p].at = "idle"
    BY <1>2, <1>6, MoveFacts DEF AcquireLock, Idle
  <2>2. QED
    BY <1>1, <2>1, FewerKeepHeld DEF Held
<1>7. QED
  BY <1>5, <1>6

LEMMA ReleaseKeepsHeld ==
  ASSUME TypeOK, Held, NEW p \in Proc, ReleaseLock(p)
  PROVE  Held'
<1>1. SUFFICES ASSUME ~lapsed PROVE \E s \in Locker : LockHeld(s)'
  BY DEF ReleaseLock, service, Held, Locker
<1>2. PICK u \in Clients : lock' = [lock EXCEPT ![u] = IF @ > 0 THEN @ - 1 ELSE 0]
  BY DEF ReleaseLock
<1>3. PICK s \in Locker : LockHeld(s)
  BY <1>1 DEF Held
<1>4. Others(p) /\ req'[p].at = "idle" /\ At(p, "release")
  BY MoveFacts DEF ReleaseLock, Idle
<1>5. Holders' = Holders \ {p} /\ p \in Holders
  BY <1>4 DEF Holders, Others, Running, At
<1>6. Cardinality(Holders') = Cardinality(Holders) - 1
  BY <1>5, HoldersFinite, FS_RemoveElement
<1>7. lock'[s] >= lock[s] - 1 /\ \A t \in Locker \ {s} : lock'[t] = 0
  BY <1>2, <1>3, TypeForm DEF LockHeld, Clients, Locker
<1>8. \A q \in Proc : Running(q)' => req'[q].session = s
  BY <1>3, <1>4 DEF LockHeld, Running, Others
<1>9. lock[s] \in Nat /\ lock'[s] \in Nat
  BY <1>2, <1>3, TypeForm DEF Clients, Locker
<1>10. LockHeld(s)'
  BY <1>3, <1>6, <1>7, <1>8, <1>9, HoldersFinite DEF LockHeld, Locker
<1>11. QED
  BY <1>3, <1>10

LEMMA StoreKeepsHeld ==
  ASSUME TypeOK, Held, NEW p \in Proc, StoreResponse(p)
  PROVE  Held'
<1>1. SUFFICES ASSUME ~lapsed PROVE \E s \in Locker : LockHeld(s)'
  BY DEF StoreResponse, service, Held, Locker
<1>2. PICK s \in Locker : LockHeld(s)
  BY <1>1 DEF Held
<1>3. /\ \A q \in Proc : req'[q].at = IF q = p THEN "release" ELSE req[q].at
      /\ \A q \in Proc \ {p} : req'[q].session = req[q].session
  BY TypeForm DEF StoreResponse, Idle, Request
<1>4. Holders' = Holders
  BY <1>3 DEF StoreResponse, Holders, Running, At
<1>5. \A q \in Proc : Running(q)' => req'[q].session = s
  BY <1>2, <1>3 DEF LockHeld, Running
<1>6. LockHeld(s)'
  BY <1>2, <1>4, <1>5 DEF StoreResponse, LockHeld, Locker
<1>7. QED
  BY <1>2, <1>6

LEMMA MovesKeepHeld ==
  ASSUME TypeOK, Held, NEW p \in Proc,
         \/ Begin(p) \/ FindEntry(p) \/ PurgeEntry(p) \/ Handle(p) \/ HandleRejects(p)
         \/ LockErrs(p) \/ HandleErrs(p) \/ StoreErrs(p) \/ ReleaseErrs(p) \/ Crash(p)
  PROVE  Held'
<1>1. UNCHANGED <<lock, lapsed>>
  BY DEF Begin, FindEntry, PurgeEntry, Handle, HandleRejects, LockErrs, HandleErrs,
         StoreErrs, ReleaseErrs, Crash, service
<1>2. \/ Goes(p, "find") \/ Goes(p, "lock") \/ Goes(p, "purge") \/ Answers(p)
      \/ (Goes(p, "store") \/ Goes(p, "reject")) /\ Running(p)
      \/ (Releases(p) \/ Goes(p, "release")) /\ Running(p)
  BY DEF Begin, FindEntry, PurgeEntry, Handle, HandleRejects, LockErrs, HandleErrs,
         StoreErrs, ReleaseErrs, Crash, Running, At, TypeOK
<1>3. /\ Others(p)
      /\ \/ req'[p].at \in {"find", "lock", "purge", "idle"}
         \/ Running(p) /\ req'[p].session = req[p].session
         \/ Running(p) /\ req'[p].at = "release"
  <2>1. \A place \in {"find", "lock", "purge", "store", "reject", "release"} :
          Goes(p, place) =>
            /\ Others(p)
            /\ req'[p].at = place
            /\ req'[p].session = req[p].session
    BY TypeForm DEF Goes, Others, Request
  <2>2. /\ Answers(p) => Others(p) /\ req'[p].at = "idle"
        /\ Releases(p) => Others(p) /\ req'[p].at = "release"
    BY MoveFacts DEF Idle
  <2>3. QED
    BY <1>2, <2>1, <2>2
<1>4. QED
  BY <1>1, <1>3, FewerKeepHeld

LEMMA ClockKeepsHeld ==
  ASSUME TypeOK, Held,
         LapseLock \/ (\E s \in Session : Disconnect(s)) \/ ExpireEntry \/ Cleanup
  PROVE  Held'
<1>1. CASE LapseLock \/ (\E s \in Session : Disconnect(s))
  BY <1>1 DEF LapseLock, Disconnect, Held
<1>2. CASE ExpireEntry \/ Cleanup
  BY <1>2 DEF ExpireEntry, Cleanup, service, Held, LockHeld, Holders, Running, At
<1>3. QED
  BY <1>1, <1>2

LEMMA HeldExcludes ==
  ASSUME TypeOK, Held
  PROVE  HandlersExclude
<1>1. SUFFICES ASSUME NEW p \in Proc, NEW q \in Proc, p # q, Running(p), Running(q), ~lapsed
               PROVE  backend = "postgres" /\ req[p].session = req[q].session
  BY DEF HandlersExclude
<1>2. PICK s \in Locker : LockHeld(s)
  BY <1>1 DEF Held
<1>3. p \in Holders /\ q \in Holders \ {p}
  BY <1>1 DEF Holders
<1>4. /\ IsFiniteSet(Holders \ {p})
      /\ Cardinality(Holders \ {p}) = Cardinality(Holders) - 1
  BY <1>3, HoldersFinite, FS_RemoveElement
<1>5. Cardinality(Holders \ {p}) >= 1
  BY <1>3, <1>4, HoldersFinite, FS_EmptySet
<1>6. lock[s] >= 2
  BY <1>2, <1>4, <1>5, HoldersFinite, TypeForm DEF LockHeld
<1>7. backend = "postgres"
  <2>1. s # redis
    BY <1>6 DEF TypeOK
  <2>2. QED
    BY <1>2, <1>6, <2>1, TypeForm DEF TypeOK, Locker
<1>8. QED
  BY <1>1, <1>2, <1>7 DEF LockHeld

\* The lock excludes: two handlers run at once only after a lock ended under its
\* holder, or on one and the same Postgres session.
THEOREM Exclusion == Safety => []HandlersExclude
<1>1. Init => Held
  <2>1. SUFFICES ASSUME Init PROVE LockHeld(redis)
    BY DEF Held, Locker
  <2>2. Holders = {}
    BY <2>1 DEF Init, Holders, Running, At, Idle
  <2>3. \A s \in Locker : lock[s] = 0
    BY <2>1 DEF Init, Locker
  <2>4. \A p \in Proc : ~Running(p)
    BY <2>2 DEF Holders
  <2>5. Cardinality(Holders) = 0
    BY <2>2, FS_EmptySet
  <2>6. QED
    BY <2>3, <2>4, <2>5 DEF LockHeld, Locker
<1>2. TypeOK /\ Held /\ [Next]_vars => Held'
  <2>1. SUFFICES ASSUME TypeOK, Held, [Next]_vars PROVE Held'
    OBVIOUS
  <2>2. CASE \E p \in Proc : Begin(p) \/ Proceeds(p) \/ Fails(p)
    BY <2>1, <2>2, MovesKeepHeld, AcquireKeepsHeld, StoreKeepsHeld, ReleaseKeepsHeld
       DEF Proceeds, Fails
  <2>3. CASE LapseLock \/ (\E s \in Session : Disconnect(s)) \/ ExpireEntry \/ Cleanup
    BY <2>1, <2>3, ClockKeepsHeld
  <2>4. CASE UNCHANGED vars
    BY <2>1, <2>4 DEF vars, Held, LockHeld, Holders, Running, At
  <2>5. QED
    BY <2>1, <2>2, <2>3, <2>4 DEF Next
<1>3. QED
  BY <1>1, <1>2, HeldExcludes, Typing, PTL DEF Safety
=============================================================================
