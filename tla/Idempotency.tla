----------------------------- MODULE Idempotency -----------------------------
(***************************************************************************)
(* Requests that carry one Idempotency-Key, as IdempotencyInterceptor and  *)
(* IdempotencyService treat them: look for a stored response, take the     *)
(* lock of the key, run the handler, store the response, release the lock. *)
(*                                                                         *)
(* The lock is a Redis key with a time to live, or, without Redis, an      *)
(* advisory lock of a Postgres session.  Prisma runs every statement on    *)
(* some connection of its pool, so the session that locks need not be the  *)
(* one that unlocks, and a session may lock what it has locked before.     *)
(*                                                                         *)
(* Keys are independent of each other, so there is one.  A request that    *)
(* finds a stored response is answered at once, by that response or by 409 *)
(* when its path or body differs, so requests are not told apart by these. *)
(***************************************************************************)
EXTENDS Naturals, FiniteSets

CONSTANTS
  Proc,        \* requests with this key in flight
  Session,     \* connections of the Postgres pool
  redis,       \* stands for the one Redis client
  Effects,     \* bound on the executions that take effect
  Depth,       \* bound on how often a session locks the key without unlocking it
  Faults       \* bound on failed statements and crashes

ASSUME IdempotencyAssumption ==
  /\ redis \notin Session /\ IsFiniteSet(Proc)
  /\ Effects \in Nat /\ Depth \in Nat \ {0} /\ Faults \in Nat

VARIABLES
  backend,  \* "redis" or "postgres", chosen when the service is constructed
  row,      \* the IdempotencyKey row of the key: "none", "stored" or "expired"
  lock,     \* how often each session has locked the key; 0 or 1 for redis
  req,      \* what each request is about to do
  effects,  \* executions of handlers that took effect
  faults,
  lapsed,   \* (auxiliary) a lock ended before its holder released it
  excused   \* (auxiliary) something happened that lets a handler run again

vars == <<backend, row, lock, req, effects, faults, lapsed, excused>>
service == <<backend, faults, lapsed, excused>>
-----------------------------------------------------------------------------
\* `missed`: the response was stored after this request had looked for it.
Idle == [at |-> "idle", session |-> redis, missed |-> FALSE]

At(p, place) == req[p].at = place
Goes(p, place) == req' = [req EXCEPT ![p].at = place]
Answers(p) == req' = [req EXCEPT ![p] = Idle]
Releases(p) == req' = [req EXCEPT ![p] = [Idle EXCEPT !.at = "release"]]

\* Mutation: a statement may also fall back on the other kind of lock.
AnyClient == Session \cup {redis}

\* The sessions on which a statement about the lock may run.
Clients == IF backend = "redis" THEN {redis} ELSE Session
Taken == \E s \in Session \cup {redis} : lock[s] > 0

\* The requests whose handler runs or whose response is being stored.
Running(p) == req[p].at \in {"handle", "store", "reject"}

Fault == faults < Faults /\ faults' = faults + 1
-----------------------------------------------------------------------------
(* Looking for a response and locking.                                      *)

Begin(p) ==
  /\ At(p, "idle")
  /\ Goes(p, "find")
  /\ UNCHANGED <<row, lock, effects, service>>

\* findEntry: an expired row is deleted by id in a second statement.
FindEntry(p) ==
  /\ At(p, "find")
  /\ CASE row = "none" -> Goes(p, "lock")
       [] row = "expired" -> Goes(p, "purge")
       [] row = "stored" -> Answers(p)  \* replayed, or 409 for another payload
  /\ UNCHANGED <<row, lock, effects, service>>

PurgeEntry(p) ==
  /\ At(p, "purge")
  /\ row' = "none"
  /\ Goes(p, "lock")
  /\ excused' = (excused \/ row # "none")
  /\ UNCHANGED <<backend, lock, effects, faults, lapsed>>

\* Mutation: SET without NX.
Unguarded(s) == TRUE

\* SET NX, and pg_try_advisory_lock, which a session passes again and again.
MayLock(s) ==
  IF s = redis THEN lock[s] = 0
               ELSE \A t \in Session \ {s} : lock[t] = 0

AcquireLock(p) ==
  /\ At(p, "lock")
  /\ \E s \in Clients :
     /\ lock[s] < Depth \/ ~MayLock(s)
     /\ IF MayLock(s)
          THEN /\ lock' = [lock EXCEPT ![s] = IF s = redis THEN 1 ELSE @ + 1]
               /\ req' = [req EXCEPT ![p].at = "handle", ![p].session = s]
               /\ excused' = (excused \/ req[p].missed \/ \E q \in Proc : Running(q))
          ELSE /\ Answers(p)                    \* 409: request already in progress
               /\ UNCHANGED <<lock, excused>>
  /\ UNCHANGED <<backend, row, effects, faults, lapsed>>

\* An error of Redis or Postgres counts as a lock that is taken.
LockErrs(p) ==
  /\ At(p, "lock")
  /\ Answers(p)
  /\ UNCHANGED <<row, lock, effects, service>>
-----------------------------------------------------------------------------
(* Running the handler and storing its response.                            *)

Handle(p) ==
  /\ At(p, "handle") /\ effects < Effects
  /\ effects' = effects + 1
  /\ Goes(p, "store")
  /\ UNCHANGED <<row, lock, service>>

\* An HttpException changes nothing, and is stored as the response.
HandleRejects(p) ==
  /\ At(p, "handle")
  /\ Goes(p, "reject")
  /\ UNCHANGED <<row, lock, effects, service>>

\* Any other error is not stored; it may have come after the effect.
HandleErrs(p) ==
  /\ At(p, "handle")
  /\ Fault
  /\ \/ UNCHANGED <<effects, excused>>
     \/ effects < Effects /\ effects' = effects + 1 /\ excused' = TRUE
  /\ Releases(p)
  /\ UNCHANGED <<backend, row, lock, lapsed>>

\* Mutation: the response is not stored.
StoresNothing(p) ==
  /\ At(p, "store") \/ At(p, "reject")
  /\ Releases(p)
  /\ UNCHANGED <<row, lock, effects, service>>

\* storeResponse: create, which the primary key refuses when there is a row.
StoreResponse(p) ==
  /\ At(p, "store") \/ At(p, "reject")
  /\ row' = IF row = "none" THEN "stored" ELSE row
  /\ req' = [q \in Proc |-> CASE q = p -> [Idle EXCEPT !.at = "release"]
                               [] q # p /\ At(q, "lock") -> [req[q] EXCEPT !.missed = TRUE]
                               [] OTHER -> req[q]]
  /\ UNCHANGED <<lock, effects, service>>

\* After a success the error is answered like one of the handler, so the lock is
\* released; the error of storing a rejection skips the release.
StoreErrs(p) ==
  /\ At(p, "store") \/ At(p, "reject")
  /\ Fault
  /\ IF At(p, "store") THEN Releases(p) /\ excused' = TRUE
                       ELSE Answers(p) /\ UNCHANGED excused
  /\ UNCHANGED <<backend, row, lock, effects, lapsed>>

\* DEL, whoever set the key; pg_advisory_unlock, on whatever session it runs.
ReleaseLock(p) ==
  /\ At(p, "release")
  /\ \E s \in Clients : lock' = [lock EXCEPT ![s] = IF @ > 0 THEN @ - 1 ELSE 0]
  /\ Answers(p)
  /\ UNCHANGED <<row, effects, service>>

\* releaseLock swallows the error.
ReleaseErrs(p) ==
  /\ At(p, "release")
  /\ Fault
  /\ Answers(p)
  /\ UNCHANGED <<backend, row, lock, effects, lapsed, excused>>

Crash(p) ==
  /\ ~At(p, "idle")
  /\ Fault
  /\ excused' = (excused \/ At(p, "store"))
  /\ Answers(p)
  /\ UNCHANGED <<backend, row, lock, effects, lapsed>>
-----------------------------------------------------------------------------
(* The clock.                                                               *)

\* Mutation: SET without PX.
NeverLapses == FALSE /\ UNCHANGED vars

\* The lock's 30 seconds are over.
LapseLock ==
  /\ lock[redis] > 0
  /\ lock' = [lock EXCEPT ![redis] = 0]
  /\ lapsed' = TRUE
  /\ UNCHANGED <<backend, row, req, effects, faults, excused>>

\* A connection is closed, and Postgres ends its session.
Disconnect(s) ==
  /\ lock[s] > 0
  /\ Fault
  /\ lock' = [lock EXCEPT ![s] = 0]
  /\ lapsed' = TRUE
  /\ UNCHANGED <<backend, row, req, effects, excused>>

\* 24 hours after it was stored.
ExpireEntry ==
  /\ row = "stored"
  /\ row' = "expired"
  /\ excused' = TRUE
  /\ UNCHANGED <<backend, lock, req, effects, faults, lapsed>>

\* maybeCleanupExpired
Cleanup ==
  /\ row = "expired"
  /\ row' = "none"
  /\ UNCHANGED <<lock, req, effects, service>>
-----------------------------------------------------------------------------
Init ==
  /\ backend \in {"redis", "postgres"}
  /\ row = "none"
  /\ lock = [s \in Session \cup {redis} |-> 0]
  /\ req = [p \in Proc |-> Idle]
  /\ effects = 0 /\ faults = 0
  /\ lapsed = FALSE /\ excused = FALSE

Proceeds(p) ==
  \/ FindEntry(p) \/ PurgeEntry(p) \/ AcquireLock(p) \/ Handle(p) \/ HandleRejects(p)
  \/ StoreResponse(p) \/ ReleaseLock(p)

Fails(p) ==
  \/ LockErrs(p) \/ HandleErrs(p) \/ StoreErrs(p) \/ ReleaseErrs(p) \/ Crash(p)

Next ==
  \/ \E p \in Proc : Begin(p) \/ Proceeds(p) \/ Fails(p)
  \/ LapseLock
  \/ \E s \in Session : Disconnect(s)
  \/ ExpireEntry \/ Cleanup

Safety == Init /\ [][Next]_vars

\* Requests run to their end and Redis ends the keys whose time is over.
Spec ==
  /\ Safety
  /\ \A p \in Proc : WF_vars(Proceeds(p))
  /\ WF_vars(LapseLock)
-----------------------------------------------------------------------------
(* Properties.                                                              *)

Places == {"idle", "find", "purge", "lock", "handle", "store", "reject", "release"}

\* The type of every variable.  Redis holds the lock at most once, and the service
\* uses one of the two kinds of locks only.
TypeOK ==
  /\ backend \in {"redis", "postgres"}
  /\ row \in {"none", "stored", "expired"}
  /\ lock \in [Session \cup {redis} -> Nat]
  /\ lock[redis] <= 1
  /\ \A s \in Session \cup {redis} :
       lock[s] > 0 => backend = IF s = redis THEN "redis" ELSE "postgres"
  /\ req \in [Proc -> [at : Places, session : Session \cup {redis}, missed : BOOLEAN]]
  /\ effects \in 0..Effects /\ faults \in 0..Faults
  /\ lapsed \in BOOLEAN /\ excused \in BOOLEAN

\* The lock of the key: two handlers run at once only when a lock ended under its
\* holder, or when both locked on the same Postgres session.  No release, not the
\* one of a foreign lock either, lets a second handler in.
HandlersExclude ==
  \A p, q \in Proc :
    p # q /\ Running(p) /\ Running(q) =>
      lapsed \/ (backend = "postgres" /\ req[p].session = req[q].session)

\* What the key is for: the handlers of requests with one key take effect once, but
\* for four causes: the lock was taken after the response had been stored unnoticed,
\* two handlers overlapped, a response was never stored, or it expired.
OneEffect == effects > 1 => excused

\* No request, and no crash, blocks the key for good: the Redis lock is free again
\* and again.  (A session lock that is released on another connection is not.)
LockIsFreed == (backend = "redis" /\ Taken) ~> ~Taken
=============================================================================
