-------------------------- MODULE AvailabilityCache --------------------------
(***************************************************************************)
(* The read-through cache of GET /v1/availability, for one venue and day:  *)
(* requests that fill it, changes of holds and reservations that commit    *)
(* and then flush it key by key, assignments of tables, which do not, and  *)
(* the clock, which ends holds and entries without flushing anything.      *)
(*                                                                         *)
(* A place is a table at a time of the day.  It may be held and booked at  *)
(* once: the conflict check compares equal start times only and does not   *)
(* report a hold that ends before its slot starts.  A request that finds   *)
(* an entry returns it and changes nothing, so what holds of the entries   *)
(* holds of what such requests are told.                                   *)
(***************************************************************************)
EXTENDS Naturals

CONSTANTS
  Place,    \* what a request asks for
  Key,      \* the party sizes that are asked for; time, area and table are no part
  Reader,   \* concurrent GET requests, with the writes to the cache they leave behind
  Writer,   \* concurrent requests that change holds and reservations
  Changes,  \* bound on the number of changes
  Faults    \* bound on failed calls and crashes

ASSUME CacheAssumption == Key # {} /\ Changes \in Nat /\ Faults \in Nat

VARIABLES
  place,    \* the kinds of claims on each place, as the database has it
  changes,  \* the number of changes so far
  entry,    \* per key: of the cached answer, what it is about and how old it is
  reader,   \* what each GET request has read
  writer,   \* the change each request made and the keys it has yet to flush
  faults,
  passed,   \* (auxiliary) per key: the changes whose flush has gone over it
  raced     \* (auxiliary) per key: those that went over it while an older fill ran

db == <<place, changes>>
log == <<passed, raced>>
vars == <<place, changes, entry, reader, writer, faults, passed, raced>>
-----------------------------------------------------------------------------
None == [none |-> TRUE]
Idle == [at |-> "idle"]

\* What takes a place, for a time that overlaps the one asked for.
Kind == {"reservation", "hold"}

Fault == faults < Faults /\ faults' = faults + 1

\* The reader has begun to read for key k, and that was before change n.
Fills(r, k, n) == reader[r].at \in {"half", "set"} /\ reader[r].key = k /\ reader[r].seen < n
-----------------------------------------------------------------------------
(* The database.                                                            *)

\* What a change means for the requests that are reading: whether their place was free
\* at some time, and whether a claim of the kind they have read was laid over one of
\* the kind they have yet to read.
Noticed(after) ==
  [r \in Reader |->
     IF reader[r].at = "half"
       THEN LET old == place[reader[r].place]
                new == after[reader[r].place] IN
            [reader[r] EXCEPT !.wasFree = @ \/ new = {},
                              !.torn = @ \/ (reader[r].left \in old /\ new \ old # {})]
       ELSE reader[r]]

Becomes(after) ==
  /\ changes < Changes
  /\ place' = after
  /\ changes' = changes + 1
  /\ reader' = Noticed(after)

\* A claim of this kind is made, moved, or ends; there may be others on its places.
Alters(kind, after) == \A p \in Place : after[p] \ {kind} = place[p] \ {kind}

\* A hold ends and its reservation is made.
Converts(after) ==
  \A p \in Place : /\ after[p] \subseteq place[p] \cup {"reservation"}
                   /\ place[p] \subseteq after[p] \cup {"hold"}

Commit(w) ==
  /\ writer[w] = Idle
  /\ \E after \in [Place -> SUBSET Kind] :
       /\ Converts(after) \/ \E kind \in Kind : Alters(kind, after)
       /\ Becomes(after)
  /\ writer' = [writer EXCEPT ![w] = [at |-> "flush", change |-> changes', left |-> Key]]
  /\ UNCHANGED <<entry, faults, log>>

\* A reservation is moved to other tables; nothing is flushed.
AssignTables ==
  /\ \E after \in [Place -> SUBSET Kind] : Alters("reservation", after) /\ Becomes(after)
  /\ UNCHANGED <<entry, writer, faults, log>>

\* The time of holds is over; nothing is flushed, then or when they are swept.
HoldsLapse ==
  /\ \E after \in [Place -> SUBSET Kind] :
       /\ Alters("hold", after) /\ Becomes(after)
       /\ after # place /\ \A p \in Place : after[p] \subseteq place[p]
  /\ UNCHANGED <<entry, writer, faults, log>>
-----------------------------------------------------------------------------
(* The flush.                                                               *)

\* Mutation: the end of the scan is not noticed.
FlushedForever(w, k) ==
  /\ writer[w].at = "flush" /\ k \in writer[w].left
  /\ writer' = [writer EXCEPT ![w].left = @ \ {k}]
  /\ passed' = [passed EXCEPT ![k] = @ \cup {writer[w].change}]
  /\ raced' = [raced EXCEPT ![k] =
                 @ \cup {n \in {writer[w].change} : \E r \in Reader : Fills(r, k, n)}]
  /\ UNCHANGED <<db, reader, faults>>

\* The scan of writer w goes over key k.
Flushed(w, k) ==
  /\ writer[w].at = "flush" /\ k \in writer[w].left
  /\ writer' = [writer EXCEPT ![w] = IF @.left = {k} THEN Idle
                                     ELSE [@ EXCEPT !.left = writer[w].left \ {k}]]
  /\ passed' = [passed EXCEPT ![k] = @ \cup {writer[w].change}]
  /\ raced' = [raced EXCEPT ![k] =
                 @ \cup {n \in {writer[w].change} : \E r \in Reader : Fills(r, k, n)}]
  /\ UNCHANGED <<db, reader, faults>>

\* Mutation: the keys are scanned but not deleted.
FlushKeyKeeping(w, k) == Flushed(w, k) /\ UNCHANGED entry

\* One page of the scan: what it finds is deleted.
FlushKey(w, k) == Flushed(w, k) /\ entry' = [entry EXCEPT ![k] = None]

\* An enqueue throws before the flush, the process crashes, or Redis fails midway,
\* which is logged.
FlushStops(w) ==
  /\ writer[w].at = "flush"
  /\ Fault
  /\ writer' = [writer EXCEPT ![w] = Idle]
  /\ UNCHANGED <<db, entry, reader, log>>
-----------------------------------------------------------------------------
(* GET /v1/availability.                                                    *)

\* The key misses, or the call for it fails, which counts as a miss.
Ask(r) ==
  /\ reader[r] = Idle
  /\ \E p \in Place, k \in Key :
       /\ \/ entry[k] = None /\ UNCHANGED faults
          \/ entry[k] # None /\ Fault
       /\ reader' = [reader EXCEPT ![r] = [at |-> "asked", place |-> p, key |-> k]]
  /\ UNCHANGED <<db, entry, writer, log>>

\* Reservations and holds are read by two queries, in no particular order.
ReadFirst(r) ==
  /\ reader[r].at = "asked"
  /\ LET now == place[reader[r].place] IN
       \E first, second \in Kind :
         /\ first # second
         /\ reader' = [reader EXCEPT ![r] =
              [at |-> "half", place |-> @.place, key |-> @.key, seen |-> changes,
               left |-> second, free |-> first \notin now,
               wasFree |-> now = {}, torn |-> FALSE]]
  /\ UNCHANGED <<db, entry, writer, faults, log>>

\* Mutation: what the second query finds is forgotten.
ReadSecondIgnoring(r) ==
  /\ reader[r].at = "half"
  /\ reader' = [reader EXCEPT ![r] =
       [at |-> "set", place |-> @.place, key |-> @.key, seen |-> @.seen,
        free |-> @.free, wasFree |-> @.wasFree, torn |-> @.torn]]
  /\ UNCHANGED <<db, entry, writer, faults, log>>

\* The answer is returned; it is stored by a call that nobody waits for.
ReadSecond(r) ==
  /\ reader[r].at = "half"
  /\ reader' = [reader EXCEPT ![r] =
       [at |-> "set", place |-> @.place, key |-> @.key, seen |-> @.seen,
        free |-> @.free /\ @.left \notin place[@.place],
        wasFree |-> @.wasFree, torn |-> @.torn]]
  /\ UNCHANGED <<db, entry, writer, faults, log>>

Set(r) ==
  /\ reader[r].at = "set"
  /\ entry' = [entry EXCEPT ![reader[r].key] =
                 [place |-> reader[r].place, seen |-> reader[r].seen]]
  /\ reader' = [reader EXCEPT ![r] = Idle]
  /\ UNCHANGED <<db, writer, faults, log>>

\* The request fails, or the call that stores its answer.
FillStops(r) ==
  /\ reader[r].at # "idle"
  /\ Fault
  /\ reader' = [reader EXCEPT ![r] = Idle]
  /\ UNCHANGED <<db, entry, writer, log>>

\* Mutation: entries are stored without a time to live.
NeverLapses(k) == FALSE /\ UNCHANGED vars

\* The 45 seconds of an entry are over.
Lapse(k) ==
  /\ entry[k] # None
  /\ entry' = [entry EXCEPT ![k] = None]
  /\ UNCHANGED <<db, reader, writer, faults, log>>
-----------------------------------------------------------------------------
Init ==
  /\ place \in [Place -> SUBSET Kind] /\ changes = 0
  /\ entry = [k \in Key |-> None]
  /\ reader = [r \in Reader |-> Idle]
  /\ writer = [w \in Writer |-> Idle]
  /\ faults = 0
  /\ passed = [k \in Key |-> {}] /\ raced = [k \in Key |-> {}]

Fill(r) == ReadFirst(r) \/ ReadSecond(r) \/ Set(r)

Next ==
  \/ \E w \in Writer : Commit(w) \/ FlushStops(w) \/ \E k \in Key : FlushKey(w, k)
  \/ AssignTables \/ HoldsLapse
  \/ \E r \in Reader : Ask(r) \/ Fill(r) \/ FillStops(r)
  \/ \E k \in Key : Lapse(k)

Safety == Init /\ [][Next]_vars

\* Requests that have begun go on, and time passes.
Fairness == (\A r \in Reader : WF_vars(Fill(r))) /\ (\A k \in Key : WF_vars(Lapse(k)))

Spec == Safety /\ Fairness
-----------------------------------------------------------------------------
(* Properties.                                                              *)

Answer == [place : Place, seen : Nat]

\* The type of every variable; a flush that has begun has keys to go over.
TypeOK ==
  /\ place \in [Place -> SUBSET Kind] /\ changes \in Nat
  /\ entry \in [Key -> Answer \cup {None}]
  /\ reader \in [Reader ->
       {Idle} \cup [at : {"asked"}, place : Place, key : Key]
              \cup [at : {"half"}, place : Place, key : Key, seen : Nat, left : Kind,
                    free : BOOLEAN, wasFree : BOOLEAN, torn : BOOLEAN]
              \cup [at : {"set"}, place : Place, key : Key, seen : Nat,
                    free : BOOLEAN, wasFree : BOOLEAN, torn : BOOLEAN]]
  /\ writer \in [Writer -> {Idle} \cup [at : {"flush"}, change : Nat, left : (SUBSET Key) \ {{}}]]
  /\ faults \in 0..Faults
  /\ passed \in [Key -> SUBSET Nat] /\ raced \in [Key -> SUBSET Nat]

\* Once the flush of a change has gone over a key, the key's entry is older than the
\* change only if it was being computed, from older data, while the flush went over it:
\* everybody else who asks is told of the change.
StaleOnlyIfRaced ==
  \A k \in Key : \A n \in passed[k] :
    entry[k] # None /\ entry[k].seen < n => n \in raced[k]

\* An answer "free" was true at some time while it was computed, although reservations
\* and holds are read one after the other, unless between the two reads a claim of the
\* kind that was read first was laid over one of the other kind: a hold was converted,
\* a reservation was made beside a hold that does not count as a conflict, or a hold
\* beside a reservation with another start.
FreeWasFree ==
  \A r \in Reader :
    reader[r].at = "set" /\ reader[r].free => reader[r].wasFree \/ reader[r].torn

\* A stale answer does not stay: when nothing changes any more, every entry comes to
\* agree with the last change, whatever flushes failed, raced or never happened.
StaleAnswersEnd ==
  <>[](\A k \in Key : entry[k] # None => entry[k].seen = changes)
=============================================================================
