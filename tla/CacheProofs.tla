----------------------------- MODULE CacheProofs -----------------------------
(* Theorems about the safety part of AvailabilityCache, for any number of      *)
(* places, keys, requests and changes.                                         *)
EXTENDS AvailabilityCache, TLAPS

-----------------------------------------------------------------------------
(* Types.                                                                      *)

Asked == [at : {"asked"}, place : Place, key : Key]
Half == [at : {"half"}, place : Place, key : Key, seen : Nat, left : Kind,
         free : BOOLEAN, wasFree : BOOLEAN, torn : BOOLEAN]
Full == [at : {"set"}, place : Place, key : Key, seen : Nat,
         free : BOOLEAN, wasFree : BOOLEAN, torn : BOOLEAN]
Request == {Idle} \cup Asked \cup Half \cup Full
Writing == [at : {"flush"}, change : Nat, left : (SUBSET Key) \ {{}}]

LEMMA TypeForm ==
  TypeOK <=>
    /\ place \in [Place -> SUBSET Kind] /\ changes \in Nat
    /\ entry \in [Key -> Answer \cup {None}]
    /\ reader \in [Reader -> Request]
    /\ writer \in [Writer -> {Idle} \cup Writing]
    /\ faults \in 0..Faults
    /\ passed \in [Key -> SUBSET Nat] /\ raced \in [Key -> SUBSET Nat]
BY DEF TypeOK, Request, Asked, Half, Full, Writing

LEMMA ReaderKinds ==
  ASSUME TypeOK, NEW r \in Reader
  PROVE  /\ reader[r].at = "idle" => reader[r] = Idle
         /\ reader[r].at = "asked" => reader[r] \in Asked
         /\ reader[r].at = "half" => reader[r] \in Half
         /\ reader[r].at = "set" => reader[r] \in Full
BY TypeForm DEF Request, Idle, Asked, Half, Full

LEMMA WriterKinds ==
  ASSUME TypeOK, NEW w \in Writer, writer[w].at = "flush"
  PROVE  writer[w] \in Writing
BY TypeForm DEF Idle, Writing

\* A change leaves the requests as they are but for what they noticed.
LEMMA BecomesFacts ==
  ASSUME TypeOK, NEW after \in [Place -> SUBSET Kind], Becomes(after)
  PROVE  /\ place' = after /\ place' \in [Place -> SUBSET Kind]
         /\ changes' = changes + 1 /\ changes' \in Nat
         /\ reader' \in [Reader -> Request]
         /\ \A r \in Reader :
              /\ reader[r].at # "half" => reader'[r] = reader[r]
              /\ reader[r].at = "half" =>
                   /\ reader'[r].at = "half" /\ reader'[r].place = reader[r].place
                   /\ reader'[r].key = reader[r].key /\ reader'[r].seen = reader[r].seen
                   /\ reader'[r].left = reader[r].left /\ reader'[r].free = reader[r].free
                   /\ reader'[r].wasFree =
                        (reader[r].wasFree \/ after[reader[r].place] = {})
                   /\ reader'[r].torn =
                        (reader[r].torn \/ (/\ reader[r].left \in place[reader[r].place]
                                           /\ after[reader[r].place]
                                                \ place[reader[r].place] # {}))
<1> DEFINE a(r) == reader[r].wasFree \/ after[reader[r].place] = {}
           b(r) == reader[r].torn \/ (/\ reader[r].left \in place[reader[r].place]
                                     /\ after[reader[r].place] \ place[reader[r].place] # {})
<1>1. place' = after /\ changes' = changes + 1 /\ changes' \in Nat
      /\ reader' = Noticed(after)
  BY TypeForm DEF Becomes
<1>2. \A r \in Reader :
        /\ reader[r].at # "half" => reader'[r] = reader[r]
        /\ reader[r].at = "half" =>
             reader'[r] = [reader[r] EXCEPT !.wasFree = a(r), !.torn = b(r)]
  BY <1>1 DEF Noticed
<1>3. \A r \in Reader : a(r) \in BOOLEAN /\ b(r) \in BOOLEAN
  OBVIOUS
<1> HIDE DEF a, b
<1>4. ASSUME NEW r \in Reader, reader[r].at = "half"
      PROVE  /\ reader'[r] \in Half
             /\ reader'[r].at = "half" /\ reader'[r].place = reader[r].place
             /\ reader'[r].key = reader[r].key /\ reader'[r].seen = reader[r].seen
             /\ reader'[r].left = reader[r].left /\ reader'[r].free = reader[r].free
             /\ reader'[r].wasFree = a(r) /\ reader'[r].torn = b(r)
  <2>1. reader[r] \in Half
    BY <1>4, ReaderKinds
  <2>2. reader'[r] = [reader[r] EXCEPT !.wasFree = a(r), !.torn = b(r)]
    BY <1>2, <1>4
  <2>3. QED
    BY <1>3, <2>1, <2>2 DEF Half
<1>5. \A r \in Reader : reader'[r] \in Request
  BY <1>2, <1>4, TypeForm DEF Request
<1>6. reader' \in [Reader -> Request]
  BY <1>1, <1>5 DEF Noticed
<1>7. QED
  BY <1>1, <1>2, <1>4, <1>6 DEF a, b

\* Every change of the database is one that Becomes describes.
LEMMA ChangeFacts ==
  ASSUME (\E w \in Writer : Commit(w)) \/ AssignTables \/ HoldsLapse
  PROVE  \E after \in [Place -> SUBSET Kind] : Becomes(after)
BY DEF Commit, AssignTables, HoldsLapse

LEMMA FirstFacts ==
  ASSUME TypeOK, NEW r \in Reader, ReadFirst(r)
  PROVE  \E first, second \in Kind :
           LET now == place[reader[r].place]
               new == [at |-> "half", place |-> reader[r].place, key |-> reader[r].key,
                       seen |-> changes, left |-> second, free |-> first \notin now,
                       wasFree |-> now = {}, torn |-> FALSE]
           IN  /\ first # second /\ new \in Half
               /\ reader' = [reader EXCEPT ![r] = new]
               /\ reader[r].place \in Place /\ reader[r].key \in Key
<1>1. reader[r] \in Asked
  BY ReaderKinds DEF ReadFirst
<1>2. reader[r].place \in Place /\ reader[r].key \in Key /\ changes \in Nat
  BY <1>1, TypeForm DEF Asked
<1> DEFINE now == place[reader[r].place]
           new(first, second) ==
             [at |-> "half", place |-> reader[r].place, key |-> reader[r].key,
              seen |-> changes, left |-> second, free |-> first \notin now,
              wasFree |-> now = {}, torn |-> FALSE]
<1>3. PICK first, second \in Kind :
        first # second /\ reader' = [reader EXCEPT ![r] = new(first, second)]
  BY DEF ReadFirst
<1>4. (first \notin now) \in BOOLEAN /\ (now = {}) \in BOOLEAN
  OBVIOUS
<1>5. new(first, second) \in Half
  BY <1>2, <1>4 DEF Half
<1>6. QED
  BY <1>2, <1>3, <1>5

LEMMA FirstSeen ==
  ASSUME TypeOK, NEW r \in Reader, ReadFirst(r)
  PROVE  reader'[r].seen = changes /\ \A v \in Reader \ {r} : reader'[v] = reader[v]
<1> DEFINE now == place[reader[r].place]
           new(first, second) ==
             [at |-> "half", place |-> reader[r].place, key |-> reader[r].key,
              seen |-> changes, left |-> second, free |-> first \notin now,
              wasFree |-> now = {}, torn |-> FALSE]
<1>1. PICK first, second \in Kind : reader' = [reader EXCEPT ![r] = new(first, second)]
  BY DEF ReadFirst
<1>2. new(first, second).seen = changes
  OBVIOUS
<1> HIDE DEF new
<1>3. QED
  BY <1>1, <1>2, TypeForm

LEMMA SecondFacts ==
  ASSUME TypeOK, NEW r \in Reader, ReadSecond(r)
  PROVE  /\ reader[r] \in Half /\ reader'[r] \in Full
         /\ reader' = [reader EXCEPT ![r] = reader'[r]]
         /\ reader'[r].free =>
              reader[r].free /\ reader[r].left \notin place[reader[r].place]
         /\ reader'[r].wasFree = reader[r].wasFree /\ reader'[r].torn = reader[r].torn
         /\ reader'[r].key = reader[r].key /\ reader'[r].seen = reader[r].seen
         /\ \A v \in Reader \ {r} : reader'[v] = reader[v]
<1> DEFINE b == reader[r].free /\ reader[r].left \notin place[reader[r].place]
           new == [at |-> "set", place |-> reader[r].place, key |-> reader[r].key,
                   seen |-> reader[r].seen, free |-> b,
                   wasFree |-> reader[r].wasFree, torn |-> reader[r].torn]
<1>1. reader[r] \in Half
  BY ReaderKinds DEF ReadSecond
<1>2. b \in BOOLEAN
  OBVIOUS
<1>3. reader' = [reader EXCEPT ![r] = new]
  BY DEF ReadSecond
<1> HIDE DEF b
<1>4. new \in Full /\ new.free = b
  BY <1>1, <1>2 DEF Half, Full
<1>5. new.key = reader[r].key /\ new.seen = reader[r].seen
      /\ new.wasFree = reader[r].wasFree /\ new.torn = reader[r].torn
  OBVIOUS
<1> HIDE DEF new
<1>6. reader'[r] = new /\ \A v \in Reader \ {r} : reader'[v] = reader[v]
  BY <1>3, TypeForm
<1>7. QED
  BY <1>1, <1>3, <1>4, <1>5, <1>6 DEF b

LEMMA TypeStep == ASSUME TypeOK, [Next]_vars PROVE TypeOK'
<1>1. ASSUME NEW w \in Writer, Commit(w) PROVE TypeOK'
  <2>1. PICK after \in [Place -> SUBSET Kind] : Becomes(after)
    BY <1>1, ChangeFacts
  <2>2. /\ place' \in [Place -> SUBSET Kind] /\ changes' \in Nat
        /\ reader' \in [Reader -> Request]
    BY <2>1, BecomesFacts
  <2>3. writer' \in [Writer -> {Idle} \cup Writing]
    <3>1. [at |-> "flush", change |-> changes', left |-> Key] \in Writing
      <4>1. Key \in (SUBSET Key) \ {{}}
        BY CacheAssumption
      <4>2. QED
        BY <2>2, <4>1 DEF Writing
    <3>2. QED
      BY <1>1, <3>1, TypeForm DEF Commit
  <2>4. QED
    BY <1>1, <2>2, <2>3, TypeForm
       DEF Commit, log, TypeOK, Request, Asked, Half, Full, Writing
<1>2. ASSUME AssignTables \/ HoldsLapse PROVE TypeOK'
  <2>1. PICK after \in [Place -> SUBSET Kind] : Becomes(after)
    BY <1>2, ChangeFacts
  <2>2. /\ place' \in [Place -> SUBSET Kind] /\ changes' \in Nat
        /\ reader' \in [Reader -> Request]
    BY <2>1, BecomesFacts
  <2>3. UNCHANGED <<entry, writer, faults, passed, raced>>
    BY <1>2 DEF AssignTables, HoldsLapse, log
  <2>4. QED
    BY <2>2, <2>3 DEF TypeOK, Request, Asked, Half, Full
<1>3. ASSUME NEW w \in Writer, NEW k \in Key, FlushKey(w, k) PROVE TypeOK'
  <2>1. writer[w] \in Writing
    BY <1>3, WriterKinds DEF FlushKey, Flushed
  <2>2. writer' \in [Writer -> {Idle} \cup Writing]
    <3>1. CASE writer[w].left = {k}
      BY <1>3, <3>1, TypeForm DEF FlushKey, Flushed
    <3>2. CASE writer[w].left # {k}
      <4>1. [writer[w] EXCEPT !.left = writer[w].left \ {k}] \in Writing
        BY <1>3, <2>1, <3>2 DEF Writing, FlushKey, Flushed
      <4>2. QED
        <5>1. writer' = [writer EXCEPT ![w] = [writer[w] EXCEPT !.left = writer[w].left \ {k}]]
          BY <1>3, <3>2 DEF FlushKey, Flushed
        <5>2. QED
          BY <4>1, <5>1, TypeForm
    <3>3. QED
      BY <3>1, <3>2
  <2>3. passed' \in [Key -> SUBSET Nat] /\ raced' \in [Key -> SUBSET Nat]
    <3>1. writer[w].change \in Nat
      BY <2>1 DEF Writing
    <3>2. QED
      BY <1>3, <3>1, TypeForm DEF FlushKey, Flushed
  <2>4. entry' \in [Key -> Answer \cup {None}]
    BY <1>3, TypeForm DEF FlushKey
  <2>5. QED
    BY <1>3, <2>2, <2>3, <2>4 DEF FlushKey, Flushed, db, TypeOK, Writing
<1>4. ASSUME NEW w \in Writer, FlushStops(w) PROVE TypeOK'
  <2>1. writer' \in [Writer -> {Idle} \cup Writing]
    BY <1>4, TypeForm DEF FlushStops
  <2>2. faults' \in 0..Faults
    BY <1>4, CacheAssumption DEF FlushStops, Fault, TypeOK
  <2>3. QED
    BY <1>4, <2>1, <2>2 DEF FlushStops, db, log, TypeOK, Writing
<1>5. ASSUME NEW r \in Reader, Ask(r) PROVE TypeOK'
  <2>1. reader' \in [Reader -> Request]
    <3>1. PICK p \in Place, k \in Key :
            reader' = [reader EXCEPT ![r] = [at |-> "asked", place |-> p, key |-> k]]
      BY <1>5 DEF Ask
    <3>2. [at |-> "asked", place |-> p, key |-> k] \in Asked
      BY DEF Asked
    <3>3. QED
      BY <3>1, <3>2, TypeForm DEF Request
  <2>2. faults' \in 0..Faults
    BY <1>5, CacheAssumption DEF Ask, Fault, TypeOK
  <2>3. QED
    BY <1>5, <2>1, <2>2 DEF Ask, db, log, TypeOK, Request, Asked, Half, Full
<1>6. ASSUME NEW r \in Reader, ReadFirst(r) PROVE TypeOK'
  <2>1. \E new \in Half : reader' = [reader EXCEPT ![r] = new]
    BY <1>6, FirstFacts
  <2>2. reader' \in [Reader -> Request]
    BY <2>1, TypeForm DEF Request
  <2>3. QED
    BY <1>6, <2>2 DEF ReadFirst, db, log, TypeOK, Request, Asked, Half, Full
<1>7. ASSUME NEW r \in Reader, ReadSecond(r) PROVE TypeOK'
  <2>1. \E new \in Full : reader' = [reader EXCEPT ![r] = new]
    BY <1>7, SecondFacts
  <2>2. reader' \in [Reader -> Request]
    BY <2>1, TypeForm DEF Request
  <2>3. QED
    BY <1>7, <2>2 DEF ReadSecond, db, log, TypeOK, Request, Asked, Half, Full
<1>8. ASSUME NEW r \in Reader, Set(r) PROVE TypeOK'
  <2>1. reader[r] \in Full
    BY <1>8, ReaderKinds DEF Set
  <2>2. /\ [place |-> reader[r].place, seen |-> reader[r].seen] \in Answer
        /\ reader[r].key \in Key
    BY <2>1 DEF Full, Answer
  <2>3. entry' \in [Key -> Answer \cup {None}]
        /\ reader' \in [Reader -> Request]
    BY <1>8, <2>2, TypeForm DEF Set, Request
  <2>4. QED
    BY <1>8, <2>3 DEF Set, db, log, TypeOK, Request, Asked, Half, Full
<1>9. ASSUME NEW r \in Reader, FillStops(r) PROVE TypeOK'
  <2>1. reader' \in [Reader -> Request]
    BY <1>9, TypeForm DEF FillStops, Request
  <2>2. faults' \in 0..Faults
    BY <1>9, CacheAssumption DEF FillStops, Fault, TypeOK
  <2>3. QED
    BY <1>9, <2>1, <2>2 DEF FillStops, db, log, TypeOK, Request, Asked, Half, Full
<1>10. ASSUME NEW k \in Key, Lapse(k) PROVE TypeOK'
  <2>1. entry' \in [Key -> Answer \cup {None}]
    BY <1>10, TypeForm DEF Lapse
  <2>2. QED
    BY <1>10, <2>1 DEF Lapse, db, log, TypeOK
<1>11. CASE UNCHANGED vars
  BY <1>11 DEF vars, TypeOK
<1>12. QED
  BY <1>1, <1>2, <1>3, <1>4, <1>5, <1>6, <1>7, <1>8, <1>9, <1>10, <1>11 DEF Next, Fill

LEMMA InitType == ASSUME Init PROVE TypeOK
BY CacheAssumption DEF Init, TypeOK

\* Type correctness of every variable, for any number of places, keys and requests.
THEOREM Typing == Safety => []TypeOK
<1>1. Init => TypeOK
  BY InitType
<1>2. TypeOK /\ [Next]_vars => TypeOK'
  BY TypeStep
<1>3. QED
  BY <1>1, <1>2, PTL DEF Safety
-----------------------------------------------------------------------------
(* Staleness.                                                                  *)

\* Neither an entry nor a fill that runs is older than a flush that went over its key,
\* unless the flush has met such a fill; no flush is of a change yet to come.
Bounded ==
  /\ TypeOK
  /\ StaleOnlyIfRaced
  /\ \A k \in Key : \A n \in passed[k] : \A r \in Reader : Fills(r, k, n) => n \in raced[k]
  /\ \A k \in Key : \A n \in passed[k] : n <= changes
  /\ \A w \in Writer : writer[w].at = "flush" => writer[w].change <= changes

\* A step after which no fill is older than it was.
LEMMA NoOlder ==
  ASSUME Bounded, TypeOK', UNCHANGED <<entry, passed, raced>>,
         changes' \in {changes, changes + 1},
         \A w \in Writer : writer'[w].at = "flush" =>
            \/ writer'[w] = writer[w]
            \/ writer'[w].change = changes',
         \A r \in Reader : reader'[r].at \in {"half", "set"} =>
            \/ /\ reader[r].at \in {"half", "set"} /\ reader'[r].key = reader[r].key
               /\ reader'[r].seen = reader[r].seen
            \/ reader'[r].seen = changes
  PROVE  Bounded'
<1>1. changes \in Nat /\ passed \in [Key -> SUBSET Nat]
  BY DEF Bounded, TypeOK
<1>2. StaleOnlyIfRaced'
  BY DEF Bounded, StaleOnlyIfRaced
<1>3. ASSUME NEW k \in Key, NEW n \in passed[k], NEW r \in Reader, Fills(r, k, n)'
      PROVE  n \in raced[k]
  <2>1. n \in Nat /\ n <= changes
    BY <1>1 DEF Bounded
  <2>2. /\ reader'[r].at \in {"half", "set"} /\ reader'[r].key = k /\ reader'[r].seen < n
    BY <1>3 DEF Fills
  <2>3. reader'[r].seen # changes
    BY <1>1, <2>1, <2>2
  <2>4. Fills(r, k, n)
    BY <2>2, <2>3 DEF Fills
  <2>5. QED
    BY <2>4 DEF Bounded
<1>4. \A k \in Key : \A n \in passed[k] : n <= changes'
  <2>1. SUFFICES ASSUME NEW k \in Key, NEW n \in passed[k] PROVE n <= changes'
    OBVIOUS
  <2>2. n \in Nat /\ n <= changes
    BY <1>1 DEF Bounded
  <2>3. QED
    BY <1>1, <2>2
<1>5. \A w \in Writer : writer'[w].at = "flush" => writer'[w].change <= changes'
  <2>1. SUFFICES ASSUME NEW w \in Writer, writer'[w].at = "flush"
                 PROVE  writer'[w].change <= changes'
    OBVIOUS
  <2>2. CASE writer'[w] = writer[w]
    <3>1. writer[w].change <= changes /\ writer[w].change \in Nat
      <4>1. writer[w] \in Writing
        BY <2>1, <2>2, WriterKinds DEF Bounded
      <4>2. QED
        BY <2>1, <2>2, <4>1 DEF Bounded, Writing
    <3>2. QED
      BY <1>1, <2>2, <3>1
  <2>3. CASE writer'[w].change = changes'
    BY <1>1, <2>3
  <2>4. QED
    BY <2>1, <2>2, <2>3
<1>6. QED
  BY <1>2, <1>3, <1>4, <1>5 DEF Bounded

LEMMA BoundedStep == ASSUME Bounded, [Next]_vars PROVE Bounded'
<1>1. TypeOK /\ TypeOK'
  BY TypeStep DEF Bounded
<1>2. ASSUME NEW after \in [Place -> SUBSET Kind], Becomes(after)
      PROVE  /\ changes' = changes + 1
             /\ \A r \in Reader : reader'[r].at \in {"half", "set"} =>
                  /\ reader[r].at \in {"half", "set"} /\ reader'[r].key = reader[r].key
                  /\ reader'[r].seen = reader[r].seen
  BY <1>1, <1>2, BecomesFacts
<1>3. ASSUME NEW w \in Writer, Commit(w) PROVE Bounded'
  <2>1. PICK after \in [Place -> SUBSET Kind] : Becomes(after)
    BY <1>3, ChangeFacts
  <2>2. UNCHANGED <<entry, passed, raced>> /\ changes' = changes + 1
    BY <1>2, <1>3, <2>1 DEF Commit, log
  <2>3. \A v \in Writer : writer'[v] = writer[v] \/ writer'[v].change = changes'
    BY <1>1, <1>3, TypeForm DEF Commit
  <2>4. QED
    BY <1>1, <1>2, <2>1, <2>2, <2>3, NoOlder
<1>4. ASSUME AssignTables \/ HoldsLapse PROVE Bounded'
  <2>1. PICK after \in [Place -> SUBSET Kind] : Becomes(after)
    BY <1>4, ChangeFacts
  <2>2. UNCHANGED <<entry, passed, raced, writer>>
    BY <1>4 DEF AssignTables, HoldsLapse, log
  <2>3. QED
    BY <1>1, <1>2, <2>1, <2>2, NoOlder
<1>5. ASSUME NEW w \in Writer, NEW k \in Key, FlushKey(w, k) PROVE Bounded'
  <2> DEFINE c == writer[w].change
  <2>1. /\ passed' = [passed EXCEPT ![k] = @ \cup {c}]
        /\ raced' = [raced EXCEPT ![k] =
                       @ \cup {n \in {c} : \E r \in Reader : Fills(r, k, n)}]
        /\ entry' = [entry EXCEPT ![k] = None]
        /\ UNCHANGED <<changes, reader>>
    BY <1>5 DEF FlushKey, Flushed, db
  <2>2. c <= changes
    BY <1>5 DEF FlushKey, Flushed, Bounded
  <2> HIDE DEF c
  <2>3. \A i \in Key : \A n \in passed'[i] : n \in passed[i] \/ (i = k /\ n = c)
    BY <1>1, <2>1 DEF TypeOK
  <2>4. \A i \in Key : \A n \in raced[i] : n \in raced'[i]
    BY <1>1, <2>1 DEF TypeOK
  <2>5. \A r \in Reader : Fills(r, k, c) => c \in raced'[k]
    BY <1>1, <2>1 DEF TypeOK
  <2>6. StaleOnlyIfRaced'
    <3>1. entry'[k] = None /\ \A i \in Key \ {k} : entry'[i] = entry[i]
      BY <1>1, <2>1 DEF TypeOK
    <3>2. QED
      BY <2>3, <2>4, <3>1 DEF StaleOnlyIfRaced, Bounded
  <2>7. \A i \in Key : \A n \in passed'[i] : \A r \in Reader :
          Fills(r, i, n)' => n \in raced'[i]
    <3>1. \A i, n : \A r \in Reader : Fills(r, i, n)' <=> Fills(r, i, n)
      BY <2>1 DEF Fills
    <3>2. QED
      BY <2>3, <2>4, <2>5, <3>1 DEF Bounded
  <2>8. \A v \in Writer : writer'[v].at = "flush" =>
          writer[v].at = "flush" /\ writer'[v].change = writer[v].change
    <3>1. \A v \in Writer \ {w} : writer'[v] = writer[v]
      BY <1>1, <1>5, TypeForm DEF FlushKey, Flushed
    <3>2. writer[w] \in Writing
      BY <1>1, <1>5, WriterKinds DEF FlushKey, Flushed
    <3>3. \/ writer'[w] = Idle
          \/ writer'[w] = [writer[w] EXCEPT !.left = writer[w].left \ {k}]
      BY <1>1, <1>5, TypeForm DEF FlushKey, Flushed
    <3>4. QED
      BY <3>1, <3>2, <3>3 DEF Idle, Writing
  <2>9. QED
    BY <1>1, <2>1, <2>2, <2>3, <2>6, <2>7, <2>8 DEF Bounded
<1>6. ASSUME NEW r \in Reader, Set(r) PROVE Bounded'
  <2>1. reader[r] \in Full /\ reader[r].key \in Key
    BY <1>1, <1>6, ReaderKinds DEF Set, Full
  <2>2. /\ entry' = [entry EXCEPT ![reader[r].key] =
                       [place |-> reader[r].place, seen |-> reader[r].seen]]
        /\ reader' = [reader EXCEPT ![r] = Idle]
        /\ UNCHANGED <<changes, writer, passed, raced>> /\ reader[r].at = "set"
    BY <1>6 DEF Set, db, log
  <2>3. /\ entry'[reader[r].key].seen = reader[r].seen
        /\ \A i \in Key \ {reader[r].key} : entry'[i] = entry[i]
    BY <1>1, <2>1, <2>2 DEF TypeOK
  <2>4. StaleOnlyIfRaced'
    <3>1. SUFFICES ASSUME NEW k \in Key, NEW n \in passed[k], entry'[k] # None,
                          entry'[k].seen < n
                   PROVE  n \in raced[k]
      BY <2>2 DEF StaleOnlyIfRaced
    <3>2. CASE k = reader[r].key
      BY <2>2, <2>3, <3>1, <3>2 DEF Bounded, Fills
    <3>3. CASE k # reader[r].key
      BY <2>3, <3>1, <3>3 DEF Bounded, StaleOnlyIfRaced
    <3>4. QED
      BY <3>2, <3>3
  <2>5. \A v \in Reader : reader'[v].at \in {"half", "set"} => reader'[v] = reader[v]
    BY <1>1, <2>2, TypeForm DEF Idle, Request
  <2>6. QED
    BY <1>1, <2>2, <2>4, <2>5 DEF Bounded, Fills
<1>7. ASSUME NEW r \in Reader, Ask(r) \/ FillStops(r) PROVE Bounded'
  <2>1. UNCHANGED <<changes, entry, writer, passed, raced>>
    BY <1>7 DEF Ask, FillStops, db, log
  <2>2. \A v \in Reader : reader'[v].at \in {"half", "set"} => reader'[v] = reader[v]
    BY <1>1, <1>7, TypeForm DEF Ask, FillStops, Idle, Request
  <2>3. QED
    BY <1>1, <2>1, <2>2 DEF Bounded, Fills, StaleOnlyIfRaced
<1>8. ASSUME NEW r \in Reader, ReadFirst(r) PROVE Bounded'
  <2>1. UNCHANGED <<changes, entry, writer, passed, raced>>
    BY <1>8 DEF ReadFirst, db, log
  <2>2. \A v \in Reader : reader'[v] = reader[v] \/ reader'[v].seen = changes
    BY <1>1, <1>8, FirstSeen
  <2>3. QED
    BY <1>1, <2>1, <2>2, NoOlder
<1>9. ASSUME NEW r \in Reader, ReadSecond(r) PROVE Bounded'
  <2>1. UNCHANGED <<changes, entry, writer, passed, raced>> /\ reader[r].at = "half"
    BY <1>9 DEF ReadSecond, db, log
  <2>2. /\ reader'[r].key = reader[r].key /\ reader'[r].seen = reader[r].seen
        /\ \A v \in Reader \ {r} : reader'[v] = reader[v]
    BY <1>1, <1>9, SecondFacts
  <2>3. QED
    BY <1>1, <2>1, <2>2, NoOlder
<1>10. ASSUME NEW k \in Key, Lapse(k) PROVE Bounded'
  <2>1. UNCHANGED <<changes, reader, writer, passed, raced>>
        /\ entry' = [entry EXCEPT ![k] = None]
    BY <1>10 DEF Lapse, db, log
  <2>2. StaleOnlyIfRaced'
    BY <1>1, <2>1 DEF Bounded, StaleOnlyIfRaced, TypeOK
  <2>3. QED
    BY <1>1, <2>1, <2>2 DEF Bounded, Fills
<1>11. ASSUME NEW w \in Writer, FlushStops(w) PROVE Bounded'
  <2>1. UNCHANGED <<changes, entry, reader, passed, raced>>
    BY <1>11 DEF FlushStops, db, log
  <2>2. \A v \in Writer : writer'[v].at = "flush" => writer'[v] = writer[v]
    BY <1>1, <1>11, TypeForm DEF FlushStops, Idle
  <2>3. QED
    BY <1>1, <2>1, <2>2, NoOlder
<1>12. CASE UNCHANGED vars
  BY <1>1, <1>12 DEF vars, Bounded, StaleOnlyIfRaced, Fills
<1>13. QED
  BY <1>3, <1>4, <1>5, <1>6, <1>7, <1>8, <1>9, <1>10, <1>11, <1>12 DEF Next, Fill

\* Once a flush has gone over a key, its entry is older than the flushed change only if
\* a fill that had read older data ran while the flush went over it.
THEOREM Freshness == Safety => []StaleOnlyIfRaced
<1>1. Init => Bounded
  <2>1. SUFFICES ASSUME Init PROVE Bounded
    OBVIOUS
  <2>2. \A k \in Key : passed[k] = {}
    BY <2>1 DEF Init
  <2>3. \A w \in Writer : writer[w].at = "idle"
    BY <2>1 DEF Init, Idle
  <2>4. QED
    BY <2>1, <2>2, <2>3, InitType DEF Bounded, StaleOnlyIfRaced
<1>2. Bounded /\ [Next]_vars => Bounded'
  BY BoundedStep
<1>3. Bounded => StaleOnlyIfRaced
  BY DEF Bounded
<1>4. QED
  BY <1>1, <1>2, <1>3, PTL DEF Safety
-----------------------------------------------------------------------------
(* Free places.                                                                *)

\* A half of an answer that says "free" leaves only the claims it has yet to read.
HalfTrue(r) ==
  reader[r].at = "half" /\ reader[r].free =>
    \/ reader[r].wasFree \/ reader[r].torn
    \/ place[reader[r].place] = {reader[r].left}

Truthful == TypeOK /\ FreeWasFree /\ \A r \in Reader : HalfTrue(r)

\* Whatever a change does to the places, the requests notice what they must.
LEMMA BecomesTruthful ==
  ASSUME Truthful, TypeOK', NEW after \in [Place -> SUBSET Kind], Becomes(after)
  PROVE  Truthful'
<1>1. TypeOK
  BY DEF Truthful
<1>2. FreeWasFree'
  BY <1>1, BecomesFacts DEF Truthful, FreeWasFree
<1>3. ASSUME NEW r \in Reader PROVE HalfTrue(r)'
  <2>1. SUFFICES ASSUME reader'[r].at = "half", reader'[r].free
                 PROVE  \/ reader'[r].wasFree \/ reader'[r].torn
                        \/ place'[reader'[r].place] = {reader'[r].left}
    BY DEF HalfTrue
  <2> DEFINE old == place[reader[r].place]
             new == after[reader[r].place]
  <2>2. reader[r].at = "half"
    BY <1>1, <2>1, BecomesFacts
  <2>3. /\ reader[r].free /\ reader'[r].left = reader[r].left
        /\ place'[reader'[r].place] = new
        /\ reader'[r].wasFree = (reader[r].wasFree \/ new = {})
        /\ reader'[r].torn = (reader[r].torn \/ (reader[r].left \in old /\ new \ old # {}))
    BY <1>1, <2>1, <2>2, BecomesFacts
  <2>4. reader[r].wasFree \/ reader[r].torn \/ old = {reader[r].left}
    BY <2>2, <2>3 DEF Truthful, HalfTrue
  <2> HIDE DEF old, new
  <2>5. CASE old = {reader[r].left} /\ new # {} /\ new \ old = {}
    <3>1. new = {reader[r].left}
      BY <2>5
    <3>2. QED
      BY <2>3, <3>1
  <2>6. CASE old = {reader[r].left} /\ new \ old # {}
    BY <2>3, <2>6
  <2>7. CASE new = {} \/ reader[r].wasFree \/ reader[r].torn
    BY <2>3, <2>7
  <2>8. QED
    BY <2>4, <2>5, <2>6, <2>7
<1>4. QED
  BY <1>2, <1>3 DEF Truthful

LEMMA TruthfulStep == ASSUME Truthful, [Next]_vars PROVE Truthful'
<1>1. TypeOK /\ TypeOK'
  BY TypeStep DEF Truthful
<1>2. ASSUME UNCHANGED place,
             \A r \in Reader : reader'[r].at \in {"half", "set"} => reader'[r] = reader[r]
      PROVE  Truthful'
  BY <1>1, <1>2 DEF Truthful, FreeWasFree, HalfTrue
<1>3. ASSUME NEW w \in Writer, Commit(w) PROVE Truthful'
  BY <1>1, <1>3, ChangeFacts, BecomesTruthful
<1>4. ASSUME AssignTables \/ HoldsLapse PROVE Truthful'
  BY <1>1, <1>4, ChangeFacts, BecomesTruthful
<1>5. ASSUME NEW r \in Reader, ReadFirst(r) PROVE Truthful'
  <2>1. PICK first, second \in Kind :
          LET now == place[reader[r].place]
              new == [at |-> "half", place |-> reader[r].place, key |-> reader[r].key,
                      seen |-> changes, left |-> second, free |-> first \notin now,
                      wasFree |-> now = {}, torn |-> FALSE]
          IN  /\ first # second /\ new \in Half
              /\ reader' = [reader EXCEPT ![r] = new]
              /\ reader[r].place \in Place /\ reader[r].key \in Key
    BY <1>1, <1>5, FirstFacts
  <2>2. /\ reader'[r].at = "half" /\ reader'[r].place = reader[r].place
        /\ reader'[r].left = second
        /\ reader'[r].free = (first \notin place[reader[r].place])
        /\ reader'[r].wasFree = (place[reader[r].place] = {})
        /\ \A v \in Reader \ {r} : reader'[v] = reader[v]
    BY <1>1, <2>1, TypeForm
  <2>3. UNCHANGED place
    BY <1>5 DEF ReadFirst, db
  <2>4. HalfTrue(r)'
    <3>1. place[reader[r].place] \in SUBSET Kind
      BY <1>1, <2>1, TypeForm
    <3>2. QED
      BY <2>1, <2>2, <2>3, <3>1 DEF HalfTrue, Kind
  <2>5. QED
    BY <1>1, <2>2, <2>3, <2>4 DEF Truthful, FreeWasFree, HalfTrue
<1>6. ASSUME NEW r \in Reader, ReadSecond(r) PROVE Truthful'
  <2>1. UNCHANGED place /\ reader[r].at = "half"
    BY <1>6 DEF ReadSecond, db
  <2>2. \A v \in Reader \ {r} : reader'[v] = reader[v]
    BY <1>1, <1>6, SecondFacts
  <2>3. /\ reader'[r].at = "set" /\ reader'[r].wasFree = reader[r].wasFree
        /\ reader'[r].torn = reader[r].torn
    BY <1>1, <1>6, SecondFacts DEF Full
  <2>4. reader'[r].free => reader[r].free /\ reader[r].left \notin place[reader[r].place]
    BY <1>1, <1>6, SecondFacts
  <2>5. reader'[r].free => reader'[r].wasFree \/ reader'[r].torn
    BY <2>1, <2>3, <2>4 DEF Truthful, HalfTrue
  <2>6. FreeWasFree'
    BY <2>2, <2>5 DEF Truthful, FreeWasFree
  <2>7. \A v \in Reader : HalfTrue(v)'
    BY <2>1, <2>2, <2>3 DEF Truthful, HalfTrue
  <2>8. QED
    BY <1>1, <2>6, <2>7 DEF Truthful
<1>7. ASSUME NEW r \in Reader, Ask(r) \/ Set(r) \/ FillStops(r) PROVE Truthful'
  <2>1. UNCHANGED place
    BY <1>7 DEF Ask, Set, FillStops, db
  <2>2. \A v \in Reader : reader'[v].at \in {"half", "set"} => reader'[v] = reader[v]
    BY <1>1, <1>7, TypeForm DEF Ask, Set, FillStops, Idle, Request
  <2>3. QED
    BY <1>2, <2>1, <2>2
<1>8. CASE UNCHANGED <<place, reader>>
  BY <1>2, <1>8
<1>9. ASSUME NEW w \in Writer, FlushStops(w) \/ \E k \in Key : FlushKey(w, k) PROVE Truthful'
  BY <1>8, <1>9 DEF FlushStops, FlushKey, Flushed, db
<1>10. ASSUME NEW k \in Key, Lapse(k) PROVE Truthful'
  BY <1>8, <1>10 DEF Lapse, db
<1>11. CASE UNCHANGED vars
  BY <1>8, <1>11 DEF vars
<1>12. QED
  BY <1>3, <1>4, <1>5, <1>6, <1>7, <1>9, <1>10, <1>11 DEF Next, Fill

\* An answer "free" was true while it was computed, or between its two reads a claim of
\* the kind read first was laid over one of the other kind.
THEOREM FreeTruth == Safety => []FreeWasFree
<1>1. Init => Truthful
  <2>1. SUFFICES ASSUME Init PROVE Truthful
    OBVIOUS
  <2>2. \A r \in Reader : reader[r].at = "idle"
    BY <2>1 DEF Init, Idle
  <2>3. QED
    BY <2>1, <2>2, InitType DEF Truthful, FreeWasFree, HalfTrue
<1>2. Truthful /\ [Next]_vars => Truthful'
  BY TruthfulStep
<1>3. Truthful => FreeWasFree
  BY DEF Truthful
<1>4. QED
  BY <1>1, <1>2, <1>3, PTL DEF Safety
=============================================================================
