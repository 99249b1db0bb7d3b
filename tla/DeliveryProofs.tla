---------------------------- MODULE DeliveryProofs ----------------------------
(* Theorems about the safety part of Delivery, for any number of changes, jobs *)
(* and workers of a kind.                                                      *)
EXTENDS Delivery, SequenceTheorems, TLAPS

-----------------------------------------------------------------------------
(* Sequences of jobs.                                                          *)

Once(s) == \A i, n \in 1..Len(s) : s[i] = s[n] => i = n

LEMMA WithoutFacts ==
  ASSUME NEW s \in Seq(Job), NEW j \in Job
  PROVE  /\ Without(s, j) \in Seq(Job)
         /\ \A i \in 1..Len(Without(s, j)) :
              \E n \in 1..Len(s) : Without(s, j)[i] = s[n]
         /\ Once(s) => /\ Once(Without(s, j))
                       /\ \A i \in 1..Len(Without(s, j)) : Without(s, j)[i] # j
<1>1. CASE \A i \in 1..Len(s) : s[i] # j
  BY <1>1 DEF Without
<1>2. CASE \E i \in 1..Len(s) : s[i] = j
  <2>1. PICK n \in 1..Len(s) :
          /\ s[n] = j
          /\ Without(s, j) = [i \in 1..(Len(s) - 1) |-> IF i < n THEN s[i] ELSE s[i + 1]]
    BY <1>2 DEF Without
  <2>2. Len(s) \in Nat /\ Len(s) - 1 \in Nat
    BY <2>1
  <2>3. \A i \in 1..Len(s) : s[i] \in Job
    BY ElementOfSeq
  <2>4. /\ Without(s, j) \in Seq(Job)
        /\ Len(Without(s, j)) = Len(s) - 1
    <3>1. \A i \in 1..(Len(s) - 1) : (IF i < n THEN s[i] ELSE s[i + 1]) \in Job
      BY <2>1, <2>2, <2>3
    <3>2. Without(s, j) \in [1..(Len(s) - 1) -> Job]
      BY <2>1, <3>1
    <3>3. QED
      BY <2>1, <2>2, <3>2, LenProperties
  <2>5. \A i \in 1..Len(Without(s, j)) :
          /\ i < n => Without(s, j)[i] = s[i]
          /\ ~(i < n) => Without(s, j)[i] = s[i + 1]
    BY <2>1, <2>4
  <2>6. \A i \in 1..Len(Without(s, j)) :
          LET m == IF i < n THEN i ELSE i + 1
          IN  m \in 1..Len(s) /\ m # n /\ Without(s, j)[i] = s[m]
    BY <2>1, <2>2, <2>4, <2>5
  <2>7. ASSUME Once(s)
        PROVE  /\ Once(Without(s, j))
               /\ \A i \in 1..Len(Without(s, j)) : Without(s, j)[i] # j
    <3>1. \A i \in 1..Len(Without(s, j)) : Without(s, j)[i] # j
      BY <2>1, <2>6, <2>7 DEF Once
    <3>2. ASSUME NEW i \in 1..Len(Without(s, j)), NEW k \in 1..Len(Without(s, j)),
                 Without(s, j)[i] = Without(s, j)[k]
          PROVE  i = k
      <4>1. (IF i < n THEN i ELSE i + 1) = (IF k < n THEN k ELSE k + 1)
        BY <2>6, <2>7, <3>2 DEF Once
      <4>2. i \in Nat /\ k \in Nat /\ n \in Nat
        BY <2>1, <2>2, <2>4
      <4>3. QED
        BY <4>1, <4>2
    <3>3. QED
      BY <3>1, <3>2 DEF Once
  <2>8. QED
    BY <2>4, <2>6, <2>7
<1>3. QED
  BY <1>1, <1>2

LEMMA AppendFacts ==
  ASSUME NEW s \in Seq(Job), NEW j \in Job
  PROVE  /\ Append(s, j) \in Seq(Job)
         /\ \A i \in 1..Len(Append(s, j)) :
              Append(s, j)[i] = j \/ \E n \in 1..Len(s) : Append(s, j)[i] = s[n]
         /\ Once(s) /\ (\A i \in 1..Len(s) : s[i] # j) => Once(Append(s, j))
<1>1. /\ Append(s, j) \in Seq(Job)
      /\ Len(Append(s, j)) = Len(s) + 1
      /\ \A i \in 1..Len(s) : Append(s, j)[i] = s[i]
      /\ Append(s, j)[Len(s) + 1] = j
  BY AppendProperties
<1>2. Len(s) \in Nat
  OBVIOUS
<1>3. \A i \in 1..Len(Append(s, j)) : i \in 1..Len(s) \/ i = Len(s) + 1
  BY <1>1, <1>2
<1>4. QED
  BY <1>1, <1>2, <1>3 DEF Once
-----------------------------------------------------------------------------
(* Types.                                                                      *)

Snapshot == [job : Job, attempts : Nat]
Status == {"none", "PENDING", "DONE", "FAILED"}
Row == [status : Status, attempts : Nat]
State == [at : {"poll", "send", "success", "failure"}, batch : Seq(Snapshot)]

LEMMA TypeForm ==
  ASSUME TypeOK
  PROVE  /\ job \in [Job -> Row] /\ due \in [Kind -> Seq(Job)]
         /\ worker \in [Worker -> State]
         /\ \A w \in Worker : At(w, "poll") <=> worker[w].batch = <<>>
BY DEF TypeOK, Row, Status, State, Snapshot

LEMMA KindFacts ==
  /\ \A j \in Job : j[2] \in Kind
  /\ \A w \in Worker : KindOf(w) \in Kind
BY DeliveryAssumption DEF Kind, KindOf

LEMMA BatchFacts ==
  ASSUME TypeOK, NEW w \in Worker, ~At(w, "poll")
  PROVE  /\ worker[w] \in State /\ worker[w].batch \in Seq(Snapshot)
         /\ Len(worker[w].batch) \in Nat /\ Len(worker[w].batch) >= 1
         /\ Current(w) = worker[w].batch[1] /\ Current(w) \in Snapshot
<1>1. worker[w].batch \in Seq(Snapshot) /\ worker[w].batch # <<>> /\ worker[w] \in State
  BY TypeForm DEF State
<1>2. Len(worker[w].batch) \in Nat /\ Len(worker[w].batch) >= 1
  BY <1>1, EmptySeq, LenProperties
<1>3. QED
  BY <1>1, <1>2, ElementOfSeq, HeadTailProperties DEF Current

LEMMA WritesType ==
  ASSUME TypeOK, NEW j \in Job, NEW status \in Status, NEW n \in Nat,
         NEW isDue \in BOOLEAN, Writes(j, status, n, isDue)
  PROVE  /\ job' \in [Job -> Row] /\ due' \in [Kind -> Seq(Job)]
         /\ job'[j] = [status |-> status, attempts |-> n]
         /\ \A i \in Job \ {j} : job'[i] = job[i]
<1>1. j[2] \in Kind /\ due[j[2]] \in Seq(Job)
  BY KindFacts, TypeForm
<1>2. Without(due[j[2]], j) \in Seq(Job)
  BY <1>1, WithoutFacts
<1>3. Append(Without(due[j[2]], j), j) \in Seq(Job)
  BY <1>2, AppendFacts
<1>4. QED
  BY <1>1, <1>2, <1>3, TypeForm DEF Writes, Row

\* The workers stay workers.
WorkersFine ==
  /\ worker' \in [Worker -> State]
  /\ \A w \in Worker : worker'[w].at = "poll" <=> worker'[w].batch = <<>>

LEMMA RestingType == Resting \in State /\ Resting.at = "poll" /\ Resting.batch = <<>>
BY EmptySeq DEF Resting, State

LEMMA GoesType ==
  ASSUME TypeOK, NEW w \in Worker, ~At(w, "poll"),
         NEW place \in {"send", "success", "failure"}, Goes(w, place)
  PROVE  WorkersFine
BY TypeForm DEF Goes, WorkersFine, State, At

LEMMA NextJobType ==
  ASSUME TypeOK, NEW w \in Worker, ~At(w, "poll"), NextJob(w)
  PROVE  WorkersFine
<1>1. CASE Len(worker[w].batch) = 1
  BY <1>1, RestingType, TypeForm DEF NextJob, WorkersFine, At
<1>2. CASE Len(worker[w].batch) # 1
  <2>1. Tail(worker[w].batch) \in Seq(Snapshot) /\ Tail(worker[w].batch) # <<>>
    <3>1. worker[w].batch \in Seq(Snapshot) /\ worker[w].batch # <<>>
      BY BatchFacts, TypeForm
    <3>2. /\ Tail(worker[w].batch) \in Seq(Snapshot)
          /\ Len(Tail(worker[w].batch)) = Len(worker[w].batch) - 1
      BY <3>1, HeadTailProperties
    <3>3. Len(worker[w].batch) \in Nat /\ Len(worker[w].batch) # 0
      BY <3>1, EmptySeq, LenProperties
    <3>4. Len(Tail(worker[w].batch)) # 0
      BY <1>2, <3>2, <3>3
    <3>5. QED
      BY <3>2, <3>4, EmptySeq
  <2>2. [at |-> "send", batch |-> Tail(worker[w].batch)] \in State
    BY <2>1 DEF State
  <2>3. QED
    BY <1>2, <2>1, <2>2, TypeForm DEF NextJob, WorkersFine, At
<1>3. QED
  BY <1>1, <1>2

LEMMA SnapshotsFacts ==
  ASSUME TypeOK, NEW s \in Seq(Job), s # <<>>
  PROVE  /\ Snapshots(s) \in Seq(Snapshot) /\ Snapshots(s) # <<>>
         /\ Len(Snapshots(s)) <= Len(s)
         /\ \A i \in 1..Len(Snapshots(s)) :
              /\ s[i] \in Job
              /\ Snapshots(s)[i] = [job |-> s[i], attempts |-> job[s[i]].attempts]
<1> DEFINE n == IF Len(s) < BATCH_SIZE THEN Len(s) ELSE BATCH_SIZE
<1>1. Len(s) \in Nat /\ Len(s) >= 1
  BY EmptySeq, LenProperties
<1>2. n \in Nat /\ n >= 1 /\ n <= Len(s)
  BY <1>1, DeliveryAssumption
<1>3. \A i \in 1..n : s[i] \in Job /\ [job |-> s[i], attempts |-> job[s[i]].attempts] \in Snapshot
  BY <1>1, <1>2, ElementOfSeq, TypeForm DEF Snapshot, Row
<1>4. Snapshots(s) = [i \in 1..n |-> [job |-> s[i], attempts |-> job[s[i]].attempts]]
  BY DEF Snapshots
<1> HIDE DEF n
<1>5. Snapshots(s) \in [1..n -> Snapshot]
  BY <1>3, <1>4
<1>6. Snapshots(s) \in Seq(Snapshot) /\ Len(Snapshots(s)) = n
  BY <1>2, <1>5, LenProperties
<1>7. Snapshots(s) # <<>>
  BY <1>2, <1>6
<1>8. \A i \in 1..n : Snapshots(s)[i] = [job |-> s[i], attempts |-> job[s[i]].attempts]
  BY <1>4
<1>9. QED
  BY <1>2, <1>3, <1>6, <1>7, <1>8

LEMMA ApiType ==
  ASSUME TypeOK, NEW c \in Change,
         Commit(c) \/ Enqueue(c) \/ EnqueueErrs(c) \/ CrashApi(c)
  PROVE  TypeOK'
<1>1. CASE Enqueue(c)
  <2>1. PICK j \in ToCreate(c) : Writes(j, "PENDING", 0, TRUE)
    BY <1>1 DEF Enqueue
  <2>2. job' \in [Job -> Row] /\ due' \in [Kind -> Seq(Job)]
    BY <2>1, WritesType DEF ToCreate, Status
  <2>3. QED
    BY <1>1, <2>2 DEF Enqueue, log, TypeOK, Row, Status, At
<1>2. CASE Commit(c)
  BY <1>2 DEF Commit, rows, log, TypeOK, At
<1>3. CASE EnqueueErrs(c) \/ CrashApi(c)
  <2>1. lost' \subseteq Job
    BY <1>3 DEF EnqueueErrs, CrashApi, ToCreate, TypeOK
  <2>2. faults' \in 0..Faults
    BY <1>3, DeliveryAssumption DEF EnqueueErrs, CrashApi, Fault, TypeOK
  <2>3. QED
    BY <1>3, <2>1, <2>2 DEF EnqueueErrs, CrashApi, rows, log, TypeOK, At
<1>4. QED
  BY <1>1, <1>2, <1>3

LEMMA WorkerType ==
  ASSUME TypeOK, NEW w \in Worker,
         Works(w) \/ SuccessErrs(w) \/ FailureErrs(w) \/ StopWorker(w)
  PROVE  TypeOK'
<1>1. CASE Poll(w)
  <2>1. due[KindOf(w)] \in Seq(Job)
    BY KindFacts, TypeForm
  <2>2. Snapshots(due[KindOf(w)]) \in Seq(Snapshot) /\ Snapshots(due[KindOf(w)]) # <<>>
    BY <1>1, <2>1, SnapshotsFacts DEF Poll
  <2>3. [at |-> "send", batch |-> Snapshots(due[KindOf(w)])] \in State
    BY <2>2 DEF State
  <2>4. WorkersFine
    BY <1>1, <2>2, <2>3, TypeForm DEF Poll, WorkersFine, At
  <2>5. QED
    BY <1>1, <2>4 DEF Poll, rows, log, TypeOK, WorkersFine, State, Snapshot, At
<1>2. CASE Send(w)
  <2>1. ~At(w, "poll") /\ Current(w).job \in Job
    BY <1>2, BatchFacts DEF Send, At, Snapshot
  <2>2. WorkersFine
    BY <1>2, <2>1, GoesType DEF Send
  <2>3. sends' \in [Job -> Nat] /\ accepted' \subseteq Job /\ owed' \subseteq Job
    <3>1. /\ sends' = [sends EXCEPT ![Current(w).job] = @ + 1]
          /\ owed' = owed \ {Current(w).job}
          /\ accepted' \in {accepted, accepted \cup {Current(w).job}}
      BY <1>2 DEF Send
    <3>2. QED
      BY <2>1, <3>1 DEF TypeOK
  <2>4. QED
    BY <1>2, <2>2, <2>3 DEF Send, rows, TypeOK, WorkersFine, State, Snapshot, At
<1>3. CASE RecordSuccess(w) \/ RecordFailure(w)
  <2>1. ~At(w, "poll") /\ Current(w).job \in Job /\ Current(w).attempts \in Nat
    BY <1>3, BatchFacts DEF RecordSuccess, RecordFailure, At, Snapshot
  <2>2. \E status \in Status :
          Writes(Current(w).job, status, Current(w).attempts + 1, FALSE)
    BY <1>3 DEF RecordSuccess, RecordFailure, Status
  <2>3. job' \in [Job -> Row] /\ due' \in [Kind -> Seq(Job)]
    <3>1. PICK status \in Status :
            Writes(Current(w).job, status, Current(w).attempts + 1, FALSE)
      BY <2>2
    <3>2. Current(w).attempts + 1 \in Nat
      BY <2>1
    <3>3. QED
      BY <2>1, <3>1, <3>2, WritesType
  <2>4. WorkersFine
    BY <1>3, <2>1, NextJobType DEF RecordSuccess, RecordFailure
  <2>5. QED
    BY <1>3, <2>3, <2>4
       DEF RecordSuccess, RecordFailure, log, TypeOK, WorkersFine, State, Snapshot, Row,
           Status, At
<1>4. CASE SuccessErrs(w) \/ FailureErrs(w) \/ StopWorker(w)
  <2>1. ~At(w, "poll")
    BY <1>4 DEF SuccessErrs, FailureErrs, StopWorker, At
  <2>2. Goes(w, "failure") \/ NextJob(w) \/ worker' = [worker EXCEPT ![w] = Resting]
    BY <1>4 DEF SuccessErrs, FailureErrs, StopWorker
  <2>3. WorkersFine
    <3>1. CASE worker' = [worker EXCEPT ![w] = Resting]
      BY <3>1, RestingType, TypeForm DEF WorkersFine, At
    <3>2. QED
      BY <2>1, <2>2, <3>1, GoesType, NextJobType
  <2>4. faults' \in 0..Faults
    BY <1>4, DeliveryAssumption DEF SuccessErrs, FailureErrs, StopWorker, Fault, TypeOK
  <2>5. QED
    BY <1>4, <2>3, <2>4
       DEF SuccessErrs, FailureErrs, StopWorker, rows, log, TypeOK, WorkersFine, State,
           Snapshot, At
<1>5. QED
  BY <1>1, <1>2, <1>3, <1>4 DEF Works

LEMMA StaffType ==
  ASSUME TypeOK, NEW j \in Job,
         ComesDue(j) \/ Redeliver(j) \/ ReadForRequeue(j) \/ Requeue(j)
  PROVE  TypeOK'
<1>1. CASE ComesDue(j)
  <2>1. j[2] \in Kind /\ Append(due[j[2]], j) \in Seq(Job)
    BY KindFacts, TypeForm, AppendFacts
  <2>2. due' \in [Kind -> Seq(Job)]
    BY <1>1, <2>1, TypeForm DEF ComesDue
  <2>3. QED
    BY <1>1, <2>2 DEF ComesDue, log, TypeOK, At
<1>2. CASE Redeliver(j) \/ Requeue(j)
  <2>1. job' \in [Job -> Row] /\ due' \in [Kind -> Seq(Job)]
    BY <1>2, WritesType DEF Redeliver, Requeue, Status
  <2>2. owed' \subseteq Job /\ requeued' \in [Job -> Nat] /\ asks' \subseteq Job
    <3>1. owed' \subseteq Job
      BY <1>2 DEF Redeliver, Requeue, Owed, TypeOK
    <3>2. requeued' = [requeued EXCEPT ![j] = @ + 1]
      BY <1>2 DEF Redeliver, Requeue
    <3>3. asks' \subseteq Job
      BY <1>2 DEF Redeliver, Requeue, TypeOK
    <3>4. QED
      BY <3>1, <3>2, <3>3 DEF TypeOK
  <2>3. QED
    BY <1>2, <2>1, <2>2 DEF Redeliver, Requeue, TypeOK, Row, Status, At
<1>3. CASE ReadForRequeue(j)
  BY <1>3 DEF ReadForRequeue, rows, log, TypeOK, At
<1>4. QED
  BY <1>1, <1>2, <1>3

LEMMA InitType == ASSUME Init PROVE TypeOK
<1>1. job \in [Job -> Row] /\ due \in [Kind -> Seq(Job)] /\ worker \in [Worker -> State]
  BY RestingType, EmptySeq DEF Init, Row, Status
<1>2. sends \in [Job -> Nat] /\ requeued \in [Job -> Nat]
  BY DEF Init
<1>3. \A w \in Worker : worker[w] = Resting
  BY DEF Init
<1>4. QED
  BY <1>1, <1>2, <1>3, RestingType, DeliveryAssumption
     DEF Init, TypeOK, Row, Status, State, Snapshot, At

\* Type correctness of every variable, for any number of workers, jobs and batches; it
\* includes that a worker rests if and only if its batch is done.
THEOREM Typing == Safety => []TypeOK
<1>1. TypeOK /\ [Next]_vars => TypeOK'
  <2>1. SUFFICES ASSUME TypeOK, [Next]_vars PROVE TypeOK'
    OBVIOUS
  <2>2. CASE UNCHANGED vars
    BY <2>1, <2>2 DEF vars, TypeOK, At
  <2>3. QED
    BY <2>1, <2>2, ApiType, WorkerType, StaffType DEF Next
<1>2. QED
  BY <1>1, InitType, PTL DEF Safety
-----------------------------------------------------------------------------
(* What a step does to the batches.                                            *)

LEMMA NextJobFacts ==
  ASSUME TypeOK, NEW w \in Worker, ~At(w, "poll"), NextJob(w)
  PROVE  /\ worker'[w].at \in {"poll", "send"}
         /\ \A v \in Worker \ {w} : worker'[v] = worker[v]
         /\ \A i \in 1..Len(worker'[w].batch) :
              /\ i + 1 \in 1..Len(worker[w].batch)
              /\ worker'[w].batch[i] = worker[w].batch[i + 1]
<1>1. worker \in [Worker -> State] /\ worker[w].batch \in Seq(Snapshot)
  BY BatchFacts, TypeForm
<1>2. Len(worker[w].batch) \in Nat /\ Len(worker[w].batch) >= 1
  BY BatchFacts
<1>3. CASE Len(worker[w].batch) = 1
  <2>1. worker'[w] = Resting /\ \A v \in Worker \ {w} : worker'[v] = worker[v]
    BY <1>1, <1>3 DEF NextJob
  <2>2. Len(worker'[w].batch) = 0
    BY <2>1, RestingType, EmptySeq
  <2>3. QED
    BY <2>1, <2>2 DEF Resting
<1>4. CASE Len(worker[w].batch) # 1
  <2>1. /\ worker'[w].at = "send" /\ worker'[w].batch = Tail(worker[w].batch)
        /\ \A v \in Worker \ {w} : worker'[v] = worker[v]
    BY <1>1, <1>4 DEF NextJob
  <2>2. /\ Len(Tail(worker[w].batch)) = Len(worker[w].batch) - 1
        /\ \A i \in 1..Len(Tail(worker[w].batch)) :
             Tail(worker[w].batch)[i] = worker[w].batch[i + 1]
    <3>1. worker[w].batch # <<>>
      BY BatchFacts, TypeForm
    <3>2. QED
      BY <1>1, <3>1, HeadTailProperties
  <2>3. QED
    BY <1>2, <2>1, <2>2
<1>5. QED
  BY <1>3, <1>4

LEMMA GoesFacts ==
  ASSUME TypeOK, NEW w \in Worker, NEW place \in {"send", "success", "failure"},
         Goes(w, place)
  PROVE  /\ worker'[w].at = place /\ worker'[w].batch = worker[w].batch
         /\ \A v \in Worker \ {w} : worker'[v] = worker[v]
BY TypeForm DEF Goes, State

LEMMA RestFacts ==
  ASSUME TypeOK, NEW w \in Worker, worker' = [worker EXCEPT ![w] = Resting]
  PROVE  /\ worker'[w].at = "poll" /\ Len(worker'[w].batch) = 0
         /\ \A v \in Worker \ {w} : worker'[v] = worker[v]
<1>1. worker'[w] = Resting /\ \A v \in Worker \ {w} : worker'[v] = worker[v]
  BY TypeForm
<1>2. Len(Resting.batch) = 0
  BY RestingType, EmptySeq
<1>3. QED
  BY <1>1, <1>2 DEF Resting

LEMMA WorkersOnly ==
  ASSUME TypeOK, NEW w \in Worker,
         SuccessErrs(w) \/ FailureErrs(w) \/ StopWorker(w)
  PROVE  /\ UNCHANGED <<committed, lost, rows, asks, log>>
         /\ ~At(w, "poll")
         /\ \/ At(w, "success") /\ Goes(w, "failure")
            \/ NextJob(w)
            \/ worker' = [worker EXCEPT ![w] = Resting]
BY DEF SuccessErrs, FailureErrs, StopWorker, At
-----------------------------------------------------------------------------
(* The record is honest.                                                       *)

\* What a worker holds of a row may be old, but it has not counted more attempts than
\* were made; while the outcome is being recorded, the attempt it stands for is one of
\* those that were made.
Fair(state, s, good) ==
  /\ \A i \in 1..Len(state.batch) : state.batch[i].attempts <= s[state.batch[i].job]
  /\ state.at \in {"success", "failure"}
       => Head(state.batch).attempts + 1 <= s[Head(state.batch).job]
  /\ state.at = "success" => Head(state.batch).job \in good

CopiesAreHonest == \A w \in Worker : Fair(worker[w], sends, accepted)

Honest == TypeOK /\ RecordIsHonest /\ CopiesAreHonest

LEMMA WritesHonest ==
  ASSUME TypeOK, RecordIsHonest, NEW j \in Job, NEW status \in Status, NEW n \in Nat,
         NEW isDue \in BOOLEAN, Writes(j, status, n, isDue),
         UNCHANGED <<sends, accepted>>, n <= sends[j],
         status = "DONE" => j \in accepted,
         status = "FAILED" => sends[j] >= MAX_ATTEMPTS
  PROVE  RecordIsHonest'
<1>1. job'[j] = [status |-> status, attempts |-> n] /\ \A i \in Job \ {j} : job'[i] = job[i]
  BY WritesType
<1>2. QED
  BY <1>1 DEF RecordIsHonest

\* A step of w that only moves on in its batch, or drops it.
LEMMA MovesHonest ==
  ASSUME Honest, NEW w \in Worker, ~At(w, "poll"), UNCHANGED <<sends, accepted>>,
         \/ At(w, "success") /\ Goes(w, "failure")
         \/ NextJob(w)
         \/ worker' = [worker EXCEPT ![w] = Resting]
  PROVE  CopiesAreHonest'
<1>1. TypeOK /\ Fair(worker[w], sends, accepted)
  BY DEF Honest, CopiesAreHonest
<1>2. \A v \in Worker \ {w} : worker'[v] = worker[v]
  BY <1>1, GoesFacts, NextJobFacts, RestFacts
<1>3. Fair(worker'[w], sends, accepted)
  <2>1. CASE At(w, "success") /\ Goes(w, "failure")
    <3>1. worker'[w].at = "failure" /\ worker'[w].batch = worker[w].batch
      BY <1>1, <2>1, GoesFacts
    <3>2. QED
      BY <1>1, <2>1, <3>1 DEF Fair, At
  <2>2. CASE NextJob(w)
    <3>1. /\ worker'[w].at \in {"poll", "send"}
          /\ \A i \in 1..Len(worker'[w].batch) :
               /\ i + 1 \in 1..Len(worker[w].batch)
               /\ worker'[w].batch[i] = worker[w].batch[i + 1]
      BY <1>1, <2>2, NextJobFacts
    <3>2. \A i \in 1..Len(worker'[w].batch) :
            worker'[w].batch[i].attempts <= sends[worker'[w].batch[i].job]
      BY <1>1, <3>1 DEF Fair
    <3>3. QED
      BY <3>1, <3>2 DEF Fair
  <2>3. CASE worker' = [worker EXCEPT ![w] = Resting]
    <3>1. worker'[w].at = "poll" /\ Len(worker'[w].batch) = 0
      BY <1>1, <2>3, RestFacts
    <3>2. QED
      BY <3>1 DEF Fair
  <2>4. QED
    BY <2>1, <2>2, <2>3
<1>4. QED
  BY <1>2, <1>3 DEF Honest, CopiesAreHonest

LEMMA SendHonest ==
  ASSUME Honest, NEW w \in Worker, Send(w)
  PROVE  Honest'
<1>1. TypeOK /\ TypeOK'
  BY WorkerType DEF Works, Honest
<1> DEFINE j == Current(w).job
<1>2. ~At(w, "poll") /\ j \in Job /\ Current(w) = Head(worker[w].batch)
  BY <1>1, BatchFacts DEF Send, At, Snapshot, Current
<1>3. sends \in [Job -> Nat] /\ job \in [Job -> Row]
  BY <1>1, TypeForm DEF TypeOK
<1>4. /\ sends' = [sends EXCEPT ![j] = @ + 1]
      /\ UNCHANGED job
      /\ \/ accepted' = accepted \cup {j} /\ Goes(w, "success")
         \/ accepted' \in {accepted, accepted \cup {j}} /\ Goes(w, "failure")
  BY DEF Send, rows
<1>5. worker'[w].at = "success" => j \in accepted'
  BY <1>1, <1>4, GoesFacts
<1>6. /\ worker'[w].batch = worker[w].batch
      /\ \A v \in Worker \ {w} : worker'[v] = worker[v]
      /\ accepted \subseteq accepted'
  BY <1>1, <1>4, GoesFacts
<1>7. /\ sends'[j] = sends[j] + 1
      /\ \A i \in Job : sends[i] \in Nat /\ sends'[i] \in Nat /\ sends[i] <= sends'[i]
  BY <1>2, <1>3, <1>4
<1> HIDE DEF j
<1>8. RecordIsHonest'
  <2>1. SUFFICES ASSUME NEW i \in Job
                 PROVE  /\ job[i].status = "DONE" => i \in accepted'
                        /\ job[i].status = "FAILED" => sends'[i] >= MAX_ATTEMPTS
                        /\ job[i].attempts <= sends'[i]
    BY <1>4 DEF RecordIsHonest
  <2>2. /\ job[i].status = "DONE" => i \in accepted
        /\ job[i].status = "FAILED" => sends[i] >= MAX_ATTEMPTS
        /\ job[i].attempts <= sends[i]
    BY DEF Honest, RecordIsHonest
  <2>3. job[i].attempts \in Nat /\ MAX_ATTEMPTS \in Nat
    BY <1>3, DeliveryAssumption DEF Row
  <2>4. QED
    BY <1>6, <1>7, <2>2, <2>3
<1>9. CopiesAreHonest'
  <2>1. SUFFICES ASSUME NEW v \in Worker PROVE Fair(worker'[v], sends', accepted')
    BY DEF CopiesAreHonest
  <2>2. Fair(worker[v], sends, accepted) /\ worker'[v].batch = worker[v].batch
    BY <1>6 DEF Honest, CopiesAreHonest
  <2>3. worker[v] \in State /\ worker[v].batch \in Seq(Snapshot)
    BY <1>1, TypeForm DEF State
  <2>4. \A i \in 1..Len(worker[v].batch) :
          worker[v].batch[i].attempts <= sends'[worker[v].batch[i].job]
    <3>1. SUFFICES ASSUME NEW i \in 1..Len(worker[v].batch)
                   PROVE  worker[v].batch[i].attempts <= sends'[worker[v].batch[i].job]
      OBVIOUS
    <3>2. worker[v].batch[i].job \in Job /\ worker[v].batch[i].attempts \in Nat
      <4>1. worker[v].batch[i] \in Snapshot
        BY <2>3, <3>1, ElementOfSeq
      <4>2. QED
        BY <4>1 DEF Snapshot
    <3>3. worker[v].batch[i].attempts <= sends[worker[v].batch[i].job]
      BY <2>2 DEF Fair
    <3>4. QED
      BY <1>7, <3>2, <3>3
  <2>5. CASE v = w
    <3>1. /\ Head(worker[w].batch).job = j /\ Head(worker[w].batch).attempts \in Nat
          /\ Head(worker[w].batch).attempts <= sends[j]
      <4>1. /\ Current(w) = worker[w].batch[1] /\ Current(w) \in Snapshot
            /\ Len(worker[w].batch) \in Nat /\ Len(worker[w].batch) >= 1
        BY <1>1, <1>2, BatchFacts
      <4>2. worker[w].batch[1].attempts <= sends[worker[w].batch[1].job]
        BY <2>2, <2>5, <4>1 DEF Fair
      <4>3. QED
        BY <1>2, <4>1, <4>2 DEF Snapshot, j
    <3>2. Head(worker[w].batch).attempts + 1 <= sends'[j]
      BY <1>2, <1>7, <3>1
    <3>3. QED
      BY <1>5, <2>2, <2>4, <2>5, <3>1, <3>2 DEF Fair
  <2>6. CASE v # w
    <3>1. worker'[v] = worker[v]
      BY <1>6, <2>6
    <3>2. CASE worker[v].at \in {"success", "failure"}
      <4>1. Head(worker[v].batch).job \in Job /\ Head(worker[v].batch).attempts \in Nat
        BY <1>1, <3>2, BatchFacts DEF At, Snapshot, Current
      <4>2. Head(worker[v].batch).attempts + 1 <= sends'[Head(worker[v].batch).job]
        BY <1>7, <2>2, <3>2, <4>1 DEF Fair
      <4>3. QED
        BY <1>6, <2>2, <2>4, <3>1, <4>2 DEF Fair
    <3>3. CASE worker[v].at \notin {"success", "failure"}
      BY <2>4, <3>1, <3>3 DEF Fair
    <3>4. QED
      BY <3>2, <3>3
  <2>7. QED
    BY <2>5, <2>6
<1>10. QED
  BY <1>1, <1>8, <1>9 DEF Honest

LEMMA RecordHonest ==
  ASSUME Honest, NEW w \in Worker, RecordSuccess(w) \/ RecordFailure(w)
  PROVE  Honest'
<1>1. TypeOK /\ TypeOK'
  BY WorkerType DEF Works, Honest
<1> DEFINE j == Current(w).job
           n == Current(w).attempts + 1
<1>2. /\ ~At(w, "poll") /\ j \in Job /\ n \in Nat
      /\ Current(w) = Head(worker[w].batch)
  <2>1. ~At(w, "poll")
    BY DEF RecordSuccess, RecordFailure, At
  <2>2. Current(w) \in Snapshot
    BY <1>1, <2>1, BatchFacts
  <2>3. QED
    BY <2>1, <2>2 DEF Snapshot, Current
<1>3. UNCHANGED <<sends, accepted>> /\ NextJob(w)
  BY DEF RecordSuccess, RecordFailure, log
<1>4. n <= sends[j] /\ (RecordSuccess(w) => j \in accepted)
  <2>1. Fair(worker[w], sends, accepted)
    BY DEF Honest, CopiesAreHonest
  <2>2. QED
    BY <1>2, <2>1 DEF RecordSuccess, RecordFailure, At, Fair
<1>5. RecordIsHonest'
  <2>1. CASE RecordSuccess(w)
    <3>1. Writes(j, "DONE", n, FALSE)
      BY <2>1 DEF RecordSuccess
    <3> HIDE DEF j, n
    <3>2. QED
      BY <1>1, <1>2, <1>3, <1>4, <2>1, <3>1, WritesHonest DEF Honest, Status
  <2>2. CASE RecordFailure(w) /\ n < MAX_ATTEMPTS
    <3>1. Writes(j, "PENDING", n, FALSE)
      BY <2>2 DEF RecordFailure
    <3> HIDE DEF j, n
    <3>2. QED
      BY <1>1, <1>2, <1>3, <1>4, <3>1, WritesHonest DEF Honest, Status
  <2>3. CASE RecordFailure(w) /\ ~(n < MAX_ATTEMPTS)
    <3>1. Writes(j, "FAILED", n, FALSE)
      BY <2>3 DEF RecordFailure
    <3>2. sends[j] >= MAX_ATTEMPTS
      <4>1. sends[j] \in Nat /\ MAX_ATTEMPTS \in Nat
        BY <1>1, <1>2, DeliveryAssumption DEF TypeOK
      <4> HIDE DEF j, n
      <4>2. QED
        BY <1>2, <1>4, <2>3, <4>1
    <3> HIDE DEF j, n
    <3>3. QED
      BY <1>1, <1>2, <1>3, <1>4, <3>1, <3>2, WritesHonest DEF Honest, Status
  <2>4. QED
    BY <2>1, <2>2, <2>3
<1>6. CopiesAreHonest'
  BY <1>2, <1>3, MovesHonest
<1>7. QED
  BY <1>1, <1>5, <1>6 DEF Honest

LEMMA PollHonest ==
  ASSUME Honest, NEW w \in Worker, Poll(w)
  PROVE  Honest'
<1>1. TypeOK /\ TypeOK'
  BY WorkerType DEF Works, Honest
<1> DEFINE s == due[KindOf(w)]
<1>2. s \in Seq(Job) /\ s # <<>>
  BY <1>1, KindFacts, TypeForm DEF Poll
<1>3. \A i \in 1..Len(Snapshots(s)) :
        s[i] \in Job /\ Snapshots(s)[i] = [job |-> s[i], attempts |-> job[s[i]].attempts]
  BY <1>1, <1>2, SnapshotsFacts
<1>4. /\ worker'[w] = [at |-> "send", batch |-> Snapshots(s)]
      /\ \A v \in Worker \ {w} : worker'[v] = worker[v]
      /\ UNCHANGED <<job, sends, accepted>>
  BY <1>1, TypeForm DEF Poll, rows, log
<1> HIDE DEF s
<1>5. Fair(worker'[w], sends, accepted)
  <2>1. \A i \in 1..Len(Snapshots(s)) :
          Snapshots(s)[i].attempts <= sends[Snapshots(s)[i].job]
    <3>1. SUFFICES ASSUME NEW i \in 1..Len(Snapshots(s))
                   PROVE  Snapshots(s)[i].attempts <= sends[Snapshots(s)[i].job]
      OBVIOUS
    <3>2. /\ s[i] \in Job /\ Snapshots(s)[i].job = s[i]
          /\ Snapshots(s)[i].attempts = job[s[i]].attempts
      <4>1. s[i] \in Job /\ Snapshots(s)[i] = [job |-> s[i], attempts |-> job[s[i]].attempts]
        BY <1>3, <3>1
      <4>2. QED
        BY <4>1
    <3>3. job[s[i]].attempts <= sends[s[i]]
      BY <3>2 DEF Honest, RecordIsHonest
    <3>4. QED
      BY <3>2, <3>3
  <2>2. QED
    BY <1>4, <2>1 DEF Fair
<1>6. QED
  BY <1>1, <1>4, <1>5 DEF Honest, CopiesAreHonest, RecordIsHonest

\* A row is written back by the request or by staff with no attempt made.
LEMMA QueueHonest ==
  ASSUME Honest, NEW j \in Job, Writes(j, "PENDING", 0, TRUE), TypeOK',
         UNCHANGED <<worker, sends, accepted>>
  PROVE  Honest'
<1>1. 0 <= sends[j]
  BY DEF Honest, TypeOK
<1>2. RecordIsHonest'
  BY <1>1, WritesHonest DEF Honest, Status
<1>3. QED
  BY <1>2 DEF Honest, CopiesAreHonest

\* A job is DONE only if it was accepted, given up only after MAX_ATTEMPTS sends, and no
\* attempt is counted that was not made: for any number of workers of a kind, which may
\* hold the same row at the same time.
THEOREM HonestRecord == Safety => []RecordIsHonest
<1>1. Init => Honest
  <2>1. SUFFICES ASSUME Init PROVE Honest
    OBVIOUS
  <2>2. TypeOK /\ RecordIsHonest
    BY <2>1, InitType DEF Init, RecordIsHonest
  <2>3. \A w \in Worker : worker[w] = Resting /\ Len(worker[w].batch) = 0
    BY <2>1, RestingType, EmptySeq DEF Init
  <2>4. CopiesAreHonest
    BY <2>3 DEF CopiesAreHonest, Fair, Resting
  <2>5. QED
    BY <2>2, <2>4 DEF Honest
<1>2. Honest /\ [Next]_vars => Honest'
  <2>1. SUFFICES ASSUME Honest, [Next]_vars PROVE Honest'
    OBVIOUS
  <2>2. TypeOK /\ TypeOK'
    <3>1. CASE UNCHANGED vars
      BY <2>1, <3>1 DEF Honest, vars, TypeOK, At
    <3>2. QED
      BY <2>1, <3>1, ApiType, WorkerType, StaffType DEF Honest, Next
  <2>3. CASE UNCHANGED <<job, worker, sends, accepted>>
    BY <2>1, <2>2, <2>3 DEF Honest, RecordIsHonest, CopiesAreHonest
  <2>4. ASSUME NEW c \in Change, Commit(c) \/ Enqueue(c) \/ EnqueueErrs(c) \/ CrashApi(c)
        PROVE  Honest'
    <3>1. CASE Enqueue(c)
      <4>1. PICK j \in ToCreate(c) : Writes(j, "PENDING", 0, TRUE)
        BY <3>1 DEF Enqueue
      <4>2. UNCHANGED <<worker, sends, accepted>> /\ j \in Job
        BY <3>1, <4>1 DEF Enqueue, log, ToCreate
      <4>3. QED
        BY <2>1, <2>2, <4>1, <4>2, QueueHonest
    <3>2. CASE Commit(c) \/ EnqueueErrs(c) \/ CrashApi(c)
      BY <2>3, <3>2 DEF Commit, EnqueueErrs, CrashApi, rows, log
    <3>3. QED
      BY <2>4, <3>1, <3>2
  <2>5. ASSUME NEW w \in Worker, Works(w) \/ SuccessErrs(w) \/ FailureErrs(w) \/ StopWorker(w)
        PROVE  Honest'
    <3>1. CASE Works(w)
      BY <2>1, <3>1, PollHonest, SendHonest, RecordHonest DEF Works
    <3>2. CASE SuccessErrs(w) \/ FailureErrs(w) \/ StopWorker(w)
      <4>1. UNCHANGED <<job, sends, accepted>>
        BY <2>2, <3>2, WorkersOnly DEF rows, log
      <4>2. CopiesAreHonest'
        BY <2>1, <2>2, <3>2, <4>1, WorkersOnly, MovesHonest
      <4>3. QED
        BY <2>1, <2>2, <4>1, <4>2 DEF Honest, RecordIsHonest
    <3>3. QED
      BY <2>5, <3>1, <3>2
  <2>6. ASSUME NEW j \in Job, ComesDue(j) \/ Redeliver(j) \/ ReadForRequeue(j) \/ Requeue(j)
        PROVE  Honest'
    <3>1. CASE Redeliver(j) \/ Requeue(j)
      <4>1. Writes(j, "PENDING", 0, TRUE) /\ UNCHANGED <<worker, sends, accepted>>
        BY <3>1 DEF Redeliver, Requeue
      <4>2. QED
        BY <2>1, <2>2, <4>1, QueueHonest
    <3>2. CASE ComesDue(j) \/ ReadForRequeue(j)
      BY <2>3, <3>2 DEF ComesDue, ReadForRequeue, rows, log
    <3>3. QED
      BY <2>6, <3>1, <3>2
  <2>7. CASE UNCHANGED vars
    BY <2>3, <2>7 DEF vars
  <2>8. QED
    BY <2>1, <2>4, <2>5, <2>6, <2>7 DEF Next
<1>3. Honest => RecordIsHonest
  BY DEF Honest
<1>4. QED
  BY <1>1, <1>2, <1>3, PTL DEF Safety
-----------------------------------------------------------------------------
(* What is settled stays settled.                                              *)

\* A row that is due is PENDING, of its kind, and stands in the order once.
DueRows ==
  \A k \in Kind :
    /\ Once(due[k])
    /\ \A i \in 1..Len(due[k]) : job[due[k][i]].status = "PENDING" /\ due[k][i][2] = k

\* The rows of a batch b of kind k are PENDING, and all different.
Live(b, k, r) ==
  \A i \in 1..Len(b) :
    /\ b[i].job[2] = k /\ r[b[i].job].status = "PENDING"
    /\ \A n \in 1..Len(b) : b[n].job = b[i].job => n = i

\* With one worker of a kind nobody else writes the rows of its batch, but staff, who
\* leave them PENDING.
HeldRows == SoleWorkers => \A w \in Worker : Live(worker[w].batch, KindOf(w), job)

Settling == TypeOK /\ DueRows /\ HeldRows

LEMMA ShiftLive ==
  ASSUME NEW b, NEW c, NEW k, NEW r, Live(b, k, r), Len(c) \in Nat, 1 \in 1..Len(b),
         \A i \in 1..Len(c) : i + 1 \in 1..Len(b) /\ c[i] = b[i + 1]
  PROVE  Live(c, k, r) /\ \A i \in 1..Len(c) : c[i].job # b[1].job
<1>1. \A i \in 1..Len(c) : i \in Nat /\ i >= 1
  OBVIOUS
<1>2. ASSUME NEW i \in 1..Len(c)
      PROVE  /\ c[i].job[2] = k /\ r[c[i].job].status = "PENDING"
             /\ c[i].job # b[1].job
             /\ \A n \in 1..Len(c) : c[n].job = c[i].job => n = i
  <2>1. i + 1 \in 1..Len(b) /\ c[i] = b[i + 1] /\ i \in Nat /\ i >= 1
    BY <1>1
  <2>2. b[i + 1].job[2] = k /\ r[b[i + 1].job].status = "PENDING"
    BY <2>1 DEF Live
  <2>3. \A n \in 1..Len(b) : b[n].job = b[i + 1].job => n = i + 1
    BY <2>1 DEF Live
  <2>4. b[1].job # b[i + 1].job
    BY <2>1, <2>3
  <2>5. ASSUME NEW n \in 1..Len(c), c[n].job = c[i].job PROVE n = i
    <3>1. n + 1 \in 1..Len(b) /\ c[n] = b[n + 1] /\ n \in Nat
      BY <1>1
    <3>2. n + 1 = i + 1
      BY <2>1, <2>3, <2>5, <3>1
    <3>3. QED
      BY <2>1, <3>1, <3>2
  <2>6. QED
    BY <2>1, <2>2, <2>4, <2>5
<1>3. QED
  BY <1>2 DEF Live

LEMMA WritesDue ==
  ASSUME TypeOK, DueRows, NEW j \in Job, NEW status \in Status, NEW n \in Nat,
         NEW isDue \in BOOLEAN, Writes(j, status, n, isDue), isDue => status = "PENDING"
  PROVE  DueRows'
<1>1. /\ job'[j] = [status |-> status, attempts |-> n]
      /\ \A i \in Job \ {j} : job'[i] = job[i]
  BY WritesType
<1>2. SUFFICES ASSUME NEW k \in Kind
               PROVE  /\ Once(due'[k])
                      /\ \A i \in 1..Len(due'[k]) :
                           job'[due'[k][i]].status = "PENDING" /\ due'[k][i][2] = k
  BY DEF DueRows, Once
<1>3. due \in [Kind -> Seq(Job)] /\ due[k] \in Seq(Job) /\ j[2] \in Kind
  BY TypeForm, KindFacts
<1>4. /\ Once(due[k])
      /\ \A i \in 1..Len(due[k]) :
           /\ due[k][i] \in Job /\ job[due[k][i]].status = "PENDING"
           /\ due[k][i][2] = k
  BY <1>3, ElementOfSeq DEF DueRows
<1>5. CASE k # j[2]
  <2>1. due'[k] = due[k]
    BY <1>3, <1>5 DEF Writes
  <2>2. QED
    BY <1>1, <1>4, <1>5, <2>1
<1>6. CASE k = j[2]
  <2> DEFINE rest == Without(due[k], j)
  <2>1. /\ rest \in Seq(Job) /\ Once(rest)
        /\ \A i \in 1..Len(rest) :
             rest[i] # j /\ \E m \in 1..Len(due[k]) : rest[i] = due[k][m]
    BY <1>3, <1>4, WithoutFacts
  <2>2. due'[k] = IF isDue THEN Append(rest, j) ELSE rest
    BY <1>3, <1>6 DEF Writes
  <2> HIDE DEF rest
  <2>3. \A i \in 1..Len(rest) : job'[rest[i]].status = "PENDING" /\ rest[i][2] = k
    BY <1>1, <1>4, <2>1
  <2>4. CASE ~isDue
    BY <2>1, <2>2, <2>3, <2>4
  <2>5. CASE isDue
    <3>1. /\ Once(Append(rest, j))
          /\ \A i \in 1..Len(Append(rest, j)) :
               Append(rest, j)[i] = j \/ \E m \in 1..Len(rest) : Append(rest, j)[i] = rest[m]
      BY <2>1, AppendFacts
    <3>2. job'[j].status = "PENDING"
      BY <1>1, <2>5
    <3>3. QED
      BY <1>6, <2>2, <2>3, <2>5, <3>1, <3>2
  <2>6. QED
    BY <2>4, <2>5
<1>7. QED
  BY <1>5, <1>6

\* Queueing a row does not disturb the batches.
LEMMA QueueSettling ==
  ASSUME Settling, TypeOK', NEW j \in Job, Writes(j, "PENDING", 0, TRUE), UNCHANGED worker
  PROVE  Settling'
<1>1. /\ job'[j] = [status |-> "PENDING", attempts |-> 0]
      /\ \A i \in Job \ {j} : job'[i] = job[i]
  BY WritesType DEF Settling, Status
<1>2. DueRows'
  BY WritesDue DEF Settling, Status
<1>3. ASSUME SoleWorkers, NEW w \in Worker PROVE Live(worker'[w].batch, KindOf(w), job')
  <2>1. Live(worker[w].batch, KindOf(w), job) /\ worker[w].batch \in Seq(Snapshot)
    BY <1>3, TypeForm DEF Settling, HeldRows, State
  <2>2. \A i \in 1..Len(worker[w].batch) : worker[w].batch[i] \in Snapshot
    BY <2>1, ElementOfSeq
  <2>3. \A i \in 1..Len(worker[w].batch) : worker[w].batch[i].job \in Job
    BY <2>2 DEF Snapshot
  <2>4. QED
    BY <1>1, <2>1, <2>3 DEF Live
<1>4. QED
  BY <1>2, <1>3 DEF Settling, HeldRows, SoleWorkers

LEMMA PollSettling ==
  ASSUME Settling, NEW w \in Worker, Poll(w)
  PROVE  Settling'
<1>1. TypeOK /\ TypeOK' /\ DueRows
  BY WorkerType DEF Works, Settling
<1> DEFINE s == due[KindOf(w)]
<1>2. s \in Seq(Job) /\ s # <<>> /\ KindOf(w) \in Kind
  BY <1>1, KindFacts, TypeForm DEF Poll
<1>3. /\ Len(Snapshots(s)) <= Len(s) /\ Snapshots(s) \in Seq(Snapshot)
      /\ \A i \in 1..Len(Snapshots(s)) :
           Snapshots(s)[i] = [job |-> s[i], attempts |-> job[s[i]].attempts]
  BY <1>1, <1>2, SnapshotsFacts
<1>4. /\ worker'[w] = [at |-> "send", batch |-> Snapshots(s)]
      /\ \A v \in Worker \ {w} : worker'[v] = worker[v]
      /\ UNCHANGED <<job, due>>
  BY <1>1, TypeForm DEF Poll, rows
<1>5. Once(s) /\ \A i \in 1..Len(s) : job[s[i]].status = "PENDING" /\ s[i][2] = KindOf(w)
  BY <1>1, <1>2 DEF DueRows
<1> HIDE DEF s
<1>6. Live(Snapshots(s), KindOf(w), job)
  <2>1. \A i \in 1..Len(Snapshots(s)) : i \in 1..Len(s) /\ Snapshots(s)[i].job = s[i]
    <3>1. Len(s) \in Nat /\ Len(Snapshots(s)) \in Nat
      BY <1>2, <1>3, LenProperties
    <3>2. SUFFICES ASSUME NEW i \in 1..Len(Snapshots(s))
                   PROVE  i \in 1..Len(s) /\ Snapshots(s)[i].job = s[i]
      OBVIOUS
    <3>3. Snapshots(s)[i] = [job |-> s[i], attempts |-> job[s[i]].attempts]
      BY <1>3, <3>2
    <3>4. QED
      BY <1>3, <3>1, <3>2, <3>3
  <2>2. QED
    BY <1>5, <2>1 DEF Live, Once
<1>7. HeldRows'
  <2>1. SUFFICES ASSUME SoleWorkers, NEW v \in Worker
                 PROVE  Live(worker'[v].batch, KindOf(v), job')
    BY DEF HeldRows, SoleWorkers
  <2>2. Live(worker[v].batch, KindOf(v), job)
    BY <2>1 DEF Settling, HeldRows
  <2>3. QED
    BY <1>4, <1>6, <2>2
<1>8. QED
  BY <1>1, <1>4, <1>7 DEF Settling, DueRows

LEMMA RecordSettling ==
  ASSUME Settling, NEW w \in Worker, RecordSuccess(w) \/ RecordFailure(w)
  PROVE  Settling'
<1>1. TypeOK /\ TypeOK' /\ DueRows
  BY WorkerType DEF Works, Settling
<1> DEFINE j == Current(w).job
           n == Current(w).attempts + 1
<1>2. ~At(w, "poll") /\ NextJob(w)
  BY DEF RecordSuccess, RecordFailure, At
<1>3. /\ Current(w) = worker[w].batch[1] /\ Current(w) \in Snapshot
      /\ Len(worker[w].batch) \in Nat /\ Len(worker[w].batch) >= 1
  BY <1>1, <1>2, BatchFacts
<1>4. j \in Job /\ n \in Nat
  BY <1>3 DEF Snapshot
<1>5. PICK status \in Status : Writes(j, status, n, FALSE)
  BY DEF RecordSuccess, RecordFailure, Status
<1>6. /\ 1 \in 1..Len(worker[w].batch) /\ j = worker[w].batch[1].job
  BY <1>3
<1> HIDE DEF j, n
<1>7. DueRows'
  BY <1>1, <1>4, <1>5, WritesDue
<1>8. \A i \in Job \ {j} : job'[i] = job[i]
  BY <1>1, <1>4, <1>5, WritesType
<1>9. HeldRows'
  <2>1. SUFFICES ASSUME SoleWorkers, NEW v \in Worker
                 PROVE  Live(worker'[v].batch, KindOf(v), job')
    BY DEF HeldRows, SoleWorkers
  <2>2. /\ Live(worker[v].batch, KindOf(v), job) /\ Live(worker[w].batch, KindOf(w), job)
        /\ worker[v].batch \in Seq(Snapshot)
    BY <1>1, <2>1, TypeForm DEF Settling, HeldRows, State
  <2>3. \A i \in 1..Len(worker[v].batch) : worker[v].batch[i].job \in Job
    <3>1. \A i \in 1..Len(worker[v].batch) : worker[v].batch[i] \in Snapshot
      BY <2>2, ElementOfSeq
    <3>2. QED
      BY <3>1 DEF Snapshot
  <2>4. j[2] = KindOf(w)
    BY <1>6, <2>2 DEF Live
  <2>5. CASE v # w
    <3>1. worker'[v] = worker[v] /\ KindOf(v) # KindOf(w)
      BY <1>1, <1>2, <2>1, <2>5, NextJobFacts DEF SoleWorkers
    <3>2. QED
      BY <1>8, <2>2, <2>3, <2>4, <3>1 DEF Live
  <2>6. CASE v = w
    <3>1. \A i \in 1..Len(worker'[w].batch) :
            /\ i + 1 \in 1..Len(worker[w].batch)
            /\ worker'[w].batch[i] = worker[w].batch[i + 1]
      BY <1>1, <1>2, NextJobFacts
    <3>2. Len(worker'[w].batch) \in Nat
      BY <1>1 DEF TypeOK
    <3>3. /\ Live(worker'[w].batch, KindOf(w), job)
          /\ \A i \in 1..Len(worker'[w].batch) : worker'[w].batch[i].job # j
      BY <1>6, <2>2, <3>1, <3>2, ShiftLive
    <3>4. \A i \in 1..Len(worker'[w].batch) : worker'[w].batch[i].job \in Job
      BY <2>3, <2>6, <3>1
    <3>5. QED
      BY <1>8, <2>6, <3>3, <3>4 DEF Live
  <2>7. QED
    BY <2>5, <2>6
<1>10. QED
  BY <1>1, <1>7, <1>9 DEF Settling

\* A step that leaves the rows as they are and at most moves a worker on.
LEMMA MovesSettling ==
  ASSUME Settling, TypeOK', NEW w \in Worker, ~At(w, "poll"), UNCHANGED rows,
         \/ \E place \in {"success", "failure"} : Goes(w, place)
         \/ NextJob(w)
         \/ worker' = [worker EXCEPT ![w] = Resting]
  PROVE  Settling'
<1>1. TypeOK
  BY DEF Settling
<1>2. /\ \A v \in Worker \ {w} : worker'[v] = worker[v]
      /\ \/ worker'[w].batch = worker[w].batch
         \/ Len(worker'[w].batch) = 0
         \/ \A i \in 1..Len(worker'[w].batch) :
              /\ i + 1 \in 1..Len(worker[w].batch)
              /\ worker'[w].batch[i] = worker[w].batch[i + 1]
  BY <1>1, GoesFacts, NextJobFacts, RestFacts
<1>3. UNCHANGED <<job, due>>
  BY DEF rows
<1>4. HeldRows'
  <2>1. SUFFICES ASSUME SoleWorkers, NEW v \in Worker
                 PROVE  Live(worker'[v].batch, KindOf(v), job')
    BY DEF HeldRows, SoleWorkers
  <2>2. Live(worker[v].batch, KindOf(v), job)
    BY <2>1 DEF Settling, HeldRows
  <2>3. CASE v # w
    BY <1>2, <1>3, <2>2, <2>3
  <2>4. CASE v = w
    <3>1. CASE worker'[w].batch = worker[w].batch
      BY <1>3, <2>2, <2>4, <3>1
    <3>2. CASE Len(worker'[w].batch) = 0
      BY <2>4, <3>2 DEF Live
    <3>3. CASE \A i \in 1..Len(worker'[w].batch) :
                 /\ i + 1 \in 1..Len(worker[w].batch)
                 /\ worker'[w].batch[i] = worker[w].batch[i + 1]
      <4>1. Len(worker'[w].batch) \in Nat
        BY DEF TypeOK
      <4>2. 1 \in 1..Len(worker[w].batch)
        BY <1>1, BatchFacts
      <4>3. QED
        BY <1>3, <2>2, <2>4, <3>3, <4>1, <4>2, ShiftLive
    <3>4. QED
      BY <1>2, <3>1, <3>2, <3>3
  <2>5. QED
    BY <2>3, <2>4
<1>5. QED
  BY <1>3, <1>4 DEF Settling, DueRows

LEMMA ComesDueSettling ==
  ASSUME Settling, TypeOK', NEW j \in Job, ComesDue(j)
  PROVE  Settling'
<1>1. UNCHANGED <<job, worker>> /\ due' = [due EXCEPT ![j[2]] = Append(@, j)]
  BY DEF ComesDue
<1>2. TypeOK /\ DueRows /\ due \in [Kind -> Seq(Job)] /\ j[2] \in Kind
  BY TypeForm, KindFacts DEF Settling
<1>3. /\ Once(Append(due[j[2]], j))
      /\ \A i \in 1..Len(Append(due[j[2]], j)) :
           \/ Append(due[j[2]], j)[i] = j
           \/ \E n \in 1..Len(due[j[2]]) : Append(due[j[2]], j)[i] = due[j[2]][n]
  BY <1>2, AppendFacts DEF ComesDue, DueRows
<1>4. DueRows'
  <2>1. SUFFICES ASSUME NEW k \in Kind
                 PROVE  /\ Once(due'[k])
                        /\ \A i \in 1..Len(due'[k]) :
                             job[due'[k][i]].status = "PENDING" /\ due'[k][i][2] = k
    BY <1>1 DEF DueRows, Once
  <2>2. CASE k = j[2]
    BY <1>1, <1>2, <1>3, <2>2 DEF ComesDue, DueRows
  <2>3. CASE k # j[2]
    BY <1>1, <1>2, <2>3 DEF DueRows
  <2>4. QED
    BY <2>2, <2>3
<1>5. QED
  BY <1>1, <1>4 DEF Settling, HeldRows

LEMMA SettlingStep == ASSUME Settling, [Next]_vars PROVE Settling'
<1>1. TypeOK /\ TypeOK'
  <2>1. CASE UNCHANGED vars
    BY <2>1 DEF Settling, vars, TypeOK, At
  <2>2. QED
    BY <2>1, ApiType, WorkerType, StaffType DEF Settling, Next
<1>2. CASE UNCHANGED <<job, due, worker>>
  BY <1>1, <1>2 DEF Settling, DueRows, HeldRows
<1>3. ASSUME NEW c \in Change, Commit(c) \/ Enqueue(c) \/ EnqueueErrs(c) \/ CrashApi(c)
      PROVE  Settling'
  <2>1. CASE Enqueue(c)
    <3>1. PICK j \in ToCreate(c) : Writes(j, "PENDING", 0, TRUE)
      BY <2>1 DEF Enqueue
    <3>2. j \in Job /\ UNCHANGED worker
      BY <2>1 DEF Enqueue, ToCreate
    <3>3. QED
      BY <1>1, <3>1, <3>2, QueueSettling
  <2>2. CASE Commit(c) \/ EnqueueErrs(c) \/ CrashApi(c)
    BY <1>2, <2>2 DEF Commit, EnqueueErrs, CrashApi, rows
  <2>3. QED
    BY <1>3, <2>1, <2>2
<1>4. ASSUME NEW w \in Worker, Works(w) \/ SuccessErrs(w) \/ FailureErrs(w) \/ StopWorker(w)
      PROVE  Settling'
  <2>1. CASE Send(w)
    <3>1. ~At(w, "poll") /\ UNCHANGED rows /\ \E place \in {"success", "failure"} : Goes(w, place)
      BY <2>1 DEF Send, At
    <3>2. QED
      BY <1>1, <3>1, MovesSettling
  <2>2. CASE SuccessErrs(w) \/ FailureErrs(w) \/ StopWorker(w)
    <3>1. ~At(w, "poll") /\ UNCHANGED rows
      BY <1>1, <2>2, WorkersOnly
    <3>2. \/ \E place \in {"success", "failure"} : Goes(w, place)
          \/ NextJob(w)
          \/ worker' = [worker EXCEPT ![w] = Resting]
      BY <1>1, <2>2, WorkersOnly
    <3>3. QED
      BY <1>1, <3>1, <3>2, MovesSettling
  <2>3. QED
    BY <1>4, <2>1, <2>2, PollSettling, RecordSettling DEF Works
<1>5. ASSUME NEW j \in Job, ComesDue(j) \/ Redeliver(j) \/ ReadForRequeue(j) \/ Requeue(j)
      PROVE  Settling'
  <2>1. CASE Redeliver(j) \/ Requeue(j)
    <3>1. Writes(j, "PENDING", 0, TRUE) /\ UNCHANGED worker
      BY <2>1 DEF Redeliver, Requeue
    <3>2. QED
      BY <1>1, <3>1, QueueSettling
  <2>2. CASE ReadForRequeue(j)
    BY <1>2, <2>2 DEF ReadForRequeue, rows
  <2>3. QED
    BY <1>1, <1>5, <2>1, <2>2, ComesDueSettling
<1>6. QED
  BY <1>2, <1>3, <1>4, <1>5 DEF Next, vars

LEMMA SettledUntouched ==
  ASSUME Settling, [Next]_vars, SoleWorkers, NEW j \in Job,
         job[j].status \in {"DONE", "FAILED"}, job'[j] # job[j]
  PROVE  requeued'[j] > requeued[j]
<1>1. TypeOK
  BY DEF Settling
<1>2. ASSUME NEW i \in Job, NEW status \in Status, NEW n \in Nat, NEW isDue \in BOOLEAN,
             Writes(i, status, n, isDue)
      PROVE  i = j
  BY <1>1, <1>2, WritesType
<1>3. ~ \E c \in Change : Commit(c) \/ Enqueue(c) \/ EnqueueErrs(c) \/ CrashApi(c)
  <2>1. ASSUME NEW c \in Change, Enqueue(c) PROVE FALSE
    <3>1. PICK i \in ToCreate(c) : Writes(i, "PENDING", 0, TRUE)
      BY <2>1 DEF Enqueue
    <3>2. i = j /\ job[i].status = "none"
      BY <1>2, <3>1 DEF ToCreate, Status
    <3>3. QED
      BY <3>2
  <2>2. QED
    BY <2>1 DEF Commit, EnqueueErrs, CrashApi, rows
<1>4. ~ \E w \in Worker : Works(w) \/ SuccessErrs(w) \/ FailureErrs(w) \/ StopWorker(w)
  <2>1. ASSUME NEW w \in Worker, RecordSuccess(w) \/ RecordFailure(w) PROVE FALSE
    <3>1. ~At(w, "poll")
      BY <2>1 DEF RecordSuccess, RecordFailure, At
    <3>2. /\ Current(w) = worker[w].batch[1] /\ Current(w) \in Snapshot
          /\ 1 \in 1..Len(worker[w].batch)
      BY <1>1, <3>1, BatchFacts
    <3>3. Current(w).job \in Job /\ Current(w).attempts + 1 \in Nat
      BY <3>2 DEF Snapshot
    <3>4. \E status \in Status : Writes(Current(w).job, status, Current(w).attempts + 1, FALSE)
      BY <2>1 DEF RecordSuccess, RecordFailure, Status
    <3>5. Current(w).job = j
      BY <1>2, <3>3, <3>4
    <3>6. job[Current(w).job].status = "PENDING"
      BY <3>2 DEF Settling, HeldRows, Live
    <3>7. QED
      BY <3>5, <3>6
  <2>2. QED
    BY <2>1 DEF Works, Poll, Send, SuccessErrs, FailureErrs, StopWorker, rows
<1>5. PICK i \in Job : Redeliver(i) \/ Requeue(i)
  BY <1>3, <1>4 DEF Next, vars, ComesDue, ReadForRequeue, rows
<1>6. i = j
  BY <1>2, <1>5 DEF Redeliver, Requeue, Status
<1>7. requeued \in [Job -> Nat]
  BY <1>1 DEF TypeOK
<1>8. requeued' = [requeued EXCEPT ![j] = @ + 1]
  BY <1>5, <1>6 DEF Redeliver, Requeue
<1>9. QED
  BY <1>7, <1>8

LEMMA InitSettling == ASSUME Init PROVE Settling
<1>1. \A k \in Kind : Len(due[k]) = 0
  BY EmptySeq DEF Init
<1>2. \A w \in Worker : Len(worker[w].batch) = 0
  BY RestingType, EmptySeq DEF Init
<1>3. QED
  BY <1>1, <1>2, InitType DEF Settling, DueRows, HeldRows, Live, Once

\* What was delivered or given up is written again only by staff, when a kind has one
\* worker, for any number of jobs, batches and requeues.
THEOREM SettledForGood == Safety => SettledStaysSettled
<1>1. Init => Settling
  BY InitSettling
<1>2. Settling /\ [Next]_vars => Settling'
  BY SettlingStep
<1>3. Settling /\ [Next]_vars =>
        [SoleWorkers =>
           \A j \in Job : job[j].status \in {"DONE", "FAILED"} /\ job'[j] # job[j]
                            => requeued'[j] > requeued[j]]_vars
  BY SettledUntouched
<1>4. QED
  BY <1>1, <1>2, <1>3, PTL DEF Safety, SettledStaysSettled
-----------------------------------------------------------------------------
(* Nobody is sent the same thing for ever.                                     *)

\* What may be sent of job j so far.
Budget(j) == MAX_ATTEMPTS * (1 + requeued[j]) + faults

Sending(state) == state.at \in {"success", "failure"}

\* Every copy a worker holds has attempts left, and what was sent of its row is covered
\* by the attempts the copy has counted, and by the one that is being recorded.
Paid(state) ==
  \A i \in 1..Len(state.batch) :
    /\ state.batch[i].attempts < MAX_ATTEMPTS
    /\ sends[state.batch[i].job] + MAX_ATTEMPTS
         <= Budget(state.batch[i].job) + state.batch[i].attempts
              + (IF i = 1 /\ Sending(state) THEN 1 ELSE 0)

Running(j) == \E w \in Worker : Sending(worker[w]) /\ Current(w).job = j

\* The same of the rows.
RowPaid(j) ==
  /\ job[j].attempts <= MAX_ATTEMPTS
  /\ job[j].status = "PENDING" => job[j].attempts < MAX_ATTEMPTS
  /\ job[j].status = "none" => job[j].attempts = 0
  /\ sends[j] + MAX_ATTEMPTS
       <= Budget(j) + job[j].attempts + (IF Running(j) THEN 1 ELSE 0)

AllPaid == (\A w \in Worker : Paid(worker[w])) /\ (\A j \in Job : RowPaid(j))

Spending == Settling /\ (SoleWorkers => AllPaid)

LEMMA BudgetFacts ==
  ASSUME TypeOK, TypeOK', NEW j \in Job
  PROVE  /\ Budget(j) \in Nat /\ Budget(j)' \in Nat
         /\ UNCHANGED <<requeued, faults>> => Budget(j)' = Budget(j)
         /\ requeued' = requeued /\ faults' = faults + 1 => Budget(j)' = Budget(j) + 1
         /\ \A i \in Job :
              requeued' = [requeued EXCEPT ![i] = @ + 1] /\ faults' = faults
                => Budget(j)' = IF i = j THEN Budget(j) + MAX_ATTEMPTS ELSE Budget(j)
<1>1. /\ requeued[j] \in Nat /\ requeued'[j] \in Nat /\ faults \in Nat /\ faults' \in Nat
      /\ requeued \in [Job -> Nat] /\ MAX_ATTEMPTS \in Nat
  BY DeliveryAssumption DEF TypeOK
<1>2. \A m, r \in Nat : m * (1 + r) \in Nat /\ m * (1 + (r + 1)) = m * (1 + r) + m
  OBVIOUS
<1>3. /\ MAX_ATTEMPTS * (1 + requeued[j]) \in Nat /\ MAX_ATTEMPTS * (1 + requeued'[j]) \in Nat
      /\ MAX_ATTEMPTS * (1 + (requeued[j] + 1)) = MAX_ATTEMPTS * (1 + requeued[j]) + MAX_ATTEMPTS
  BY <1>1, <1>2
<1>4. \A i \in Job : requeued' = [requeued EXCEPT ![i] = @ + 1]
                       => requeued'[j] = IF i = j THEN requeued[j] + 1 ELSE requeued[j]
  BY <1>1
<1>5. QED
  BY <1>1, <1>3, <1>4 DEF Budget

LEMMA Numbers ==
  ASSUME TypeOK, TypeOK', NEW j \in Job
  PROVE  /\ sends[j] \in Nat /\ sends'[j] \in Nat /\ job[j].attempts \in Nat
         /\ MAX_ATTEMPTS \in Nat /\ MAX_ATTEMPTS > 0
         /\ Budget(j) \in Nat /\ Budget(j)' \in Nat
<1>1. sends[j] \in Nat /\ sends'[j] \in Nat /\ job[j].attempts \in Nat
  BY DEF TypeOK
<1>2. MAX_ATTEMPTS \in Nat /\ MAX_ATTEMPTS > 0
  BY DeliveryAssumption
<1>3. QED
  BY <1>1, <1>2, BudgetFacts

\* With one worker of a kind a row is in one place of one batch, and PENDING.
LEMMA HeldOnce ==
  ASSUME Settling, SoleWorkers, NEW v \in Worker, NEW i \in 1..Len(worker[v].batch)
  PROVE  /\ worker[v].batch[i] \in Snapshot
         /\ worker[v].batch[i].job \in Job /\ worker[v].batch[i].attempts \in Nat
         /\ job[worker[v].batch[i].job].status = "PENDING"
         /\ \A w \in Worker : \A n \in 1..Len(worker[w].batch) :
              worker[w].batch[n].job = worker[v].batch[i].job => w = v /\ n = i
<1>1. worker[v].batch \in Seq(Snapshot) /\ Live(worker[v].batch, KindOf(v), job)
  BY TypeForm DEF Settling, HeldRows, State
<1>2. worker[v].batch[i] \in Snapshot
  BY <1>1, ElementOfSeq
<1>3. ASSUME NEW w \in Worker, NEW n \in 1..Len(worker[w].batch),
             worker[w].batch[n].job = worker[v].batch[i].job
      PROVE  w = v /\ n = i
  <2>1. Live(worker[w].batch, KindOf(w), job)
    BY DEF Settling, HeldRows
  <2>2. KindOf(w) = KindOf(v)
    <3>1. worker[v].batch[i].job[2] = KindOf(v)
      BY <1>1 DEF Live
    <3>2. worker[w].batch[n].job[2] = KindOf(w)
      BY <1>3, <2>1 DEF Live
    <3>3. QED
      BY <1>3, <3>1, <3>2
  <2>3. w = v
    BY <2>2 DEF SoleWorkers
  <2>4. QED
    BY <1>1, <1>3, <2>3 DEF Live
<1>4. QED
  BY <1>1, <1>2, <1>3 DEF Live, Snapshot

\* Whoever is sending has a batch, and the row it sends is the first of it.
LEMMA RunningFacts ==
  ASSUME Settling, SoleWorkers, NEW j \in Job, Running(j)
  PROVE  /\ job[j].status = "PENDING"
         /\ \E w \in Worker : /\ Sending(worker[w]) /\ 1 \in 1..Len(worker[w].batch)
                              /\ worker[w].batch[1].job = j
<1>1. PICK w \in Worker : Sending(worker[w]) /\ Current(w).job = j
  BY DEF Running
<1>2. TypeOK /\ ~At(w, "poll")
  BY <1>1 DEF Settling, Sending, At
<1>3. Current(w) = worker[w].batch[1] /\ 1 \in 1..Len(worker[w].batch)
  BY <1>2, BatchFacts
<1>4. QED
  BY <1>1, <1>3, HeldOnce

\* What the invariant is for.
LEMMA SpentWithin ==
  ASSUME Settling, SoleWorkers, AllPaid, NEW j \in Job
  PROVE  sends[j] <= Budget(j)
<1>1. /\ job[j].attempts \in Nat /\ sends[j] \in Nat /\ MAX_ATTEMPTS \in Nat
      /\ Budget(j) \in Int
  <2>1. job[j].attempts \in Nat /\ sends[j] \in Nat /\ requeued[j] \in Nat /\ faults \in Nat
        /\ MAX_ATTEMPTS \in Nat
    BY DeliveryAssumption DEF Settling, TypeOK
  <2>2. QED
    BY <2>1 DEF Budget
<1>2. RowPaid(j)
  BY DEF AllPaid
<1>3. CASE Running(j)
  BY <1>1, <1>2, <1>3, RunningFacts DEF RowPaid
<1>4. CASE ~Running(j)
  BY <1>1, <1>2, <1>4 DEF RowPaid
<1>5. QED
  BY <1>3, <1>4

\* What a step gives the budget of every job: as much as before, or more.
Richer == \A j \in Job : Budget(j) <= Budget(j)'

\* How the copies of a worker are shown to be paid after a step.
LEMMA PaidNext ==
  ASSUME NEW w \in Worker,
         \A i \in 1..Len(worker'[w].batch) : \E j \in Job, n \in Nat :
           /\ worker'[w].batch[i].job = j /\ worker'[w].batch[i].attempts = n
           /\ n < MAX_ATTEMPTS
           /\ sends'[j] + MAX_ATTEMPTS
                <= Budget(j)' + n + (IF i = 1 /\ Sending(worker'[w]) THEN 1 ELSE 0)
  PROVE  Paid(worker[w])'
BY DEF Paid, Sending, Budget

\* Neither a batch nor what was sent changes.
LEMMA CopiesKept ==
  ASSUME Settling, TypeOK', SoleWorkers, AllPaid, Richer, UNCHANGED sends,
         NEW w \in Worker, worker'[w] = worker[w]
  PROVE  Paid(worker[w])'
<1>1. SUFFICES ASSUME NEW i \in 1..Len(worker[w].batch)
               PROVE  \E j \in Job, n \in Nat :
                        /\ worker[w].batch[i].job = j /\ worker[w].batch[i].attempts = n
                        /\ n < MAX_ATTEMPTS
                        /\ sends[j] + MAX_ATTEMPTS
                             <= Budget(j)' + n + (IF i = 1 /\ Sending(worker[w]) THEN 1 ELSE 0)
  BY PaidNext
<1>2. PICK j \in Job, n \in Nat :
        worker[w].batch[i].job = j /\ worker[w].batch[i].attempts = n
  BY HeldOnce
<1>3. /\ n < MAX_ATTEMPTS
      /\ sends[j] + MAX_ATTEMPTS
           <= Budget(j) + n + (IF i = 1 /\ Sending(worker[w]) THEN 1 ELSE 0)
  BY <1>2 DEF AllPaid, Paid
<1>4. /\ sends[j] \in Nat /\ MAX_ATTEMPTS \in Nat
      /\ Budget(j) \in Nat /\ Budget(j)' \in Nat /\ Budget(j) <= Budget(j)'
  BY Numbers DEF Richer, Settling
<1>5. sends[j] + MAX_ATTEMPTS
        <= Budget(j)' + n + (IF i = 1 /\ Sending(worker[w]) THEN 1 ELSE 0)
  BY <1>3, <1>4
<1>6. QED
  BY <1>2, <1>3, <1>5

LEMMA RowKept ==
  ASSUME Settling, TypeOK', SoleWorkers, AllPaid, Richer, UNCHANGED sends,
         NEW j \in Job, job'[j] = job[j], Running(j) <=> Running(j)'
  PROVE  RowPaid(j)'
<1>1. /\ sends[j] \in Nat /\ job[j].attempts \in Nat /\ MAX_ATTEMPTS \in Nat
      /\ Budget(j) \in Nat /\ Budget(j)' \in Nat /\ Budget(j) <= Budget(j)'
  BY Numbers DEF Richer, Settling
<1>2. RowPaid(j)
  BY DEF AllPaid
<1>3. sends[j] + MAX_ATTEMPTS
        <= Budget(j)' + job[j].attempts + (IF Running(j) THEN 1 ELSE 0)
  BY <1>1, <1>2 DEF RowPaid
<1>4. QED
  BY <1>2, <1>3 DEF RowPaid

\* The steps that neither send nor move a worker nor write a row.
LEMMA IdlePaid ==
  ASSUME Settling, TypeOK', SoleWorkers, AllPaid, Richer, UNCHANGED <<sends, worker, job>>
  PROVE  AllPaid'
<1>1. \A j \in Job : Running(j) <=> Running(j)'
  BY DEF Running, Current, Sending
<1>2. QED
  BY <1>1, CopiesKept, RowKept DEF AllPaid

\* A row is queued, for the first time or again.
LEMMA QueuePaid ==
  ASSUME Settling, TypeOK', SoleWorkers, AllPaid, Richer, UNCHANGED <<sends, worker>>,
         NEW j \in Job, Writes(j, "PENDING", 0, TRUE),
         sends[j] + MAX_ATTEMPTS <= Budget(j)'
  PROVE  AllPaid'
<1>1. /\ job'[j] = [status |-> "PENDING", attempts |-> 0]
      /\ \A i \in Job \ {j} : job'[i] = job[i]
  BY WritesType DEF Settling, Status
<1>2. \A i \in Job : Running(i) <=> Running(i)'
  BY DEF Running, Current, Sending
<1>3. RowPaid(j)'
  <2>1. /\ sends[j] \in Nat /\ MAX_ATTEMPTS \in Nat /\ MAX_ATTEMPTS > 0 /\ Budget(j)' \in Nat
    BY Numbers DEF Settling
  <2>2. sends[j] + MAX_ATTEMPTS <= Budget(j)' + 0 + (IF Running(j)' THEN 1 ELSE 0)
    BY <2>1
  <2>3. QED
    BY <1>1, <2>1, <2>2 DEF RowPaid
<1>4. \A i \in Job \ {j} : RowPaid(i)'
  BY <1>1, <1>2, RowKept
<1>5. \A w \in Worker : Paid(worker[w])'
  BY CopiesKept
<1>6. QED
  BY <1>3, <1>4, <1>5 DEF AllPaid

\* A worker goes on with its batch, or drops it.
LEMMA ShiftPaid ==
  ASSUME Settling, TypeOK', SoleWorkers, AllPaid, Richer, UNCHANGED sends,
         NEW w \in Worker, ~At(w, "poll"),
         NextJob(w) \/ worker' = [worker EXCEPT ![w] = Resting]
  PROVE  Paid(worker[w])' /\ ~Sending(worker'[w])
<1>1. TypeOK
  BY DEF Settling
<1>2. /\ worker'[w].at \in {"poll", "send"}
      /\ \A i \in 1..Len(worker'[w].batch) :
           /\ i + 1 \in 1..Len(worker[w].batch)
           /\ worker'[w].batch[i] = worker[w].batch[i + 1]
  BY <1>1, NextJobFacts, RestFacts
<1>3. ~Sending(worker'[w])
  BY <1>2 DEF Sending
<1>4. ASSUME NEW i \in 1..Len(worker'[w].batch)
      PROVE  \E j \in Job, n \in Nat :
               /\ worker'[w].batch[i].job = j /\ worker'[w].batch[i].attempts = n
               /\ n < MAX_ATTEMPTS /\ sends'[j] + MAX_ATTEMPTS <= Budget(j)' + n + 0
  <2>1. i + 1 \in 1..Len(worker[w].batch) /\ i + 1 # 1
    BY <1>2
  <2>2. PICK j \in Job, n \in Nat :
          worker[w].batch[i + 1].job = j /\ worker[w].batch[i + 1].attempts = n
    BY <2>1, HeldOnce
  <2>3. n < MAX_ATTEMPTS /\ sends[j] + MAX_ATTEMPTS <= Budget(j) + n + 0
    BY <2>1, <2>2 DEF AllPaid, Paid
  <2>4. /\ sends[j] \in Nat /\ MAX_ATTEMPTS \in Nat
        /\ Budget(j) \in Nat /\ Budget(j)' \in Nat /\ Budget(j) <= Budget(j)'
    BY <1>1, Numbers DEF Richer
  <2>5. sends'[j] + MAX_ATTEMPTS <= Budget(j)' + n + 0
    BY <2>3, <2>4
  <2>6. QED
    BY <1>2, <2>2, <2>3, <2>5
<1>5. QED
  BY <1>3, <1>4, PaidNext

\* A fault costs at most the attempt that was not recorded.
LEMMA FaultPaid ==
  ASSUME Settling, TypeOK', SoleWorkers, AllPaid, NEW w \in Worker,
         SuccessErrs(w) \/ FailureErrs(w) \/ StopWorker(w)
  PROVE  AllPaid'
<1>1. /\ UNCHANGED <<sends, requeued, job>> /\ faults' = faults + 1 /\ ~At(w, "poll")
      /\ \/ At(w, "success") /\ Goes(w, "failure")
         \/ NextJob(w)
         \/ worker' = [worker EXCEPT ![w] = Resting]
  BY WorkersOnly DEF SuccessErrs, FailureErrs, StopWorker, Fault, rows, log, Settling
<1>2. TypeOK
  BY DEF Settling
<1>3. \A j \in Job : Budget(j) \in Nat /\ Budget(j)' = Budget(j) + 1
  BY <1>1, <1>2, BudgetFacts
<1>4. Richer
  BY <1>3 DEF Richer
<1>5. \A v \in Worker \ {w} : worker'[v] = worker[v]
  BY <1>1, <1>2, GoesFacts, NextJobFacts, RestFacts
<1>6. Paid(worker[w])'
  <2>1. CASE At(w, "success") /\ Goes(w, "failure")
    <3>1. /\ worker'[w].batch = worker[w].batch
          /\ Sending(worker'[w]) /\ Sending(worker[w])
      BY <1>2, <2>1, GoesFacts DEF At, Sending
    <3>2. ASSUME NEW i \in 1..Len(worker[w].batch)
          PROVE  \E j \in Job, n \in Nat :
                   /\ worker[w].batch[i].job = j /\ worker[w].batch[i].attempts = n
                   /\ n < MAX_ATTEMPTS
                   /\ sends[j] + MAX_ATTEMPTS <= Budget(j)' + n + (IF i = 1 THEN 1 ELSE 0)
      <4>1. PICK j \in Job, n \in Nat :
              worker[w].batch[i].job = j /\ worker[w].batch[i].attempts = n
        BY HeldOnce
      <4>2. /\ n < MAX_ATTEMPTS
            /\ sends[j] + MAX_ATTEMPTS <= Budget(j) + n + (IF i = 1 THEN 1 ELSE 0)
        BY <3>1, <4>1 DEF AllPaid, Paid
      <4>3. sends[j] \in Nat /\ MAX_ATTEMPTS \in Nat
        BY <1>2, Numbers
      <4>4. sends[j] + MAX_ATTEMPTS <= Budget(j)' + n + (IF i = 1 THEN 1 ELSE 0)
        BY <1>3, <4>2, <4>3
      <4>5. QED
        BY <4>1, <4>2, <4>4
    <3>3. QED
      BY <1>1, <3>1, <3>2, PaidNext
  <2>2. CASE NextJob(w) \/ worker' = [worker EXCEPT ![w] = Resting]
    BY <1>1, <1>4, <2>2, ShiftPaid
  <2>3. QED
    BY <1>1, <2>1, <2>2
<1>7. \A v \in Worker : Paid(worker[v])'
  BY <1>1, <1>4, <1>5, <1>6, CopiesKept
<1>8. ASSUME NEW j \in Job PROVE RowPaid(j)'
  <2>1. /\ sends[j] \in Nat /\ job[j].attempts \in Nat /\ MAX_ATTEMPTS \in Nat
        /\ Budget(j) \in Nat /\ Budget(j)' = Budget(j) + 1
    BY <1>2, <1>3, Numbers
  <2>2. RowPaid(j)
    BY DEF AllPaid
  <2>3. sends[j] + MAX_ATTEMPTS
          <= Budget(j)' + job[j].attempts + (IF Running(j)' THEN 1 ELSE 0)
    BY <2>1, <2>2 DEF RowPaid
  <2>4. QED
    BY <1>1, <2>2, <2>3 DEF RowPaid
<1>9. QED
  BY <1>7, <1>8 DEF AllPaid

LEMMA PollPaid ==
  ASSUME Settling, TypeOK', SoleWorkers, AllPaid, NEW w \in Worker, Poll(w)
  PROVE  AllPaid'
<1>1. TypeOK /\ DueRows
  BY DEF Settling
<1> DEFINE s == due[KindOf(w)]
<1>2. s \in Seq(Job) /\ s # <<>> /\ KindOf(w) \in Kind
  BY <1>1, KindFacts, TypeForm DEF Poll
<1>3. /\ Len(Snapshots(s)) <= Len(s) /\ Snapshots(s) \in Seq(Snapshot)
      /\ \A i \in 1..Len(Snapshots(s)) :
           /\ s[i] \in Job
           /\ Snapshots(s)[i] = [job |-> s[i], attempts |-> job[s[i]].attempts]
  BY <1>1, <1>2, SnapshotsFacts
<1>4. /\ worker'[w] = [at |-> "send", batch |-> Snapshots(s)]
      /\ \A v \in Worker \ {w} : worker'[v] = worker[v]
      /\ UNCHANGED <<job, sends, requeued, faults>> /\ worker[w].at = "poll"
  BY <1>1, TypeForm DEF Poll, rows, log, At
<1>5. \A i \in 1..Len(s) : job[s[i]].status = "PENDING" /\ s[i][2] = KindOf(w)
  BY <1>1, <1>2 DEF DueRows
<1>6. Len(s) \in Nat /\ Len(Snapshots(s)) \in Nat
  BY <1>2, <1>3, LenProperties
<1> HIDE DEF s
<1>7. \A j \in Job : Budget(j) \in Nat /\ Budget(j)' = Budget(j)
  BY <1>1, <1>4, BudgetFacts
<1>8. Richer
  BY <1>7 DEF Richer
<1>9. ASSUME NEW j \in Job PROVE Running(j) <=> Running(j)'
  <2>1. \A v \in Worker : Sending(worker[v]) <=> Sending(worker'[v])
    BY <1>4 DEF Sending
  <2>2. \A v \in Worker : Sending(worker[v]) => worker'[v] = worker[v]
    BY <1>4 DEF Sending
  <2>3. QED
    BY <2>1, <2>2 DEF Running, Current
\* No worker of this kind is sending, so the copies of the due rows are paid as the rows.
<1>10. ASSUME NEW i \in 1..Len(Snapshots(s))
       PROVE  \E j \in Job, n \in Nat :
                /\ Snapshots(s)[i].job = j /\ Snapshots(s)[i].attempts = n
                /\ n < MAX_ATTEMPTS /\ sends[j] + MAX_ATTEMPTS <= Budget(j)' + n + 0
  <2>1. i \in 1..Len(s) /\ s[i] \in Job
    <3>1. Len(Snapshots(s)) <= Len(s) /\ s[i] \in Job
      BY <1>3
    <3>2. QED
      BY <1>6, <3>1
  <2>2. PICK j \in Job : j = s[i]
    BY <2>1
  <2>3. job[j].status = "PENDING" /\ j[2] = KindOf(w)
    BY <1>5, <2>1, <2>2
  <2>4. ~Running(j)
    <3>1. SUFFICES ASSUME Running(j) PROVE FALSE
      OBVIOUS
    <3>2. PICK v \in Worker : /\ Sending(worker[v]) /\ 1 \in 1..Len(worker[v].batch)
                              /\ worker[v].batch[1].job = j
      BY <3>1, RunningFacts
    <3>3. Live(worker[v].batch, KindOf(v), job)
      BY DEF Settling, HeldRows
    <3>4. KindOf(v) = KindOf(w)
      BY <2>3, <3>2, <3>3 DEF Live
    <3>5. v = w
      BY <3>4 DEF SoleWorkers
    <3>6. QED
      BY <1>4, <3>2, <3>5 DEF Sending
  <2>5. /\ job[j].attempts < MAX_ATTEMPTS /\ job[j].attempts \in Nat
        /\ sends[j] + MAX_ATTEMPTS <= Budget(j) + job[j].attempts + 0
    <3>1. RowPaid(j)
      BY DEF AllPaid
    <3>2. job[j].attempts \in Nat
      BY <1>1 DEF TypeOK
    <3>3. QED
      BY <2>3, <2>4, <3>1, <3>2 DEF RowPaid
  <2>6. Budget(j)' = Budget(j)
    BY <1>7
  <2>7. Snapshots(s)[i] = [job |-> j, attempts |-> job[j].attempts]
    BY <1>3, <2>2
  <2>8. Snapshots(s)[i].job = j /\ Snapshots(s)[i].attempts = job[j].attempts
    BY <2>7
  <2>9. QED
    BY <2>5, <2>6, <2>8
<1>11. Paid(worker[w])'
  <2>1. worker'[w].batch = Snapshots(s) /\ sends' = sends /\ ~Sending(worker'[w])
    BY <1>4 DEF Sending
  <2>2. \A i \in 1..Len(worker'[w].batch) : \E j \in Job, n \in Nat :
          /\ worker'[w].batch[i].job = j /\ worker'[w].batch[i].attempts = n
          /\ n < MAX_ATTEMPTS /\ sends'[j] + MAX_ATTEMPTS <= Budget(j)' + n + 0
    BY <1>10, <2>1
  <2>3. QED
    BY <2>1, <2>2, PaidNext
<1>12. \A v \in Worker : Paid(worker[v])'
  BY <1>4, <1>8, <1>11, CopiesKept
<1>13. \A j \in Job : RowPaid(j)'
  BY <1>4, <1>8, <1>9, RowKept
<1>14. QED
  BY <1>12, <1>13 DEF AllPaid

\* One more is sent, and it is being recorded from now on.
LEMMA SendPaid ==
  ASSUME Settling, TypeOK', SoleWorkers, AllPaid, NEW w \in Worker, Send(w)
  PROVE  AllPaid'
<1>1. TypeOK
  BY DEF Settling
<1>2. /\ Current(w) = worker[w].batch[1] /\ 1 \in 1..Len(worker[w].batch)
      /\ Current(w).job \in Job
  BY <1>1, BatchFacts DEF Send, At, Snapshot
<1>3. PICK j \in Job : j = Current(w).job /\ j = worker[w].batch[1].job
  BY <1>2
<1>4. /\ UNCHANGED <<job, requeued, faults>> /\ worker[w].at = "send"
      /\ sends' = [sends EXCEPT ![j] = @ + 1]
      /\ \E place \in {"success", "failure"} : Goes(w, place)
  BY <1>3 DEF Send, rows, At
<1>5. /\ worker'[w].batch = worker[w].batch /\ Sending(worker'[w]) /\ ~Sending(worker[w])
      /\ \A v \in Worker \ {w} : worker'[v] = worker[v]
  BY <1>1, <1>4, GoesFacts DEF Sending
<1>6. /\ sends'[j] = sends[j] + 1 /\ \A i \in Job \ {j} : sends'[i] = sends[i]
  BY <1>1, <1>4 DEF TypeOK
<1>7. \A i \in Job : Budget(i) \in Nat /\ Budget(i)' = Budget(i)
  BY <1>1, <1>4, BudgetFacts
<1>8. ASSUME NEW v \in Worker, NEW i \in 1..Len(worker'[v].batch)
      PROVE  \E c \in Job, n \in Nat :
               /\ worker'[v].batch[i].job = c /\ worker'[v].batch[i].attempts = n
               /\ n < MAX_ATTEMPTS
               /\ sends'[c] + MAX_ATTEMPTS
                    <= Budget(c)' + n + (IF i = 1 /\ Sending(worker'[v]) THEN 1 ELSE 0)
  <2>1. worker'[v].batch = worker[v].batch /\ i \in 1..Len(worker[v].batch)
    BY <1>5
  <2>2. PICK c \in Job, n \in Nat :
          worker[v].batch[i].job = c /\ worker[v].batch[i].attempts = n
    BY <2>1, HeldOnce
  <2>3. c = j => v = w /\ i = 1
    BY <1>2, <1>3, <2>1, <2>2, HeldOnce
  <2>4. /\ n < MAX_ATTEMPTS
        /\ sends[c] + MAX_ATTEMPTS
             <= Budget(c) + n + (IF i = 1 /\ Sending(worker[v]) THEN 1 ELSE 0)
    BY <2>1, <2>2 DEF AllPaid, Paid
  <2>5. sends[c] \in Nat /\ MAX_ATTEMPTS \in Nat /\ Budget(c) \in Nat
    BY <1>1, <1>7, Numbers
  <2>6. sends'[c] + MAX_ATTEMPTS
          <= Budget(c) + n + (IF i = 1 /\ Sending(worker'[v]) THEN 1 ELSE 0)
    <3>1. CASE c = j
      BY <1>5, <1>6, <2>3, <2>4, <2>5, <3>1
    <3>2. CASE c # j
      <4>1. sends'[c] = sends[c] /\ Sending(worker[v]) => Sending(worker'[v])
        BY <1>5, <1>6, <3>2
      <4>2. sends[c] + MAX_ATTEMPTS
              <= Budget(c) + n + (IF i = 1 /\ Sending(worker'[v]) THEN 1 ELSE 0)
        BY <1>5, <2>4, <2>5
      <4>3. QED
        BY <1>6, <3>2, <4>2
    <3>3. QED
      BY <3>1, <3>2
  <2>7. QED
    BY <1>7, <2>1, <2>2, <2>4, <2>6
<1>9. \A v \in Worker : Paid(worker[v])'
  BY <1>8, PaidNext
<1>10. RowPaid(j)'
  <2>1. ~Running(j)
    <3>1. SUFFICES ASSUME Running(j) PROVE FALSE
      OBVIOUS
    <3>2. PICK v \in Worker : /\ Sending(worker[v]) /\ 1 \in 1..Len(worker[v].batch)
                              /\ worker[v].batch[1].job = j
      BY <3>1, RunningFacts
    <3>3. v = w
      BY <1>2, <1>3, <3>2, HeldOnce
    <3>4. QED
      BY <1>5, <3>2, <3>3
  <2>2. Running(j)'
    BY <1>3, <1>5 DEF Running, Current
  <2>3. RowPaid(j)
    BY DEF AllPaid
  <2>4. sends[j] \in Nat /\ job[j].attempts \in Nat /\ MAX_ATTEMPTS \in Nat
    BY <1>1, Numbers
  <2>5. sends'[j] + MAX_ATTEMPTS <= Budget(j)' + job[j].attempts + 1
    BY <1>6, <1>7, <2>1, <2>3, <2>4 DEF RowPaid
  <2>6. QED
    BY <1>4, <2>2, <2>3, <2>5 DEF RowPaid
<1>11. ASSUME NEW i \in Job \ {j} PROVE RowPaid(i)'
  <2>1. Running(i) <=> Running(i)'
    <3>1. \A v \in Worker : Sending(worker[v]) /\ Current(v).job = i
                              => Sending(worker'[v]) /\ Head(worker'[v].batch).job = i
      BY <1>5 DEF Current
    <3>2. \A v \in Worker : Sending(worker'[v]) /\ Head(worker'[v].batch).job = i
                              => Sending(worker[v]) /\ Current(v).job = i
      BY <1>3, <1>5, <1>11 DEF Current
    <3>3. QED
      BY <3>1, <3>2 DEF Running, Current
  <2>2. RowPaid(i)
    BY DEF AllPaid
  <2>3. sends'[i] = sends[i] /\ Budget(i)' = Budget(i)
    BY <1>6, <1>7
  <2>4. QED
    BY <1>4, <2>1, <2>2, <2>3 DEF RowPaid
<1>12. QED
  BY <1>9, <1>10, <1>11 DEF AllPaid

\* What was sent is counted.
LEMMA RecordPaid ==
  ASSUME Settling, TypeOK', SoleWorkers, AllPaid, NEW w \in Worker,
         RecordSuccess(w) \/ RecordFailure(w)
  PROVE  AllPaid'
<1>1. TypeOK
  BY DEF Settling
<1>2. /\ ~At(w, "poll") /\ NextJob(w) /\ Sending(worker[w])
      /\ UNCHANGED <<sends, requeued, faults>>
  BY DEF RecordSuccess, RecordFailure, At, Sending, log
<1>3. /\ Current(w) = worker[w].batch[1] /\ 1 \in 1..Len(worker[w].batch)
      /\ Current(w) \in Snapshot
  BY <1>1, <1>2, BatchFacts
<1>4. PICK j \in Job, n \in Nat : j = Current(w).job /\ n = Current(w).attempts
  BY <1>3 DEF Snapshot
<1>5. n < MAX_ATTEMPTS /\ sends[j] + MAX_ATTEMPTS <= Budget(j) + n + 1
  BY <1>2, <1>3, <1>4 DEF AllPaid, Paid
<1>6. PICK status \in {"DONE", "PENDING", "FAILED"} :
        Writes(j, status, n + 1, FALSE) /\ (status = "PENDING" => n + 1 < MAX_ATTEMPTS)
  BY <1>4 DEF RecordSuccess, RecordFailure
<1>7. job'[j] = [status |-> status, attempts |-> n + 1] /\ \A i \in Job \ {j} : job'[i] = job[i]
  <2>1. n + 1 \in Nat /\ status \in Status /\ FALSE \in BOOLEAN
    BY DEF Status
  <2>2. QED
    BY <1>1, <1>6, <2>1, WritesType
<1>8. \A i \in Job : Budget(i) \in Nat /\ Budget(i)' = Budget(i)
  BY <1>1, <1>2, BudgetFacts
<1>9. Richer
  BY <1>8 DEF Richer
<1>10. Paid(worker[w])' /\ ~Sending(worker'[w])
  BY <1>2, <1>9, ShiftPaid
<1>11. \A v \in Worker \ {w} : worker'[v] = worker[v]
  BY <1>1, <1>2, NextJobFacts
<1>12. \A v \in Worker : Paid(worker[v])'
  BY <1>2, <1>9, <1>10, <1>11, CopiesKept
<1>13. RowPaid(j)'
  <2>1. sends[j] \in Nat /\ MAX_ATTEMPTS \in Nat /\ Budget(j) \in Nat
    BY <1>1, <1>8, Numbers
  <2>2. sends'[j] + MAX_ATTEMPTS
          <= Budget(j)' + (n + 1) + (IF Running(j)' THEN 1 ELSE 0)
    BY <1>2, <1>5, <1>8, <2>1
  <2>3. n + 1 <= MAX_ATTEMPTS
    BY <1>5, <2>1
  <2>4. QED
    BY <1>6, <1>7, <2>2, <2>3 DEF RowPaid
<1>14. ASSUME NEW i \in Job \ {j} PROVE RowPaid(i)'
  <2>1. Running(i) <=> Running(i)'
    <3>1. \A v \in Worker : Sending(worker[v]) /\ Current(v).job = i
                              => Sending(worker'[v]) /\ Head(worker'[v].batch).job = i
      BY <1>4, <1>11, <1>14 DEF Current
    <3>2. \A v \in Worker : Sending(worker'[v]) /\ Head(worker'[v].batch).job = i
                              => Sending(worker[v]) /\ Current(v).job = i
      BY <1>10, <1>11 DEF Current
    <3>3. QED
      BY <3>1, <3>2 DEF Running, Current
  <2>2. QED
    BY <1>2, <1>7, <1>9, <2>1, RowKept
<1>15. QED
  BY <1>12, <1>13, <1>14 DEF AllPaid

LEMMA SpendingStep == ASSUME Spending, [Next]_vars PROVE Spending'
<1>1. Settling /\ Settling' /\ TypeOK /\ TypeOK'
  BY SettlingStep DEF Spending, Settling
<1>2. SUFFICES ASSUME SoleWorkers PROVE AllPaid'
  BY <1>1 DEF Spending, SoleWorkers
<1>3. AllPaid
  BY <1>2 DEF Spending
<1>4. CASE UNCHANGED <<sends, worker, job, requeued>> /\ faults' \in {faults, faults + 1}
  <2>1. Richer
    BY <1>1, <1>4, BudgetFacts DEF Richer
  <2>2. QED
    BY <1>1, <1>2, <1>3, <1>4, <2>1, IdlePaid
<1>5. ASSUME NEW c \in Change, Commit(c) \/ Enqueue(c) \/ EnqueueErrs(c) \/ CrashApi(c)
      PROVE  AllPaid'
  <2>1. CASE Enqueue(c)
    <3>1. PICK j \in Job : /\ job[j].status = "none" /\ Writes(j, "PENDING", 0, TRUE)
                           /\ UNCHANGED <<sends, worker, requeued, faults>>
      BY <2>1 DEF Enqueue, ToCreate, log
    <3>2. Richer
      BY <1>1, <3>1, BudgetFacts DEF Richer
    <3>3. sends[j] + MAX_ATTEMPTS <= Budget(j)'
      <4>1. ~Running(j)
        BY <1>1, <1>2, <3>1, RunningFacts
      <4>2. sends[j] + MAX_ATTEMPTS <= Budget(j) + 0 + 0
        BY <1>3, <3>1, <4>1 DEF AllPaid, RowPaid
      <4>3. Budget(j)' = Budget(j) /\ Budget(j) \in Nat
        BY <1>1, <3>1, BudgetFacts
      <4>4. QED
        BY <4>2, <4>3
    <3>4. QED
      BY <1>1, <1>2, <1>3, <3>1, <3>2, <3>3, QueuePaid
  <2>2. CASE Commit(c) \/ EnqueueErrs(c) \/ CrashApi(c)
    BY <1>4, <2>2 DEF Commit, EnqueueErrs, CrashApi, Fault, rows, log
  <2>3. QED
    BY <1>5, <2>1, <2>2
<1>6. ASSUME NEW w \in Worker, Works(w) \/ SuccessErrs(w) \/ FailureErrs(w) \/ StopWorker(w)
      PROVE  AllPaid'
  BY <1>1, <1>2, <1>3, <1>6, PollPaid, SendPaid, RecordPaid, FaultPaid DEF Works
<1>7. ASSUME NEW j \in Job, ComesDue(j) \/ Redeliver(j) \/ ReadForRequeue(j) \/ Requeue(j)
      PROVE  AllPaid'
  <2>1. CASE Redeliver(j) \/ Requeue(j)
    <3>1. /\ Writes(j, "PENDING", 0, TRUE) /\ UNCHANGED <<sends, worker, faults>>
          /\ requeued' = [requeued EXCEPT ![j] = @ + 1]
      BY <2>1 DEF Redeliver, Requeue
    <3>2. \A i \in Job : Budget(i)' = IF i = j THEN Budget(i) + MAX_ATTEMPTS ELSE Budget(i)
      BY <1>1, <3>1, BudgetFacts
    <3>3. \A i \in Job : Budget(i) \in Nat /\ MAX_ATTEMPTS \in Nat
      BY <1>1, Numbers
    <3>4. Richer
      BY <3>2, <3>3 DEF Richer
    <3>5. sends[j] \in Nat /\ sends[j] <= Budget(j)
      BY <1>1, <1>2, <1>3, SpentWithin, Numbers
    <3>6. Budget(j)' = Budget(j) + MAX_ATTEMPTS
      BY <3>2
    <3>7. sends[j] + MAX_ATTEMPTS <= Budget(j)'
      BY <3>3, <3>5, <3>6
    <3>8. QED
      BY <1>1, <1>2, <1>3, <3>1, <3>4, <3>7, QueuePaid
  <2>2. CASE ComesDue(j) \/ ReadForRequeue(j)
    BY <1>4, <2>2 DEF ComesDue, ReadForRequeue, rows, log
  <2>3. QED
    BY <1>7, <2>1, <2>2
<1>8. CASE UNCHANGED vars
  BY <1>4, <1>8 DEF vars
<1>9. QED
  BY <1>5, <1>6, <1>7, <1>8 DEF Next

LEMMA InitSpending == ASSUME Init PROVE Spending
<1>1. TypeOK /\ Settling
  BY InitSettling DEF Settling
<1>2. \A w \in Worker : Len(worker[w].batch) = 0 /\ worker[w].at = "poll"
  BY RestingType, EmptySeq DEF Init
<1>3. \A w \in Worker : Paid(worker[w])
  BY <1>2 DEF Paid
<1>4. ASSUME NEW j \in Job PROVE RowPaid(j)
  <2>1. /\ sends[j] = 0 /\ requeued[j] = 0 /\ faults = 0
        /\ job[j] = [status |-> "none", attempts |-> 0]
    BY DEF Init
  <2>2. MAX_ATTEMPTS \in Nat /\ MAX_ATTEMPTS > 0
    BY DeliveryAssumption
  <2>3. ~Running(j)
    BY <1>2 DEF Running, Sending
  <2>4. Budget(j) = MAX_ATTEMPTS * (1 + 0) + 0
    BY <2>1 DEF Budget
  <2>5. MAX_ATTEMPTS * (1 + 0) + 0 = MAX_ATTEMPTS
    BY <2>2
  <2>6. QED
    BY <2>1, <2>2, <2>3, <2>4, <2>5 DEF RowPaid
<1>5. QED
  BY <1>1, <1>3, <1>4 DEF Spending, AllPaid

\* With one worker of a kind nobody is sent the same thing for ever, whatever the batch
\* size, the number of attempts, the jobs and the faults.
THEOREM BoundedSends == Safety => []SendsAreBounded
<1>1. Init => Spending
  BY InitSpending
<1>2. Spending /\ [Next]_vars => Spending'
  BY SpendingStep
<1>3. Spending => SendsAreBounded
  BY SpentWithin DEF Spending, SendsAreBounded, Budget
<1>4. QED
  BY <1>1, <1>2, <1>3, PTL DEF Safety

-----------------------------------------------------------------------------
(* The outbox.                                                                 *)

\* A lost job has no row, and what staff want to requeue has one.
Tracked ==
  /\ \A j \in lost : job[j].status = "none"
  /\ \A j \in asks : job[j].status # "none"

Shown == [j \in Job |-> IF j \in lost THEN "lost" ELSE job[j].status]

LEMMA WritesTurn ==
  ASSUME TypeOK, NEW j \in Job, NEW status \in Status, NEW n \in Nat, NEW isDue \in BOOLEAN,
         Writes(j, status, n, isDue), UNCHANGED lost, j \notin lost
  PROVE  Shown' = [Shown EXCEPT ![j] = status]
<1>1. /\ job'[j] = [status |-> status, attempts |-> n]
      /\ \A i \in Job \ {j} : job'[i] = job[i]
  BY WritesType
<1>2. \A i \in Job : (IF i \in lost' THEN "lost" ELSE job'[i].status)
                      = IF i = j THEN status ELSE Shown[i]
  <2>1. job'[j].status = status
    BY <1>1
  <2>2. QED
    BY <1>1, <2>1 DEF Shown
<1>3. QED
  BY <1>2 DEF Shown

LEMMA WritesTracked ==
  ASSUME TypeOK, Tracked, NEW j \in Job, NEW status \in Status \ {"none"}, NEW n \in Nat,
         NEW isDue \in BOOLEAN, Writes(j, status, n, isDue),
         UNCHANGED lost, j \notin lost, asks' \subseteq asks
  PROVE  Tracked'
<1>1. /\ job'[j] = [status |-> status, attempts |-> n]
      /\ \A i \in Job \ {j} : job'[i] = job[i]
  BY WritesType
<1>2. lost \subseteq Job /\ asks \subseteq Job
  BY DEF TypeOK
<1>3. QED
  BY <1>1, <1>2 DEF Tracked

\* The job a sole worker is at is PENDING, so it is not lost.
LEMMA CurrentIsPending ==
  ASSUME SoleWorkers, Settling, Tracked, NEW w \in Worker, ~At(w, "poll")
  PROVE  /\ Current(w) \in Snapshot /\ Current(w).job \notin lost
         /\ job[Current(w).job].status = "PENDING"
<1>1. Current(w) = worker[w].batch[1] /\ Current(w) \in Snapshot /\ 1 \in 1..Len(worker[w].batch)
  BY BatchFacts DEF Settling
<1>2. job[Current(w).job].status = "PENDING"
  BY <1>1 DEF Settling, HeldRows, Live
<1>3. QED
  BY <1>1, <1>2 DEF Tracked

\* What a record of a worker writes.
LEMMA RecordWrites ==
  ASSUME TypeOK, NEW w \in Worker, RecordSuccess(w) \/ RecordFailure(w),
         Current(w) \in Snapshot
  PROVE  \E status \in Status \ {"none"}, n \in Nat :
           Writes(Current(w).job, status, n, FALSE)
<1>1. Current(w).attempts + 1 \in Nat
  BY DEF Snapshot
<1>2. \E status \in {"DONE", "PENDING", "FAILED"} :
        Writes(Current(w).job, status, Current(w).attempts + 1, FALSE)
  BY DEF RecordSuccess, RecordFailure
<1>3. QED
  BY <1>1, <1>2 DEF Status

LEMMA TrackedStep ==
  ASSUME SoleWorkers, Settling, Tracked, [Next]_vars
  PROVE  Tracked'
<1>1. TypeOK
  BY DEF Settling
<1>2. ASSUME NEW c \in Change, Commit(c) \/ Enqueue(c) \/ EnqueueErrs(c) \/ CrashApi(c)
      PROVE  Tracked'
  <2>1. CASE Enqueue(c)
    <3>1. PICK j \in ToCreate(c) : Writes(j, "PENDING", 0, TRUE)
      BY <2>1 DEF Enqueue
    <3>2. "PENDING" \in Status \ {"none"} /\ j \in Job /\ j \notin lost
      BY DEF Status, ToCreate
    <3>3. QED
      BY <1>1, <2>1, <3>1, <3>2, WritesTracked DEF Enqueue
  <2>2. CASE Commit(c) \/ EnqueueErrs(c) \/ CrashApi(c)
    <3>1. job' = job /\ asks' = asks /\ \A j \in lost' : j \in lost \/ job[j].status = "none"
      BY <2>2 DEF Commit, EnqueueErrs, CrashApi, ToCreate, rows
    <3>2. QED
      BY <3>1 DEF Tracked
  <2>3. QED
    BY <1>2, <2>1, <2>2
<1>3. ASSUME NEW w \in Worker, RecordSuccess(w) \/ RecordFailure(w)
      PROVE  Tracked'
  <2>1. Current(w) \in Snapshot /\ Current(w).job \notin lost /\ Current(w).job \in Job
    BY <1>3, CurrentIsPending DEF RecordSuccess, RecordFailure, At, Snapshot
  <2>2. PICK status \in Status \ {"none"}, n \in Nat :
          Writes(Current(w).job, status, n, FALSE)
    BY <1>1, <1>3, <2>1, RecordWrites
  <2>3. UNCHANGED <<lost, asks>>
    BY <1>3 DEF RecordSuccess, RecordFailure
  <2>4. QED
    BY <1>1, <2>1, <2>2, <2>3, WritesTracked
<1>4. ASSUME NEW w \in Worker,
             Poll(w) \/ Send(w) \/ SuccessErrs(w) \/ FailureErrs(w) \/ StopWorker(w)
      PROVE  Tracked'
  BY <1>4 DEF Poll, Send, SuccessErrs, FailureErrs, StopWorker, rows, Tracked
<1>5. ASSUME NEW j \in Job, Redeliver(j) \/ Requeue(j)
      PROVE  Tracked'
  <2>1. Writes(j, "PENDING", 0, TRUE) /\ lost' = lost /\ asks' \subseteq asks
    BY <1>5 DEF Redeliver, Requeue
  <2>2. j \notin lost /\ "PENDING" \in Status \ {"none"}
    BY <1>5 DEF Redeliver, Requeue, Tracked, Status
  <2>3. QED
    BY <1>1, <2>1, <2>2, WritesTracked
<1>6. ASSUME NEW j \in Job, ComesDue(j) \/ ReadForRequeue(j)
      PROVE  Tracked'
  BY <1>6 DEF ComesDue, ReadForRequeue, rows, Tracked
<1>7. CASE UNCHANGED vars
  BY <1>7 DEF vars, rows, Tracked
<1>8. QED
  BY <1>2, <1>3, <1>4, <1>5, <1>6, <1>7 DEF Next, Works

LEMMA OutboxStep ==
  ASSUME SoleWorkers, Settling, RecordIsHonest', TypeOK', Tracked, [Next]_vars
  PROVE  [Outbox!Next]_(Outbox!vars)
<1>1. TypeOK
  BY DEF Settling
<1>2. ASSUME UNCHANGED <<committed, lost, job, sends, accepted, requeued>>
      PROVE  [Outbox!Next]_(Outbox!vars)
  BY <1>2 DEF Outbox!vars
<1>3. ASSUME NEW c \in Change, Commit(c) \/ Enqueue(c) \/ EnqueueErrs(c) \/ CrashApi(c)
      PROVE  [Outbox!Next]_(Outbox!vars)
  <2>1. CASE Commit(c)
    <3>1. Outbox!Commit(c)
      BY <2>1 DEF Commit, Outbox!Commit, rows, log
    <3>2. QED
      BY <3>1 DEF Outbox!Next
  <2>2. CASE Enqueue(c)
    <3>1. PICK j \in ToCreate(c) : Writes(j, "PENDING", 0, TRUE)
      BY <2>2 DEF Enqueue
    <3>2. j \in Job /\ j \notin lost /\ j[1] = c /\ job[j].status = "none" /\ "PENDING" \in Status
      BY DEF Status, ToCreate
    <3>3. Shown[j] = "none" /\ Shown' = [Shown EXCEPT ![j] = "PENDING"]
      BY <1>1, <2>2, <3>1, <3>2, WritesTurn DEF Enqueue, Shown
    <3>4. Outbox!Create(j)
      BY <2>2, <3>2, <3>3 DEF Enqueue, log, Outbox!Create, Outbox!Turns, Shown
    <3>5. QED
      BY <3>2, <3>4 DEF Outbox!Next
  <2>3. CASE EnqueueErrs(c) \/ CrashApi(c)
    <3>1. PICK J \in SUBSET ToCreate(c) : lost' = lost \cup J
      BY <2>3 DEF EnqueueErrs, CrashApi
    <3>2. c \in committed /\ UNCHANGED <<committed, job, sends, accepted, requeued>>
      BY <2>3 DEF EnqueueErrs, CrashApi, rows, log
    <3>3. \A j \in J : j[1] \in committed /\ Shown[j] = "none" /\ j \in Job
      BY <3>1, <3>2 DEF ToCreate, Shown
    <3>4. Shown' = [j \in Job |-> IF j \in J THEN "lost" ELSE Shown[j]]
      BY <3>1, <3>2 DEF Shown
    <3>5. Outbox!Lose(J) /\ J \in SUBSET Job
      BY <3>2, <3>3, <3>4 DEF Outbox!Lose, Shown
    <3>6. QED
      BY <3>5 DEF Outbox!Next
  <2>4. QED
    BY <1>3, <2>1, <2>2, <2>3
<1>4. ASSUME NEW w \in Worker, Send(w)
      PROVE  [Outbox!Next]_(Outbox!vars)
  <2>1. PICK j \in Job : j = Current(w).job
    BY <1>4, CurrentIsPending DEF Send, At, Snapshot
  <2>2. Shown[j] = "PENDING"
    BY <1>4, <2>1, CurrentIsPending DEF Send, At, Shown
  <2>3. Outbox!Send(j)
    BY <1>4, <2>1, <2>2 DEF Send, rows, Outbox!Send, Shown
  <2>4. QED
    BY <2>3 DEF Outbox!Next
<1>5. ASSUME NEW w \in Worker, RecordSuccess(w) \/ RecordFailure(w)
      PROVE  [Outbox!Next]_(Outbox!vars)
  <2>1. Current(w) \in Snapshot /\ Current(w).job \notin lost
        /\ job[Current(w).job].status = "PENDING"
    BY <1>5, CurrentIsPending DEF RecordSuccess, RecordFailure, At
  <2>2. PICK j \in Job : j = Current(w).job
    BY <2>1 DEF Snapshot
  <2>3. PICK status \in Status \ {"none"}, n \in Nat : Writes(j, status, n, FALSE)
    BY <1>1, <1>5, <2>1, <2>2, RecordWrites
  <2>4. UNCHANGED <<committed, lost, sends, accepted, requeued>>
    BY <1>5 DEF RecordSuccess, RecordFailure, log
  <2>5. Shown[j] = "PENDING" /\ Shown' = [Shown EXCEPT ![j] = status]
    BY <1>1, <2>1, <2>2, <2>3, <2>4, WritesTurn DEF Shown
  <2>6. job'[j].status = status
    <3>1. job'[j] = [status |-> status, attempts |-> n]
      BY <1>1, <2>3, WritesType
    <3>2. QED
      BY <3>1
  <2>7. CASE status = "DONE"
    <3>1. j \in accepted
      BY <2>4, <2>6, <2>7 DEF RecordIsHonest
    <3>2. Outbox!Finish(j)
      BY <2>4, <2>5, <2>7, <3>1 DEF Outbox!Finish, Outbox!Turns, Shown
    <3>3. QED
      BY <3>2 DEF Outbox!Next
  <2>8. CASE status = "FAILED"
    <3>1. sends[j] >= MAX_ATTEMPTS
      BY <2>4, <2>6, <2>8 DEF RecordIsHonest
    <3>2. Outbox!GiveUp(j)
      BY <2>4, <2>5, <2>8, <3>1 DEF Outbox!GiveUp, Outbox!Turns, Shown
    <3>3. QED
      BY <3>2 DEF Outbox!Next
  <2>9. CASE status = "PENDING"
    <3>1. Shown' = Shown
      BY <2>5, <2>9 DEF Shown
    <3>2. QED
      BY <2>4, <3>1 DEF Outbox!vars, Shown
  <2>10. QED
    BY <2>7, <2>8, <2>9 DEF Status
<1>6. ASSUME NEW j \in Job, Redeliver(j) \/ Requeue(j)
      PROVE  [Outbox!Next]_(Outbox!vars)
  <2>1. /\ Writes(j, "PENDING", 0, TRUE) /\ requeued' = [requeued EXCEPT ![j] = @ + 1]
        /\ UNCHANGED <<committed, lost, sends, accepted>>
    BY <1>6 DEF Redeliver, Requeue
  <2>2. job[j].status \in Status \ {"none"} /\ j \notin lost
    BY <1>1, <1>6, TypeForm DEF Redeliver, Requeue, Tracked, Row
  <2>3. Shown[j] = job[j].status /\ Shown' = [Shown EXCEPT ![j] = "PENDING"]
    BY <1>1, <2>1, <2>2, WritesTurn DEF Shown, Status
  <2>4. Outbox!Requeue(j)
    BY <2>1, <2>2, <2>3 DEF Outbox!Requeue, Outbox!Turns, Shown, Status
  <2>5. QED
    BY <2>4 DEF Outbox!Next
<1>7. ASSUME NEW w \in Worker,
             Poll(w) \/ SuccessErrs(w) \/ FailureErrs(w) \/ StopWorker(w)
      PROVE  [Outbox!Next]_(Outbox!vars)
  BY <1>2, <1>7 DEF Poll, SuccessErrs, FailureErrs, StopWorker, rows, log
<1>8. ASSUME NEW j \in Job, ComesDue(j) \/ ReadForRequeue(j)
      PROVE  [Outbox!Next]_(Outbox!vars)
  BY <1>2, <1>8 DEF ComesDue, ReadForRequeue, rows, log
<1>9. CASE UNCHANGED vars
  BY <1>2, <1>9 DEF vars
<1>10. QED
  BY <1>3, <1>4, <1>5, <1>6, <1>7, <1>8, <1>9 DEF Next, Works

\* OutboxKept: with one worker of a kind, the rows and the workers implement the outbox,
\* for any number of changes, jobs, attempts, requeues and faults and any batch size.
THEOREM OutboxImplemented ==
  ASSUME SoleWorkers
  PROVE  Safety => OutboxKept
<1>1. Init => Outbox!Init /\ Tracked
  BY DEF Init, Outbox!Init, Tracked
<1>2. Init => Settling
  BY InitSettling
<1>3. Settling /\ [Next]_vars => Settling'
  BY SettlingStep
<1>4. Settling /\ Tracked /\ [Next]_vars => Tracked'
  BY TrackedStep
<1>5. Settling /\ Tracked /\ RecordIsHonest' /\ TypeOK' /\ [Next]_vars
        => [Outbox!Next]_(Outbox!vars)
  BY OutboxStep
<1>6. QED
  BY <1>1, <1>2, <1>3, <1>4, <1>5, Typing, HonestRecord, PTL
     DEF Safety, OutboxKept, Outbox!Spec
=============================================================================
