------------------------------ MODULE Delivery ------------------------------
(***************************************************************************)
(* What follows a committed change of a reservation: webhooks and          *)
(* notifications are enqueued as rows, a worker of each kind polls the     *)
(* rows that are due, sends them and records the outcome, and staff queue  *)
(* rows again.                                                             *)
(*                                                                         *)
(* A job <<c, k>> is the row of change c in the table of kind k.  The rows *)
(* of a kind are read in the order of nextAttemptAt (scheduledAt), so they *)
(* are kept in the order in which they came due.                           *)
(***************************************************************************)
EXTENDS Naturals, Sequences, Functions

CONSTANTS
  Change,               \* changes of reservations that send something
  Job,                  \* the rows these changes give rise to
  WebhookWorkers,       \* processes of webhooks.worker
  NotificationWorkers,  \* processes of notifications.worker
  BATCH_SIZE,
  MAX_ATTEMPTS,
  Requeues,             \* bound on how often staff queue jobs again
  Faults                \* bound on failed statements and crashes

Kind == {"webhook", "notification"}
Worker == WebhookWorkers \cup NotificationWorkers

ASSUME DeliveryAssumption ==
  /\ Job \subseteq Change \X Kind
  /\ WebhookWorkers \cap NotificationWorkers = {}
  /\ BATCH_SIZE \in Nat \ {0} /\ MAX_ATTEMPTS \in Nat \ {0}
  /\ Requeues \in Nat /\ Faults \in Nat

VARIABLES
  committed,  \* changes whose transaction has committed
  lost,       \* jobs that will never be created
  job,        \* the rows: status and attempts
  due,        \* per kind: the PENDING rows whose time has come, oldest first
  worker,     \* what each worker does, and the rest of its batch
  asks,       \* notifications that staff have read as FAILED, to requeue them
  faults,
  sends,      \* (auxiliary) how often a job was sent
  accepted,   \* (auxiliary) jobs that the endpoint or provider accepted
  requeued,   \* (auxiliary) how often staff queued a job again
  owed        \* (auxiliary) jobs queued again while no worker held them, not sent since

rows == <<job, due>>
log == <<sends, accepted, requeued, owed>>
vars == <<committed, lost, job, due, worker, asks, faults, sends, accepted, requeued, owed>>
-----------------------------------------------------------------------------
KindOf(w) == IF w \in WebhookWorkers THEN "webhook" ELSE "notification"

Resting == [at |-> "poll", batch |-> <<>>]

At(w, place) == worker[w].at = place
Goes(w, place) == worker' = [worker EXCEPT ![w].at = place]
Current(w) == Head(worker[w].batch)
Holds(w, j) == \E i \in 1..Len(worker[w].batch) : worker[w].batch[i].job = j

\* Mutation: the end of the batch is not noticed.
NextJobForever(w) ==
  worker' = [worker EXCEPT ![w] = [at |-> "send", batch |-> Tail(@.batch)]]

NextJob(w) ==
  worker' = [worker EXCEPT ![w] = IF Len(@.batch) = 1 THEN Resting
                                  ELSE [at |-> "send", batch |-> Tail(@.batch)]]

\* The sequence s without job j, which is in s at most once.
Without(s, j) ==
  IF \E i \in 1..Len(s) : s[i] = j
    THEN LET n == CHOOSE i \in 1..Len(s) : s[i] = j
         IN [i \in 1..(Len(s) - 1) |-> IF i < n THEN s[i] ELSE s[i + 1]]
    ELSE s

\* Mutation: a row that is done stays among those that are due.
WritesKeepingDue(j, status, attempts, isDue) ==
  /\ job' = [job EXCEPT ![j] = [status |-> status, attempts |-> attempts]]
  /\ due' = [due EXCEPT ![j[2]] = IF isDue \/ status # "PENDING"
                                    THEN Append(Without(@, j), j) ELSE Without(@, j)]

\* The row of job j is written: its status and attempts, and whether it is due.
Writes(j, status, attempts, isDue) ==
  /\ job' = [job EXCEPT ![j] = [status |-> status, attempts |-> attempts]]
  /\ due' = [due EXCEPT ![j[2]] = IF isDue THEN Append(Without(@, j), j)
                                          ELSE Without(@, j)]

Fault == faults < Faults /\ faults' = faults + 1
-----------------------------------------------------------------------------
(* The request: its transaction, then the rows.                             *)

Commit(c) ==
  /\ c \notin committed
  /\ committed' = committed \cup {c}
  /\ UNCHANGED <<lost, rows, worker, asks, faults, log>>

ToCreate(c) == {j \in Job : j[1] = c /\ job[j].status = "none" /\ j \notin lost}

\* Mutation: the rows are written before the change has committed.
EnqueueEarly(c) ==
  /\ \E j \in ToCreate(c) : Writes(j, "PENDING", 0, TRUE)
  /\ UNCHANGED <<committed, lost, worker, asks, faults, log>>

\* enqueueReservationEvents; the two kinds run concurrently.
Enqueue(c) ==
  /\ c \in committed
  /\ \E j \in ToCreate(c) : Writes(j, "PENDING", 0, TRUE)
  /\ UNCHANGED <<committed, lost, worker, asks, faults, log>>

\* The rows' transaction fails, which is logged, or the endpoints cannot be read.
EnqueueErrs(c) ==
  /\ c \in committed
  /\ Fault
  /\ \E j \in ToCreate(c) : lost' = lost \cup {j}
  /\ UNCHANGED <<committed, rows, worker, asks, log>>

CrashApi(c) ==
  /\ c \in committed /\ ToCreate(c) # {}
  /\ Fault
  /\ lost' = lost \cup ToCreate(c)
  /\ UNCHANGED <<committed, rows, worker, asks, log>>
-----------------------------------------------------------------------------
(* The workers.                                                             *)

\* The batch is a copy: what is written to its rows afterwards is not seen.
Snapshots(s) ==
  [i \in 1..(IF Len(s) < BATCH_SIZE THEN Len(s) ELSE BATCH_SIZE) |->
     [job |-> s[i], attempts |-> job[s[i]].attempts]]

Poll(w) ==
  /\ At(w, "poll")
  /\ due[KindOf(w)] # <<>>
  /\ worker' = [worker EXCEPT ![w] = [at |-> "send", batch |-> Snapshots(due[KindOf(w)])]]
  /\ UNCHANGED <<committed, lost, rows, asks, faults, log>>

\* fetch, or the provider: it answers, refuses, or accepts and the answer is lost.
Send(w) ==
  /\ At(w, "send")
  /\ LET j == Current(w).job IN
       /\ sends' = [sends EXCEPT ![j] = @ + 1]
       /\ owed' = owed \ {j}
       /\ \/ accepted' = accepted \cup {j} /\ Goes(w, "success")
          \/ accepted' = accepted \cup {j} /\ Goes(w, "failure")
          \/ accepted' = accepted /\ Goes(w, "failure")
  /\ UNCHANGED <<committed, lost, rows, asks, faults, requeued>>

RecordSuccess(w) ==
  /\ At(w, "success")
  /\ Writes(Current(w).job, "DONE", Current(w).attempts + 1, FALSE)
  /\ NextJob(w)
  /\ UNCHANGED <<committed, lost, asks, faults, log>>

\* The failed update is caught like a failed send.
SuccessErrs(w) ==
  /\ At(w, "success")
  /\ Fault
  /\ Goes(w, "failure")
  /\ UNCHANGED <<committed, lost, rows, asks, log>>

\* Mutation: the attempt is not counted.
RecordUncounted(w) ==
  /\ At(w, "failure")
  /\ LET n == Current(w).attempts IN
       Writes(Current(w).job, IF n + 1 < MAX_ATTEMPTS THEN "PENDING" ELSE "FAILED", n, FALSE)
  /\ NextJob(w)
  /\ UNCHANGED <<committed, lost, asks, faults, log>>

\* Mutation: a job is given up when one attempt is left.
RecordEarly(w) ==
  /\ At(w, "failure")
  /\ LET n == Current(w).attempts + 1 IN
       Writes(Current(w).job, IF n + 1 < MAX_ATTEMPTS THEN "PENDING" ELSE "FAILED", n, FALSE)
  /\ NextJob(w)
  /\ UNCHANGED <<committed, lost, asks, faults, log>>

\* A retry is due after its backoff only.
RecordFailure(w) ==
  /\ At(w, "failure")
  /\ LET n == Current(w).attempts + 1 IN
       Writes(Current(w).job, IF n < MAX_ATTEMPTS THEN "PENDING" ELSE "FAILED", n, FALSE)
  /\ NextJob(w)
  /\ UNCHANGED <<committed, lost, asks, faults, log>>

\* The webhooks worker goes on with its batch, the other drops it.
FailureErrs(w) ==
  /\ At(w, "failure")
  /\ Fault
  /\ IF KindOf(w) = "webhook" THEN NextJob(w)
                              ELSE worker' = [worker EXCEPT ![w] = Resting]
  /\ UNCHANGED <<committed, lost, rows, asks, log>>

\* A crash, or a signal, which ends the worker between two jobs.
StopWorker(w) ==
  /\ ~At(w, "poll")
  /\ Fault
  /\ worker' = [worker EXCEPT ![w] = Resting]
  /\ UNCHANGED <<committed, lost, rows, asks, log>>

\* Mutation: only rows that were never tried are polled.
ComesDueOnce(j) ==
  /\ job[j].status = "PENDING" /\ job[j].attempts = 0
  /\ \A i \in 1..Len(due[j[2]]) : due[j[2]][i] # j
  /\ due' = [due EXCEPT ![j[2]] = Append(@, j)]
  /\ UNCHANGED <<committed, lost, job, worker, asks, faults, log>>

\* The backoff of a row is over.
ComesDue(j) ==
  /\ job[j].status = "PENDING"
  /\ \A i \in 1..Len(due[j[2]]) : due[j[2]][i] # j
  /\ due' = [due EXCEPT ![j[2]] = Append(@, j)]
  /\ UNCHANGED <<committed, lost, job, worker, asks, faults, log>>
-----------------------------------------------------------------------------
(* Staff.                                                                   *)

MayRequeue == SumFunction(requeued) < Requeues
Owed(j) == IF \E w \in Worker : Holds(w, j) THEN owed ELSE owed \cup {j}

\* Mutation: the status is left as it was.
RedeliverKeepingStatus(j) ==
  /\ j[2] = "webhook" /\ job[j].status # "none" /\ MayRequeue
  /\ Writes(j, job[j].status, 0, job[j].status = "PENDING")
  /\ requeued' = [requeued EXCEPT ![j] = @ + 1]
  /\ owed' = Owed(j)
  /\ UNCHANGED <<committed, lost, worker, asks, faults, sends, accepted>>

\* WebhooksAdminService.redeliver, whatever the status.
Redeliver(j) ==
  /\ j[2] = "webhook" /\ job[j].status # "none" /\ MayRequeue
  /\ Writes(j, "PENDING", 0, TRUE)
  /\ requeued' = [requeued EXCEPT ![j] = @ + 1]
  /\ owed' = Owed(j)
  /\ UNCHANGED <<committed, lost, worker, asks, faults, sends, accepted>>

\* NotificationsAdminService.requeue: the status is checked first.
ReadForRequeue(j) ==
  /\ j[2] = "notification" /\ job[j].status = "FAILED" /\ j \notin asks
  /\ MayRequeue
  /\ asks' = asks \cup {j}
  /\ UNCHANGED <<committed, lost, rows, worker, faults, log>>

Requeue(j) ==
  /\ j \in asks /\ MayRequeue
  /\ asks' = asks \ {j}
  /\ Writes(j, "PENDING", 0, TRUE)
  /\ requeued' = [requeued EXCEPT ![j] = @ + 1]
  /\ owed' = Owed(j)
  /\ UNCHANGED <<committed, lost, worker, faults, sends, accepted>>
-----------------------------------------------------------------------------
Init ==
  /\ committed = {} /\ lost = {}
  /\ job = [j \in Job |-> [status |-> "none", attempts |-> 0]]
  /\ due = [k \in Kind |-> <<>>]
  /\ worker = [w \in Worker |-> Resting]
  /\ asks = {} /\ faults = 0
  /\ sends = [j \in Job |-> 0] /\ accepted = {}
  /\ requeued = [j \in Job |-> 0] /\ owed = {}

Works(w) == Poll(w) \/ Send(w) \/ RecordSuccess(w) \/ RecordFailure(w)

Next ==
  \/ \E c \in Change : Commit(c) \/ Enqueue(c) \/ EnqueueErrs(c) \/ CrashApi(c)
  \/ \E w \in Worker : Works(w) \/ SuccessErrs(w) \/ FailureErrs(w) \/ StopWorker(w)
  \/ \E j \in Job : ComesDue(j) \/ Redeliver(j) \/ ReadForRequeue(j) \/ Requeue(j)

Safety == Init /\ [][Next]_vars

\* Requests that committed go on, every worker is restarted and runs, and time passes.
Fairness ==
  /\ \A c \in Change : WF_vars(Enqueue(c))
  /\ \A w \in Worker : WF_vars(Works(w))
  /\ \A j \in Job : WF_vars(ComesDue(j))

Spec == Safety /\ Fairness
-----------------------------------------------------------------------------
(* Properties.                                                              *)

\* The type of every variable; a worker rests exactly when its batch is empty, so none
\* ends a batch early and none is left with a batch it does not work on.
TypeOK ==
  /\ committed \subseteq Change /\ lost \subseteq Job
  /\ job \in [Job -> [status : {"none", "PENDING", "DONE", "FAILED"}, attempts : Nat]]
  /\ due \in [Kind -> Seq(Job)]
  /\ worker \in [Worker -> [at : {"poll", "send", "success", "failure"},
                            batch : Seq([job : Job, attempts : Nat])]]
  /\ \A w \in Worker : At(w, "poll") <=> worker[w].batch = <<>>
  /\ asks \subseteq Job /\ faults \in 0..Faults
  /\ sends \in [Job -> Nat] /\ accepted \subseteq Job
  /\ requeued \in [Job -> Nat] /\ owed \subseteq Job

\* Each kind has one worker, as it is deployed.
SoleWorkers == \A v, w \in Worker : KindOf(v) = KindOf(w) => v = w

\* What was delivered or given up is not touched again unless staff queue it: no stale
\* copy in a batch, late retry or leftover of the order brings a settled row back.
SettledStaysSettled ==
  [][SoleWorkers =>
       \A j \in Job : job[j].status \in {"DONE", "FAILED"} /\ job'[j] # job[j]
                        => requeued'[j] > requeued[j]]_vars

\* The record of a job is honest although workers write it from old copies, staff reset
\* it and statements fail: it is DONE only when it was accepted, it is given up only
\* after it was sent MAX_ATTEMPTS times, and it never counts an attempt that was not
\* made.
RecordIsHonest ==
  \A j \in Job :
    /\ job[j].status = "DONE" => j \in accepted
    /\ job[j].status = "FAILED" => sends[j] >= MAX_ATTEMPTS
    /\ job[j].attempts <= sends[j]

\* Nobody is sent the same thing for ever: with one worker of a kind, a job is sent at
\* most MAX_ATTEMPTS times each time it is queued, and once more for each statement or
\* process that failed.
SendsAreBounded ==
  SoleWorkers =>
    \A j \in Job : sends[j] <= MAX_ATTEMPTS * (1 + requeued[j]) + faults

Outbox == INSTANCE Outbox WITH
  status <- [j \in Job |-> IF j \in lost THEN "lost" ELSE job[j].status]

\* The rows, the batches and the two kinds of worker, with their stale copies, faults
\* and crashes, are an outbox to the outside: only committed changes are told of, only
\* pending jobs are sent, and what is done or given up stays so unless staff queue it.
OutboxKept == Outbox!Spec

Settled(j) == job[j].status \in {"DONE", "FAILED"} \/ j \in lost

\* Whatever is owed for a committed change is delivered or given up in the end, unless
\* its row was lost before it was written; a job that fails does not hold up others.
EveryJobSettles == \A j \in Job : (j[1] \in committed /\ ~Settled(j)) ~> Settled(j)

\* What staff queue again is sent again, unless a worker holds an old copy of the row.
RequeuedIsSent == \A j \in Job : (j \in owed) ~> (j \notin owed)
=============================================================================
