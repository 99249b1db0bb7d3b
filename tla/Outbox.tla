-------------------------------- MODULE Outbox --------------------------------
(***************************************************************************)
(* What the delivery of webhooks and notifications promises: jobs exist    *)
(* for committed changes only, only a pending job is sent, a job is done   *)
(* when it was accepted and given up when it was sent often enough, and    *)
(* only staff bring back a job that is done or was given up.  A job may    *)
(* be lost before it is created, never afterwards.                         *)
(***************************************************************************)
EXTENDS Naturals

CONSTANTS Change, Job, MAX_ATTEMPTS

VARIABLES
  committed,  \* changes that have committed
  status,     \* of each job
  sends,      \* how often each job was sent
  accepted,   \* jobs that were accepted
  requeued    \* how often staff queued each job again

vars == <<committed, status, sends, accepted, requeued>>

Status == {"none", "PENDING", "DONE", "FAILED", "lost"}

TypeOK ==
  /\ committed \subseteq Change /\ accepted \subseteq Job
  /\ status \in [Job -> Status]
  /\ sends \in [Job -> Nat] /\ requeued \in [Job -> Nat]

Init ==
  /\ committed = {}
  /\ status = [j \in Job |-> "none"]
  /\ sends = [j \in Job |-> 0]
  /\ accepted = {}
  /\ requeued = [j \in Job |-> 0]

Commit(c) ==
  /\ committed' = committed \cup {c}
  /\ UNCHANGED <<status, sends, accepted, requeued>>

Turns(j, from, to) == status[j] = from /\ status' = [status EXCEPT ![j] = to]

Create(j) ==
  /\ j[1] \in committed
  /\ Turns(j, "none", "PENDING")
  /\ UNCHANGED <<committed, sends, accepted, requeued>>

Lose(J) ==
  /\ \A j \in J : j[1] \in committed /\ status[j] = "none"
  /\ status' = [j \in Job |-> IF j \in J THEN "lost" ELSE status[j]]
  /\ UNCHANGED <<committed, sends, accepted, requeued>>

Send(j) ==
  /\ status[j] = "PENDING"
  /\ sends' = [sends EXCEPT ![j] = @ + 1]
  /\ accepted' \in {accepted, accepted \cup {j}}
  /\ UNCHANGED <<committed, status, requeued>>

Finish(j) ==
  /\ j \in accepted
  /\ Turns(j, "PENDING", "DONE")
  /\ UNCHANGED <<committed, sends, accepted, requeued>>

GiveUp(j) ==
  /\ sends[j] >= MAX_ATTEMPTS
  /\ Turns(j, "PENDING", "FAILED")
  /\ UNCHANGED <<committed, sends, accepted, requeued>>

Requeue(j) ==
  /\ \E st \in {"PENDING", "DONE", "FAILED"} : Turns(j, st, "PENDING")
  /\ requeued' = [requeued EXCEPT ![j] = @ + 1]
  /\ UNCHANGED <<committed, sends, accepted>>

Next ==
  \/ \E c \in Change : Commit(c)
  \/ \E J \in SUBSET Job : Lose(J)
  \/ \E j \in Job : Create(j) \/ Send(j) \/ Finish(j) \/ GiveUp(j) \/ Requeue(j)

Spec == Init /\ [][Next]_vars
=============================================================================
