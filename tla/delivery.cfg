SPECIFICATION Spec
CONSTANTS
  c1 = c1
  c2 = c2
  w1 = w1
  n1 = n1
  Change <- TwoChanges
  Job <- ThreeJobs
  WebhookWorkers <- OneWebhookWorker
  NotificationWorkers <- OneNotificationWorker
  BATCH_SIZE = 2
  MAX_ATTEMPTS = 2
  Requeues = 1
  Faults = 1
\* All is delivered: then nothing is left to do.
CHECK_DEADLOCK FALSE
INVARIANTS
  TypeOK
  RecordIsHonest
  SendsAreBounded
PROPERTIES
  SettledStaysSettled
  OutboxKept
  EveryJobSettles
  RequeuedIsSent
