\* Two workers, clients that do anything, S3, broker and processes that fail.
CONSTANTS
  Claims = {c1}
  Workers = {w1, w2}
  Cron = cron
  Docs = {d1}
  Statuses = {s1}
  NoClaim = NoClaim
  NoDoc = NoDoc
  NoProc = NoProc
  NoStatus = NoStatus
  Ops <- KeepingOps
  Faults = {"put", "probe", "delete", "crash"}
  Polite = FALSE
  CronAlone = FALSE
SPECIFICATION FairSpec
INVARIANTS TypeOK QueueEntryServable
PROPERTIES ClosedStaysClosed KeepsPromise RequestsFinish
