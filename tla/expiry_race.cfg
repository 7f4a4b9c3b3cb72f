\* One claimant, one request at a time, nothing fails: the job alone races.
CONSTANTS
  Claims = {c1}
  Workers = {w1}
  Cron = cron
  Docs = {d1}
  Statuses = {s1}
  NoClaim = NoClaim
  NoDoc = NoDoc
  NoProc = NoProc
  NoStatus = NoStatus
  Ops = {"post_partial", "post_completed", "expire"}
  Faults = {}
  Polite = TRUE
  CronAlone = FALSE
SPECIFICATION Spec
PROPERTY ExpiryOnlyTakesDrafts
CHECK_DEADLOCK FALSE
