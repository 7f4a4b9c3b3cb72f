\* A claimant cancels while the agency fetches; nothing fails.
CONSTANTS
  Claims = {c1}
  Workers = {w1, w2}
  Cron = cron
  Docs = {d1}
  Statuses = {s1}
  NoClaim = NoClaim
  NoDoc = NoDoc
  NoProc = NoProc
  NoStatus = NoStatus
  Ops = {"post_completed", "cancel", "swa_fetched"}
  Faults = {}
  Polite = TRUE
  CronAlone = FALSE
SPECIFICATION Spec
PROPERTY CancelOnlyUnfetched
CHECK_DEADLOCK FALSE
