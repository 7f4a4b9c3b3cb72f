\* Every operation, clients that act only when the claim's state invites it,
\* the job at night, puts that fail.  With the claim closed and everybody
\* polite, nothing may be left to do: the system may stop.
CONSTANTS
  Claims = {c1}
  Workers = {w1, w2}
  Cron = cron
  Docs = {d1, d2}
  Statuses = {s1}
  NoClaim = NoClaim
  NoDoc = NoDoc
  NoProc = NoProc
  NoStatus = NoStatus
  Ops <- AllOps
  Faults = {"put"}
  Polite = TRUE
  CronAlone = TRUE
SPECIFICATION FairSpec
INVARIANTS AgencyCopyMatchesArchive FiledDraftIsErased DeletedMeansErased StatusFollowsEvents
PROPERTIES ExpiryOnlyTakesDrafts OverdueDraftsGo
CHECK_DEADLOCK FALSE
