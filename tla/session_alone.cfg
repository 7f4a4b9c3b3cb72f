\* One session whose requests follow one another, puts that may fail.
CONSTANTS
  Sessions = {s1}
  Workers = {w1}
  MaxClaims = 2
  Drafts = {d1, Blank}
  Blank = Blank
  NoDraft = NoDraft
  NoSession = NoSession
  Faults = {"put"}
SPECIFICATION Spec
INVARIANTS TypeOK MemoFollowsClaim LastSaveIsShown OneInQueue
PROPERTY CancelledIsNotFiled
