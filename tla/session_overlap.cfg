\* One session, two requests at a time, nothing fails.
CONSTANTS
  Sessions = {s1}
  Workers = {w1, w2}
  MaxClaims = 1
  Drafts = {d1, d2}
  Blank = Blank
  NoDraft = NoDraft
  NoSession = NoSession
  Faults = {}
SPECIFICATION Spec
INVARIANT LastSaveIsShown
