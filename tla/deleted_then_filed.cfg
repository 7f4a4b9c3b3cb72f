\* One session, one request at a time, nothing fails.
CONSTANTS
  Sessions = {s1}
  Workers = {w1}
  MaxClaims = 1
  Drafts = {d1, d2}
  Blank = Blank
  NoDraft = NoDraft
  NoSession = NoSession
  Faults = {}
SPECIFICATION Spec
PROPERTY FiledIsQueued
