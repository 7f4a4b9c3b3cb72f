CONSTANTS
  AR = AR
  NJ = NJ
  x1 = x1
  x2 = x2
  Claimants = {p, q}
  Browsers = {b1, b2}
  Workers = {w1, w2}
  Agencies = {AR, NJ}
  IdentityOnly = {AR}
  Xids = {x1, x2}
  Links <- MCLinks
  StartPages = {x2}
  MaxLogins = 2
  MaxUpsets = 1
  None = None
SPECIFICATION Spec
INVARIANTS TypeOK ClaimIsHers SessionIsOfItsLogin VerifiedIsShared
PROPERTIES VerifiedStays
SYMMETRY Symmetry
