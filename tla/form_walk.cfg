CONSTANTS
  a = a
  b = b
  Names = {a, b}
  MaxEmployers = 2
  MaxPosts = 2
  Affirmations = {"yes"}
SPECIFICATION Spec
SYMMETRY Symmetry
INVARIANTS TypeOK EmployersAreWhole  ContinuesAtOpenQuestion OfferedIsFinished
 
CHECK_DEADLOCK FALSE
