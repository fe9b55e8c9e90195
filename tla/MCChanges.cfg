SPECIFICATION ChangesSpec
CONSTANTS
  Sid = {s1, s2, s3, s4}
  MaxNew = 2
  Call = {c1, c2}
  None = None
  Timeout = 2
SYMMETRY Symmetry
INVARIANTS ChangesTypeOK EachSuccessCommitsOne
PROPERTIES SavedOrderIsShown OthersKeepOrder MoveExchangesRows
