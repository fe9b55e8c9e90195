SPECIFICATION ChangesSpec
CONSTANTS
  Sid = {s1, s2, s3}
  MaxNew = 2
  Call = {c1}
  None = None
  Timeout = 2
PROPERTY MoveUpMovesUp
