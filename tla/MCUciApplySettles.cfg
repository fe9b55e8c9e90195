SPECIFICATION Spec
CONSTANTS
  Call = {c1}
  None = None
  Timeout = 2
PROPERTY ApplySettles
CHECK_DEADLOCK FALSE
