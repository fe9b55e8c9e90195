SPECIFICATION Spec
CONSTANTS
  Files <- SmallFiles
  None = None
  Old = Old
INVARIANT UploadedCompletely
CHECK_DEADLOCK FALSE
