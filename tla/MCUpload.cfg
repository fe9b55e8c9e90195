SPECIFICATION Spec
CONSTANTS
  Files <- SmallFiles
  None = None
  Old = Old
INVARIANTS TypeOK AllOrNothing StoredIfGranted AnsweredOnce UploadSucceeds
CHECK_DEADLOCK FALSE
