SPECIFICATION PageSpec
CONSTANTS
  Sid = {s1, s2, s3}
  None = None
  Null = Null
  Timeout = 2
  MaxId = 4
  MaxBlock = 2
  Pending = Pending
  Message = Message
  Default = Default
  Missing = Missing
  View = {v1, v2}
  Home = v1
  Unnamed = Unnamed
  MaxEntries = 3
INVARIANTS PageTypeOK RequestsMatch OwnAnswerUnlessThrown
  OneAtATime LeftViewsStop
PROPERTIES ValidSessionKept DeadSessionNoticed WaitEnds EveryCallSettles ShownViewPolls
CHECK_DEADLOCK FALSE
