SPECIFICATION FairSpec
CONSTANTS
  Sid = {s1, s2, s3}
  Opt = {o1}
  Val = {v1, v2}
  Unset = Unset
  Chain = {c1, c2}
  Faults <- NoFaults
INVARIANTS TypeOK StagingConsistent
PROPERTIES ImplementsEditing
