SPECIFICATION FairSpec
CONSTANTS
  Sid = {s1}
  Opt = {o1}
  Val = {v1}
  Unset = Unset
  Chain = {c1, c2}
  Faults <- AllFaults
INVARIANTS CleanViewIsStore
PROPERTIES ChainEnds
