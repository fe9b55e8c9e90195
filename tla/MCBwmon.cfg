SPECIFICATION Spec
CONSTANTS
  Dev = {d1, d2}
  Type = {rx}
  H = 3
  U32 = 2
  K = 2
INVARIANT TypeOK
PROPERTY ImplementsChart
