SPECIFICATION Spec
CONSTANTS
  a = a
  b = b
  s1 = s1
  s2 = s2
  s3 = s3
  None = None
  Clients = {a, b}
  Seeds = {s1, s2, s3}
  MaxSeeds = 2
  TTL = 2
  Lag = 1
  Horizon = 4
SYMMETRY Alike
INVARIANTS
  TypeOK
  LatestIsKnown
  ShownIsOpen
  
