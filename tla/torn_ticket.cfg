SPECIFICATION Spec
CONSTANTS
  o1 = o1  o2 = o2
  c1 = c1  c2 = c2  c3 = c3
  h1 = h1  h2 = h2
  None = None
  OrderIds = {o1}
  Tasks = {c1, c2}
  Handlers = {h1, h2}
  Fallback = TRUE
  MaxAttempts = 3
  Faults = {"broker"}
  MaxFaults = 1
SYMMETRY Alike
INVARIANTS
  ReadersSeeWholeTickets
