SPECIFICATION Spec
CONSTANTS
  Clients = {c1, c2}
  Jobs = {j1, j2}
  Runs = {r1, r2, r3}
  MaxJobsPerClient = 1
  Faults = {}
  None = None
SYMMETRY Symmetry
INVARIANT LimitPerClient
