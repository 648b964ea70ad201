SPECIFICATION Spec
CONSTANTS
  Clients = {c1, c2}
  Jobs = {j1}
  Runs = {r1, r2}
  MaxJobsPerClient = 2
  Faults = {}
  None = None
SYMMETRY Symmetry
INVARIANT EndedJobHasNoListeners
