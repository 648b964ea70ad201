SPECIFICATION FairSpec
CONSTANTS
  Clients = {c1}
  Jobs = {j1, j2}
  Runs = {r1, r2}
  MaxJobsPerClient = 2
  Faults = {"lose"}
  None = None
PROPERTY SchedulerHearsOutcome
