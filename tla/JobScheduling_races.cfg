SPECIFICATION Spec
CONSTANTS
  Clients = {c1, c2, c3}
  Jobs = {j1}
  Runs = {r1, r2}
  MaxJobsPerClient = 2
  Faults = {"lose", "write", "crash"}
  None = None
SYMMETRY Symmetry
INVARIANTS TypeOK OneActiveRun NoLostUpdate SchedulerIsNotified FinishedHasVerifiedFile StuckOnlyIfAbandoned
PROPERTIES ImplementsSessions ImplementsLifecycle
