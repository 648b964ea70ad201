SPECIFICATION Spec
CONSTANTS
  r1 = r1
  r2 = r2
  r3 = r3
  Requests <- AllRequests
  MaxTime = 6
  MaxFetches = 3
INVARIANTS DetailsAreRecent OneVersion
PROPERTIES OnlySharersForget EveryRequestIsAnswered
