SPECIFICATION Spec
CONSTANTS Sockets = {s1, s2, s3}
          MaxClients = 2
          OncePerSocket = TRUE
          None = None
SYMMETRY Symmetry
INVARIANTS MapMatchesSockets EverySocketIsReached
