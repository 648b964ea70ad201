SPECIFICATION Spec
CONSTANTS Sockets = {s1, s2, s3}
          MaxClients = 2
          OncePerSocket = FALSE
          None = None
SYMMETRY Symmetry
INVARIANT ClosedSocketsAreForgotten
