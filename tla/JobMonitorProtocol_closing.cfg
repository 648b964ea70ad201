SPECIFICATION Spec
CONSTANTS MaxLines = 1
          MaxProgress = 0
          MaxSize = 1
          EarlierSizes = {0, 3}
          LINE_BUFFER_SIZE = 1
          BUFFER_SIZE = 1
          DOWNLOAD_BUFFER = 1
          MaxInputBuffer = 1
          Window = 1
          Verbose = FALSE
          TroubleSets <- BadKey
INVARIANT EndedHandlerHasClosed
CHECK_DEADLOCK FALSE
