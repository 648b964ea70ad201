SPECIFICATION FairSpec
CONSTANTS MaxLines = 3
          MaxProgress = 1
          MaxSize = 4
          EarlierSizes = {0, 3}
          LINE_BUFFER_SIZE = 2
          BUFFER_SIZE = 3
          DOWNLOAD_BUFFER = 2
          MaxInputBuffer = 2
          Window = 2
          Verbose = TRUE
          TroubleSets <- AllTroubles
INVARIANTS RepliesMatch NobodyWaitsForever NoLineIsLost SuccessIsRecorded DownloadIsOneArchive
PROPERTIES ImplementsSession SessionEnds JobGetsFinished
CHECK_DEADLOCK FALSE
