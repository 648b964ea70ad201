SPECIFICATION Spec
CONSTANTS
  Projects <- AllProjects
  MaxDownloads = 2
  MaxThreads = 3
  Retries = 1
  MaxRuns = 2
INVARIANTS OneThreadPerFile SuccessShipsEverything FolderSurvives
PROPERTY RunsEnd
