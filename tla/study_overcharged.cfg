SPECIFICATION StudySpec
CONSTANTS
  MaxInputs = 1
  N = 2
  MaxVersions = 1
  MaxStarts = 1
  MaxDeaths = 0
  MaxSummaries = 0
PROPERTY OnlyUnfinishedAreCharged
CHECK_DEADLOCK FALSE
