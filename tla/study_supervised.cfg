SPECIFICATION StudySpec
CONSTANTS
  MaxInputs = 2
  N = 2
  MaxVersions = 2
  MaxStarts = 2
  MaxDeaths = 1
  MaxSummaries = 2
INVARIANTS
  ResultsAgree
PROPERTIES
  StudyKeepsPromise
  SupervisionEnds
CHECK_DEADLOCK FALSE
