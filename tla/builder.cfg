CONSTANTS
  Disturbances = {"write", "crash", "delete"}
  RunResults = {"Succeeded", "Failed"}
  MaxStarts = 3
  MaxDisturb = 1
SPECIFICATION FairSpec
INVARIANTS
  OneActiveRun
  RecordedRunIsLast
  EndIsTheRuns
PROPERTIES
  ImplementsLifecycle
  TimeoutEnds
  CancelEnds
CHECK_DEADLOCK FALSE
