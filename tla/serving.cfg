CONSTANTS
  Engines = {"knative", "kedahttp", "async", "job"}
  Asks = {{"component", "scaler", "proxy"}}
  Disturbances = {"write", "timer", "lag", "crash", "delete", "flap"}
  MaxAttempts = 2
  MaxDisturb = 1
SPECIFICATION FairSpec
INVARIANTS
  RecordedStay
  NothingTwice
  OnlyRecorded
  StatusFollows
PROPERTIES
  ImplementsLifecycle
  TimeoutEnds
CHECK_DEADLOCK FALSE
