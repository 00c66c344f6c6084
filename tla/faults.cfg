SPECIFICATION FairSpec
CONSTANTS
  i1 = i1
  i2 = i2
  b1 = b1
  b2 = b2
  h1 = h1
  h2 = h2
  a1 = a1
  NoImage = NoImage
  NoBuild = NoBuild
  NoServing = NoServing
  NoHash = NoHash
  Images <- MCImages
  BuildImpls <- MCBuildImpls
  HttpImpls <- MCHttpImpls
  AsyncImpls <- MCAsyncImpls
  Specs <- Mixed
  FailedBuildsHistoryLimit = 1
  SuccessfulBuildsHistoryLimit = 1
  BuilderMaxAge = FALSE
  EarlyTimeout = FALSE
  MissingDigest = FALSE
  Disturbances = {"write", "lag", "crash", "delete", "flap"}
  MaxBuilders = 3
  MaxServings = 4
  MaxEdits = 0
  MaxDisturb = 1
INVARIANTS BuildReflected ServingReflected
PROPERTY Settles
CHECK_DEADLOCK FALSE
