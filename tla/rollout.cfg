SPECIFICATION FairSpec
CONSTANTS
  i1 = i1
  i2 = i2
  b1 = b1
  b2 = b2
  h1 = h1
  h2 = h2
  a1 = a1
  NoImage = NoImage
  NoBuild = NoBuild
  NoServing = NoServing
  NoHash = NoHash
  Images <- MCImages
  BuildImpls <- MCBuildImpls
  HttpImpls <- MCHttpImpls
  AsyncImpls <- MCAsyncImpls
  Specs <- Sections
  FailedBuildsHistoryLimit = 1
  SuccessfulBuildsHistoryLimit = 1
  BuilderMaxAge = FALSE
  EarlyTimeout = TRUE
  MissingDigest = FALSE
  Disturbances = {}
  MaxBuilders = 2
  MaxServings = 3
  MaxEdits = 1
  MaxDisturb = 0
INVARIANT OnlyRunningServingLives
PROPERTIES ServesTheBuiltCode NoOutage
CHECK_DEADLOCK FALSE
