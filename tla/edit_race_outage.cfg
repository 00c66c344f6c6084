SPECIFICATION Spec
CONSTANTS
  i1 = i1
  i2 = i2
  b1 = b1
  b2 = b2
  h1 = h1
  h2 = h2
  a1 = a1
  NoImage = NoImage
  NoBuild = NoBuild
  NoServing = NoServing
  NoHash = NoHash
  Images <- MCImages
  BuildImpls <- MCBuildImpls
  HttpImpls <- MCHttpImpls
  AsyncImpls <- MCAsyncImpls
  Specs <- ServeOnly
  FailedBuildsHistoryLimit = 1
  SuccessfulBuildsHistoryLimit = 0
  BuilderMaxAge = FALSE
  EarlyTimeout = FALSE
  MissingDigest = FALSE
  Disturbances = {}
  MaxBuilders = 0
  MaxServings = 3
  MaxEdits = 2
  MaxDisturb = 0
PROPERTY NoOutage
CHECK_DEADLOCK FALSE
