SPECIFICATION Spec
CONSTANTS
  i1 = i1
  i2 = i2
  b1 = b1
  b2 = b2
  h1 = h1
  h2 = h2
  a1 = a1
  NoImage = NoImage
  NoBuild = NoBuild
  NoServing = NoServing
  NoHash = NoHash
  Images <- MCImages
  BuildImpls <- MCBuildImpls
  HttpImpls <- MCHttpImpls
  AsyncImpls <- MCAsyncImpls
  Specs <- BuildOnly
  FailedBuildsHistoryLimit = 1
  SuccessfulBuildsHistoryLimit = 0
  BuilderMaxAge = TRUE
  EarlyTimeout = FALSE
  MissingDigest = TRUE
  Disturbances = {"write", "crash", "delete"}
  MaxBuilders = 2
  MaxServings = 1
  MaxEdits = 1
  MaxDisturb = 1
INVARIANTS TypeOK SucceededIsBuilt RevisionIsPushed OneActiveBuilder HistoryBounded
PROPERTY BuildSuccessIsStable
CHECK_DEADLOCK FALSE
