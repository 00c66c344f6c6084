CONSTANTS
  g1 = g1
  g2 = g2
  k1 = k1
  k2 = k2
  internal = internal
  web = web
  extra = extra
  more = more
  foreign = foreign
  c1 = c1
  c2 = c2
  Gateways = {g1, g2}
  K8sGateways = {k1, k2}
  Provided = {k1}
  Settled = {g2}
  Names = {internal, web, extra, more, foreign}
  Internal = internal
  ForeignName = foreign
  Configs = {c1, c2}
  NoListener = NoListener
  None = None
  First <- Joins
  Wanted <- Shared
  Disturbances = {"write", "crash", "admin", "remove", "report"}
  MaxEdits = 1
  MaxDisturb = 1
SPECIFICATION FairSpec
INVARIANTS
  Accounted
  Reflected
PROPERTIES
  ForeignKept
  Converges
CHECK_DEADLOCK FALSE
