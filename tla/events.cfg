CONSTANTS
  s1 = s1
  s2 = s2
  t1 = t1
  b1 = b1
  v1 = v1
  v2 = v2
  e1 = e1
  e2 = e2
  u1 = u1
  u2 = u2
  c1 = c1
  c2 = c2
  n1 = n1
  n2 = n2
  x1 = x1
  x2 = x2
  None = None
  Nothing = Nothing
  NoNats = NoNats
  Buses = {b1}
  Versions = {v1, v2}
  FirstBuses <- MCFirstBuses
  MaxChanges = 1
  MaxGen = 2
  Sources = {s1}
  Events = {e1, e2}
  Uris = {u1, u2}
  EmptyUri = EmptyUri
  SourceSpecs <- MCSourceSpecs
  Triggers = {t1}
  Inputs <- MCInputs
  TriggerSpecs <- MCTriggerSpecs
  Conditions = {c1, c2}
  Urls = {u1, u2}
  Namespaces = {n1, n2}
  Home = n1
  Topics = {x1, x2}
SPECIFICATION FairEventsSpec
INVARIANTS
  SubscribersReached
  FunctionsFollow
  Connected
PROPERTIES
  EventsSettle
  SpecsAreTheUsers
CHECK_DEADLOCK FALSE
