SPECIFICATION Spec
CONSTANTS
  api = api
  d1 = d1
  d2 = d2
  e2 = e2
  v1 = v1
  v2 = v2
  c1 = c1
  c2 = c2
  c3 = c3
  NoDoc = NoDoc
  Latest = Latest
  Free = Free
  Schemas <- MCSchemas
  Docs <- MCDocs
  Versions <- MCVersions
  VersionOf <- MCVersionOf
  Calls = {c1, c2}
  Traffic <- MixedTraffic
  Backend = "sql"
  PluginBound = FALSE
  PluginServes <- NothingServed
CHECK_DEADLOCK FALSE
PROPERTY LatestFoundIfStored
