SPECIFICATION Spec
CONSTANTS
  d1 = d1
  d2 = d2
  v1 = v1
  v2 = v2
  pets = pets
  orders = orders
  h1 = h1
  h2 = h2
  h3 = h3
  web = web
  app = app
  NoDoc = NoDoc
  NoEntry = NoEntry
  Latest = Latest
  Unset = Unset
  Handlers = {h1, h2}
  Consumers = {web, app}
  Environments = {"dev", "prod"}
  Versions <- MCVersions
  Docs <- MCDocs
  VersionOf <- MCVersionOf
  Endpoints = {pets, orders}
  Changes <- MCChanges
  Traffic <- DeployTraffic
  MaxConsumersPerSchema = 5
  StoreOn = FALSE
  PluginBound = FALSE
SYMMETRY HandlerSymmetry
INVARIANTS SafeVerdictIsSound SafeVerdictIsComplete BreakageIsReal
