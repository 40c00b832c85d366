\* Config patches that turn on admin_api_require_auth and then change superusers.
CONSTANTS
  n1 = n1
  n2 = n2
  p1 = p1
  unknown = unknown
  v1 = v1
  v2 = v2
  dflt = dflt
  auth = auth
  su = su
  alice = alice
  bob = bob
  Nodes <- MCNodes
  Clients = {c1}
  Ops = {"config"}
  Licenses = {l1}
  BadBodies = {malformed}
  InitialFeature = "available"
  Props = {p1, auth, su}
  Values <- MCValues
  InvalidValue = bad
  DefaultValue <- MCDefaultValue
  RequireAuth = auth
  Superusers = su
  User = alice
  ConfigPatches <- MCAuthPatches
  Targets <- MCTargets
  InitialReplicas <- MCInitialReplicas
  Listeners <- MCListeners
  HostHeaders = {Other}
  Other = Other
  Missing = Missing
  WriteErrors <- MCWriteErrors
  BrokerArgs = {n2}
  MaxRequests = 2
  MaxElections = 1
  None = None
SPECIFICATION Spec
INVARIANT NoAdminLockout
CHECK_DEADLOCK FALSE
