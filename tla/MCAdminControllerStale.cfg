\* An OK answer to a feature change from a broker whose feature table lags.
CONSTANTS
  n1 = n1
  n2 = n2
  p1 = p1
  unknown = unknown
  v1 = v1
  v2 = v2
  dflt = dflt
  auth = auth
  su = su
  alice = alice
  bob = bob
  Nodes <- MCNodes
  Clients = {c1}
  Ops = {"feature"}
  Licenses = {l1}
  BadBodies = {malformed}
  InitialFeature = "active"
  Props = {p1, auth, su}
  Values <- MCValues
  InvalidValue = bad
  DefaultValue <- MCDefaultValue
  RequireAuth = auth
  Superusers = su
  User = alice
  ConfigPatches <- MCConfigPatches
  Targets <- MCTargets
  InitialReplicas <- MCInitialReplicas
  Listeners <- MCListeners
  HostHeaders = {1, 2, Other}
  Other = Other
  Missing = Missing
  WriteErrors <- MCWriteErrors
  BrokerArgs = {n2}
  MaxRequests = 2
  MaxElections = 1
  None = None
SPECIFICATION Spec
PROPERTIES AcknowledgedPutHolds
CHECK_DEADLOCK FALSE
