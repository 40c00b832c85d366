\* Redirects and answers of every controller-writing route, with lagging
\* tables and caches and one election.
CONSTANTS
  n1 = n1
  n2 = n2
  p1 = p1
  unknown = unknown
  v1 = v1
  v2 = v2
  dflt = dflt
  auth = auth
  su = su
  alice = alice
  bob = bob
  Nodes <- MCNodes
  Clients = {c1}
  Ops = {"feature", "license", "config", "set_replicas", "force_replicas", "cancel", "abort",
         "cancel_node", "cancel_all", "disable", "maintenance", "decommission",
         "recommission", "transfer", "kafka_transfer", "transactions", "mark_expired",
         "majority_lost", "force_recover"}
  Licenses = {l1}
  BadBodies = {malformed}
  InitialFeature = "available"
  Props = {p1, auth, su}
  Values <- MCValues
  InvalidValue = bad
  DefaultValue <- MCDefaultValue
  RequireAuth = auth
  Superusers = su
  User = alice
  ConfigPatches <- MCConfigPatches
  Targets <- MCTargets
  InitialReplicas <- MCInitialReplicas
  Listeners <- MCListeners
  HostHeaders = {2, Other}
  Other = Other
  Missing = Missing
  WriteErrors <- MCWriteErrors
  BrokerArgs = {n2}
  MaxRequests = 2
  MaxElections = 1
  None = None
SPECIFICATION Spec
INVARIANT TypeOK
PROPERTIES AcknowledgedWhenCurrent RequestCompletes
CHECK_DEADLOCK FALSE
