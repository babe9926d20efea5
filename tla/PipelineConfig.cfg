SPECIFICATION Spec
CONSTANTS
  k1 = k1
  k2 = k2
  dev = dev
  prod = prod
  host = host
  uri = uri
  Keys = {host, uri}
  sensitiveKeys = {host}
  Clients = {k1, k2}
  Envs = {dev, prod}
  MaxRequests = 4
  MaxFaults = 1
  Unset = Unset
INVARIANTS
  HistoryNumbered
  RowMatchesVersion
  SettingsStayHome
SYMMETRY Symmetry
CHECK_DEADLOCK FALSE
