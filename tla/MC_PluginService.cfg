SPECIFICATION Spec
CONSTANTS
  host = host container = container NoConn = NoConn
  Conns = {host, container}
  ParentOf <- MCParentOf
  Requests = {1, 2}
  MaxMade = 3
  Scenarios <- MCScenarios
  Window = 2
  PollInterval = 1
  Misses = 3
  BusyMisses = 6
  Delay = 1
INVARIANTS OpenIsFound ChildShares SparesTheLiving
PROPERTIES AbandonedExits
