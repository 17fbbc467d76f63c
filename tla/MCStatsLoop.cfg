\* The statistics loop and the manager alone.
SPECIFICATION FairSpec
CONSTANTS
  None = None
  Loop = Loop
  Manager = Manager
  Clients = {}
  Peers = {i1}
  Callsigns = {"K1"}
  AutoConnect = {"K1"}
  BadAddress = {}
  Calls = {"send", "broadcast", "disconnect", "read_stats", "read_peers"}
  MaxAttempts = 1
PROPERTIES
  StatsUpdated
CHECK_DEADLOCK FALSE
