SPECIFICATION ServicesSpec
CONSTANTS
  d1 = d1  d2 = d2  g1 = g1  reader = reader  w1 = w1  w2 = w2
  Daemons = {d1, d2}
  Guis = {g1}
  NoOne = NoOne  Stale = Stale
  MaxMishaps = 1
  Readers = {reader}  Filtered = {reader}
  PageSize = 2
  MaxEvents = 4
  MaxCuts = 2
  MaxRuns = 3
  MaxRestarts = 1
  MaxCommands = 3
  MaxChildren = 3
  Workspaces = {w1, w2}  Nobody = Nobody
  MaxWorld = 1
  MaxTrouble = 1
  MaxPolls = 1
INVARIANTS
  SoleUnlessRobbed OneProcess RepliesMatch CollectingKeeps
PROPERTIES
  WindowsReconnect IdleDaemonLeaves ImplementsFollower SnapshotsSettle
CHECK_DEADLOCK FALSE
