SPECIFICATION DaemonSpec
CONSTANTS
  Daemons = {d1, d2}
  Guis = {g1}
  NoOne = NoOne  Stale = Stale
  MaxMishaps = 0
INVARIANT OneDaemon
CHECK_DEADLOCK FALSE
