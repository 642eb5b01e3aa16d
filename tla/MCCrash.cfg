SPECIFICATION Spec
CONSTANTS
  w1 = w1  w2 = w2  t1 = t1  t2 = t2  r1 = r1  r2 = r2  r3 = r3
  NoReq = NoReq
  Workspaces = {w1}
  Tabs = {t1}
  Requests = {r1, r2, r3}
  Home <- OneHome
  Target <- AllToT1
  Mode <- LastInterrupts
  Impatient = {r2}
  NativeAtStart = {}
  Reports <- AllNotify
  PolledTabs = {}
  ChoreKinds = {}
  MaxRows = 2
  MaxLane = 2
  MaxCrashes = 1
  MaxMishaps = 1
  MaxChores = 0
INVARIANTS
  InflightIsClaimed
  DuplicatesExplained
  AcceptedIsDurable
CHECK_DEADLOCK FALSE
