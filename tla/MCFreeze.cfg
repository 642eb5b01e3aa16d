SPECIFICATION Spec
CONSTANTS
  w1 = w1  w2 = w2  t1 = t1  t2 = t2  r1 = r1  r2 = r2  r3 = r3
  NoReq = NoReq
  Workspaces = {w1}
  Tabs = {t1, t2}
  Requests = {r1, r2}
  Home <- OneHome
  Target <- AllToT1
  Mode <- AllSend
  Impatient = {}
  NativeAtStart = {}
  Reports <- AllNotify
  PolledTabs = {}
  ChoreKinds = {"close", "archive", "unarchive", "delete", "withdraw"}
  MaxRows = 2
  MaxLane = 2
  MaxCrashes = 1
  MaxMishaps = 0
  MaxChores = 2
PROPERTIES
  FrozenHolds
  ImplementsOutbox
CHECK_DEADLOCK FALSE
