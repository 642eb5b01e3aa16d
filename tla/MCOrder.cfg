SPECIFICATION Spec
CONSTANTS
  w1 = w1  w2 = w2  t1 = t1  t2 = t2  r1 = r1  r2 = r2  r3 = r3
  NoReq = NoReq
  Workspaces = {w1}
  Tabs = {t1}
  Requests = {r1, r2, r3}
  Home <- OneHome
  Target <- AllToT1
  Mode <- AllSend
  Impatient = {}
  NativeAtStart = {}
  Reports <- AllSilent
  PolledTabs = {t1}
  ChoreKinds = {"switch", "resume", "typed"}
  MaxRows = 3
  MaxLane = 2
  MaxCrashes = 0
  MaxMishaps = 1
  MaxChores = 1
PROPERTIES
  InOrder
CHECK_DEADLOCK FALSE
