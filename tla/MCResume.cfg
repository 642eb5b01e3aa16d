SPECIFICATION LiveSpec
CONSTANTS
  w1 = w1  w2 = w2  t1 = t1  t2 = t2  r1 = r1  r2 = r2  r3 = r3
  NoReq = NoReq
  Workspaces = {w1}
  Tabs = {t1}
  Requests = {r1, r2, r3}
  Home <- OneHome
  Target <- AllToT1
  Mode <- SecondInterrupts
  Impatient = {}
  NativeAtStart = {}
  Reports <- AllNotify
  PolledTabs = {t1}
  ChoreKinds = {"typed"}
  MaxRows = 2
  MaxLane = 2
  MaxCrashes = 0
  MaxMishaps = 0
  MaxChores = 1
PROPERTIES
  QueueResumes
CHECK_DEADLOCK FALSE
