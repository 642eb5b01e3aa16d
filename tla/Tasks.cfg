SPECIFICATION TasksSpec
CONSTANTS
  tab1 = tab1  tab2 = tab2  tab3 = tab3  task1 = task1  task2 = task2  f1 = f1  f2 = f2
  root1 = root1  root2 = root2  n1 = n1  n2 = n2  n3 = n3
  k1 = k1  k2 = k2  body1 = body1  body2 = body2
  e1 = e1  e2 = e2  sh = sh  desk1 = desk1  desk2 = desk2
  Tabs = {tab1, tab2, tab3}  Nobody = Nobody
  MaxWindow = 2
  MaxFaults = 2
  EngineTabs = {e1, e2}  ShellTabs = {sh}  Desktops = {desk1, desk2}  NoTab = NoTab
  MaxFrame = 2
  MaxPresses = 2
  MaxHands = 1
  MaxBreaks = 1
  PageMax = 1
  MaxLines = 2
  MaxFlights = 2
  MaxShown = 2
  Tasks = {task1, task2}
  MaxEdits = 1
  MaxRequests = 2
  MaxUser = 2
  MaxCrashes = 1
  MaxEdited = 3
  MaxCheckpoints = 2
  MaxKills = 1
  Files = {f1, f2}
  Limit = 2
  Slack = 1
  MaxScripts = 2
  MaxTrees = 3
  MaxWrites = 2
  MaxSetbacks = 1
  Roots = {root1, root2}  SameName = {root1, root2}  Names = {n1, n2, n3}
  MaxTasks = 3
  MaxDrags = 1
  MaxMoves = 2
  Keys = {k1, k2}  InputBodies = {body1, body2}
  Ttl = 2
  MaxClock = 3
  MaxCopies = 3
  MaxFailures = 1
CONSTRAINTS
  TabsBound LayoutBound BoardBound
INVARIANTS
  TabsStayApart EnsureHeals TranscriptHolds FinishIsTrue CheckpointsKeep SetupIsComplete
  BoardHolds OncePerKey
PROPERTIES
  OwnWritesKept ZenReturns
CHECK_DEADLOCK FALSE
