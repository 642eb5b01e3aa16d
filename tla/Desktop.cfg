SPECIFICATION DesktopSpec
CONSTANTS
  s1 = s1  s2 = s2  p1 = p1  p2 = p2
  st1 = st1  st2 = st2  et1 = et1  et2 = et2  ce1 = ce1  ce2 = ce2  df = df
  x1 = x1  x2 = x2  ka = ka  kb = kb  pane1 = pane1  pane2 = pane2
  ListLimit = 1
  MaxLog = 4
  MaxAsks = 2
  MaxTroubles = 2
  MaxSockets = 3
  MaxGroups = 2
  MaxKeys = 2
  MaxMishaps = 1
  Spaces = {s1, s2}
  Projects = {p1, p2}
  MaxWords = 2
  MaxPictures = 1
  MaxPosts = 2
  MaxLosses = 1
  Starters = {st1, st2}  EngineTabs = {et1, et2}  Ids = {ce1, ce2}  Spares <- TwoSpares
  Bodies = {df}  NoRun = NoRun
  MaxSaves = 4
  Owners = {x1, x2}  Adopted = {x2}  NoOwner = NoOwner
  MaxDialogs = 2
  MaxNews = 1
  Panes = {pane1, pane2}  Actions = {ka, kb}  Default <- KeysOf  KeyTexts <- SomeTexts
  Unbound = Unbound  Kept = Kept  Garbage = Garbage  NoPane = NoPane
  MaxEdits = 3
  Active = 4
  Agents = 2
  MaxSubmits = 1
  MaxRetries = 1
  MaxTrouble = 2
CONSTRAINTS
  TerminalBound DialogsBound FanoutBound
INVARIANTS
  StoresConverge TerminalKeeps WordsKept EnginesHold
  DialogsHold KeysHold CreationIsReported
CHECK_DEADLOCK FALSE
