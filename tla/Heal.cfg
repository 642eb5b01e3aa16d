SPECIFICATION TabsSpec
CONSTANTS
  Tabs = {"tab1", "tab2", "tab3"}  Nobody = Nobody
  MaxWindow = 2
  MaxFaults = 1
INVARIANT EngineTabsHeal
CHECK_DEADLOCK FALSE
