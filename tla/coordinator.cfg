SPECIFICATION FairSpec
CONSTANTS
  tabA = tabA
  tabB = tabB
  fileA = fileA
  d1 = d1
  d2 = d2
  NoTab = NoTab
  Tabs = {tabA, tabB}
  Files = {fileA}
  Dispatches = {d1, d2}
  ClosedLimit = 1
  ForceClaims = TRUE
INVARIANTS TypeOK ClosedTabsHoldNothing IdleTimerOnlyWhenIdle GateNeverSticks ShownCountCurrent
PROPERTY StaleClaimsSwept
