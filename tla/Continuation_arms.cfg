SPECIFICATION FairSpec
CONSTANTS
  Launchers = {p1, p2}
  Arms = {a1, a2}
  Prefix = prefix
  NoOne = none
  MaxContainers = 3
  MaxPhases = 2
  MaxLaunches = 1
INVARIANTS OneWriter ArmsSharePrefix
PROPERTIES ImplementsContinuedWork LaunchEnds
CHECK_DEADLOCK FALSE
