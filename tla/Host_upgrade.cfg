CONSTANTS
  NComps = 1
  Releases = {1, 2}
  Revisions = {1, 2, 3}
  NewText = 3
  MaxVerbs = 3
  MaxHostFaults = 0
SPECIFICATION HostSpec
PROPERTY UpgradedIsRunning
CHECK_DEADLOCK FALSE
