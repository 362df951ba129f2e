CONSTANTS
  Nodes = {1, 2}
  Flags = {FALSE}
  Window = 4
  LoadTicks = 5
  FreshHealth = TRUE
  FreshOffer = TRUE
  MaxRolls = 1
  MaxCrashes = 0
  MaxLosses = 0
  MaxDeaths = 0
SPECIFICATION FairSpec
PROPERTY RollCompletes
