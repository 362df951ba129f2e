CONSTANTS
  Nodes = {1, 2}
  Flags = {FALSE}
  Window = 4
  LoadTicks = 1
  FreshHealth = TRUE
  FreshOffer = TRUE
  MaxRolls = 1
  MaxCrashes = 1
  MaxLosses = 1
  MaxDeaths = 1
SPECIFICATION FocusSpec
INVARIANT RollKeepsServing
PROPERTY RestartsAreReal
PROPERTY LiveRollCompletes
