SPECIFICATION FairSpec
CONSTANTS
  N = 2
  Cards <- MCCards
  Policies <- MCNarrower
  Initial <- MCWhole
  Changes <- MCAllChanges
  Prompt = TRUE
  MaxChanges = 2
  MaxFaults = 1
INVARIANT StartsAreSound
PROPERTY NarrowingSparesServing
PROPERTY Converges
PROPERTY RowsComeTrue
CHECK_DEADLOCK FALSE
