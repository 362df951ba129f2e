CONSTANTS
  Actors = {"a1", "a2"}
  Procs = {"server", "cli"}
  ProcOf <- OneActEach
  SinkList <- TwoSinks
  Posture = "block"
  MaxCrashes = 1
SPECIFICATION DFairSpec
PROPERTY BlockIsExact
PROPERTY BlockLifts
