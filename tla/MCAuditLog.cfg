CONSTANTS
  Actors = {"a1", "a2"}
  Procs = {"server", "cli"}
  ProcOf <- OneActEach
  SinkList <- OneSink
  Posture = "block"
  MaxCrashes = 1
  MaxOps = 3
  MaxClock = 2
  Window = 1
  Kinds = {"change", "prune"}
SPECIFICATION FocusSpec
INVARIANT ChainVerifies
INVARIANT RecordsTellTheTruth
INVARIANT MirrorFaithful
INVARIANT OnlyPrunesRemove
 
 
