CONSTANTS
  WFiles = {f1, f2}
  MaxResets = 1
  MaxDeaths = 2
  MaxHarm = 1
  Commands = {trtllm}
  GpuNames = {"L4", "H100"}
  ArchSpecific = TRUE
  Versions = {"v1", "v2"}
  FirstVersion = "v1"
  MaxBuildDeaths = 2
  MaxUpgradeFaults = 2
  EventsInMemory = 3
  EventsSpill = 2
  EventsPerPost = 2
  MaxEvents = 6
  MaxEventFaults = 2
  ReorderWindow = 2
  MaxSeq = 3
  MaxLines = 4
  MaxDamage = 1
  QueueDepth = 3
  BatchMax = 2
  MaxEmits = 6
  MaxPostErrs = 2
  Deployments = {d1}
  Placements = {"served", "disabled"}
  Syncers = {s1, s2}
  MaxMoves = 4
  MaxSyncFaults = 1
  MaxReboots = 1
  NComps = 2
  Releases = {1, 2}
  Revisions = {1, 2, 3}
  NewText = 3
  MaxVerbs = 3
  MaxHostFaults = 1
  KProcs = {k1, k2}
  KReleases = {{2}, {1, 2}}
  MaxKVerbs = 3
  MaxKFaults = 1
SPECIFICATION Spec
PROPERTY WeightsSurvive
PROPERTY MadeIsRunnable
INVARIANT NoSilentLoss
INVARIANT VerdictIsIntact
INVARIANT AssessmentIsTrue
INVARIANT InOrderOrReported
PROPERTY SyncIsRight
 
 
INVARIANT SchemaSound
CHECK_DEADLOCK FALSE
