CONSTANTS
  Names = {"ann"}
  Addrs = {"here"}
  Granted = {1, 4}
  Requests = {r1, r2}
  MaxUsers = 2
  MaxTokens = 1
  MaxLinks = 2
  MaxFailures = 2
  Window = 1
  Lockout = 1
  SetupTTL = 1
  SessionTTL = 1
  TokenTTL = 1
  MaxCounted = 3
  IdentityClock = 4
  Hosts = {h1, h2}
  NodeNames = {"n", "m"}
  JoinTokens = {"t"}
  JoinUses = 2
  CertLife = 2
  MaxCerts = 4
  EnrollFaults = 1
  EnrollClock = 4
SPECIFICATION MCSpec
SYMMETRY Symmetry
INVARIANT AccountsSound
INVARIANT LockoutCovers
PROPERTY SuspensionHolds
INVARIANT NodesSound
 
CHECK_DEADLOCK FALSE
